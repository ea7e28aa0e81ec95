---------------------------- MODULE IngestProofs ----------------------------
(***************************************************************************)
(* What Ingest promises of the tables, for files of any length and any     *)
(* number of starts, errors and crashes; and, in the second part, what     *)
(* docker-compose makes of it: the agent finds its data while the job runs *)
(* again, fails or is killed beneath it.                                   *)
(***************************************************************************)
EXTENDS Startup, TLAPS

\* What the open transaction holds, depending on how far the stage has come:
\* a prefix of the file during an executemany, nothing or everything
\* otherwise, and a part that will be committed only after a client's error.
Pending ==
    /\ pc \in {"guard", "down"} => written = {}
    /\ pc = "fill" /\ Current \in Batch => written = 1..row
    /\ pc = "fill" /\ Current \notin Batch => written = {}
    /\ pc = "commit" => written = Rows
    /\ pc = "failed" /\ tx = "open" => written = {} \/ Current \in spoilt
    /\ pc \in {"fill", "commit", "failed"} => stage \in DOMAIN stages

\* The stages behind the current one are loaded; all of them without the
\* exception of spoilt tables when the guard was overridden.
Behind ==
    pc \in Running =>
        \A i \in 1..(stage - 1) :
            \/ stored[stages[i]] = Rows
            \/ ~force /\ stages[i] \in spoilt

\* What a start that succeeded left, until the next start.
Left ==
    exit = 0 => /\ pc = "down"
                /\ \A t \in Tables : stored[t] = Rows \/ (~force /\ t \in spoilt)

LoadInv == TypeOK /\ AllOrNothing /\ Pending /\ Behind /\ Left
-----------------------------------------------------------------------------
\* Six stages, and the table of each is one of Tables.
LEMMA StageFacts ==
    /\ Len(stages) = 6 /\ DOMAIN stages = 1..6
    /\ \A i \in 1..6 : stages[i] \in Tables
    /\ \A t \in Tables : \E i \in 1..6 : t = stages[i]
<1>1. Len(stages) = 6 /\ DOMAIN stages = 1..6
  BY DEF stages
<1>2. QED
  BY <1>1 DEF Tables

\* A commit of a complete file or of a spoilt table leaves no other table in
\* part, and takes nothing away.
LEMMA CommittedFacts ==
    ASSUME TypeOK, AllOrNothing, stage \in DOMAIN stages,
           written \in {{}, Rows} \/ Current \in spoilt
    PROVE  /\ Committed \in [Tables -> SUBSET Rows]
           /\ \A t \in Tables : Committed[t] \in {{}, Rows} \/ t \in spoilt
           /\ \A t \in Tables : stored[t] = Rows => Committed[t] = Rows
           /\ written = Rows => Committed[Current] = Rows
<1>1. Current \in Tables
  BY StageFacts DEF Current
<1>2. \A t \in Tables : Committed[t] = IF t = Current THEN stored[t] \cup written
                                                      ELSE stored[t]
  BY <1>1 DEF Committed, TypeOK
<1>3. Committed \in [Tables -> SUBSET Rows]
  BY <1>1 DEF Committed, TypeOK
<1>4. \A t \in Tables : stored[t] \subseteq Rows /\ written \subseteq Rows
  BY DEF TypeOK
<1>5. QED
  BY <1>1, <1>2, <1>3, <1>4 DEF AllOrNothing

\* Before the first start there is nothing anywhere.
LEMMA LoadInit == Init => LoadInv
<1>1. SUFFICES ASSUME Init PROVE LoadInv
  OBVIOUS
<1>2. TypeOK
  <2>1. stage \in 1..(Len(stages) + 1)
    BY <1>1, StageFacts DEF Init
  <2>2. stored \in [Tables -> SUBSET Rows]
    BY <1>1 DEF Init
  <2>3. force \in BOOLEAN
    BY <1>1, Zenon DEF Init
  <2>4. QED
    BY <1>1, <2>1, <2>2, <2>3, IngestAssumption DEF Init, TypeOK
<1>3. AllOrNothing
  BY <1>1 DEF Init, AllOrNothing
<1>4. QED
  BY <1>1, <1>2, <1>3 DEF Init, LoadInv, Pending, Behind, Left, Running

\* Every statement, commit, error, crash and restart keeps the tables in order.
LEMMA LoadNext == LoadInv /\ [Next]_vars => LoadInv'
<1> SUFFICES ASSUME LoadInv, [Next]_vars PROVE LoadInv'
  OBVIOUS
<1> USE StageFacts, IngestAssumption DEF LoadInv, Rows
<1>1. ASSUME NEW forced \in BOOLEAN, Start(forced) PROVE LoadInv'
  <2>1. TypeOK'
    BY <1>1 DEF Start, TypeOK, Running
  <2>2. AllOrNothing'
    BY <1>1 DEF Start, AllOrNothing
  <2>3. Pending' /\ Behind' /\ Left'
    BY <1>1 DEF Start, Pending, Behind, Left, Current, TypeOK, Running
  <2>4. QED
    BY <2>1, <2>2, <2>3
<1>2. CASE Guard
  <2>1. TypeOK'
    BY <1>2 DEF Guard, TypeOK, Running
  <2>2. AllOrNothing'
    BY <1>2 DEF Guard, AllOrNothing
  <2>3. Pending'
    BY <1>2 DEF Guard, Pending, Current, TypeOK
  <2>4. Behind'
    <3>1. CASE stored[Current] # {} /\ ~force
      <4>1. stored[Current] = Rows \/ Current \in spoilt
        BY <1>2, <3>1 DEF Guard, AllOrNothing, Current, TypeOK
      <4>2. QED
        BY <1>2, <3>1, <4>1 DEF Guard, Behind, Current, TypeOK, Running
    <3>2. CASE ~(stored[Current] # {} /\ ~force)
      BY <1>2, <3>2 DEF Guard, Behind, TypeOK, Running
    <3>3. QED
      BY <3>1, <3>2
  <2>5. Left'
    BY <1>2 DEF Guard, Left
  <2>6. QED
    BY <2>1, <2>2, <2>3, <2>4, <2>5
<1>3. CASE InsertRow
  <2>1. TypeOK'
    BY <1>3 DEF InsertRow, TypeOK, Running
  <2>2. AllOrNothing' /\ Behind' /\ Left'
    BY <1>3 DEF InsertRow, AllOrNothing, Behind, Left, Running
  <2>3. Pending'
    BY <1>3 DEF InsertRow, Pending, Current, TypeOK
  <2>4. QED
    BY <2>1, <2>2, <2>3
<1>4. CASE BatchDone
  <2>1. TypeOK'
    BY <1>4 DEF BatchDone, TypeOK, Running
  <2>2. AllOrNothing' /\ Behind' /\ Left'
    BY <1>4 DEF BatchDone, AllOrNothing, Behind, Left, Running
  <2>3. Pending'
    BY <1>4 DEF BatchDone, Pending, Current, TypeOK
  <2>4. QED
    BY <2>1, <2>2, <2>3
<1>5. CASE FoldStaged
  <2>1. TypeOK'
    BY <1>5 DEF FoldStaged, TypeOK, Running
  <2>2. AllOrNothing' /\ Behind' /\ Left'
    BY <1>5 DEF FoldStaged, AllOrNothing, Behind, Left, Running
  <2>3. Pending'
    BY <1>5 DEF FoldStaged, Pending, Current, TypeOK
  <2>4. QED
    BY <2>1, <2>2, <2>3
<1>6. CASE Commit
  <2>1. stage \in DOMAIN stages /\ written = Rows
    BY <1>6 DEF Commit, Pending
  <2>2. /\ Committed \in [Tables -> SUBSET Rows]
        /\ \A t \in Tables : Committed[t] \in {{}, Rows} \/ t \in spoilt
        /\ \A t \in Tables : stored[t] = Rows => Committed[t] = Rows
        /\ Committed[Current] = Rows
    BY <2>1, CommittedFacts
  <2>3. TypeOK'
    BY <1>6, <2>1, <2>2 DEF Commit, TypeOK, Running
  <2>4. AllOrNothing'
    BY <1>6, <2>2 DEF Commit, AllOrNothing
  <2>5. Pending' /\ Left'
    BY <1>6 DEF Commit, Pending, Left
  <2>6. Behind'
    BY <1>6, <2>1, <2>2 DEF Commit, Behind, Current, TypeOK, Running
  <2>7. QED
    BY <2>3, <2>4, <2>5, <2>6
<1>7. CASE ServerError
  <2>1. TypeOK'
    BY <1>7 DEF ServerError, TypeOK, Running
  <2>2. AllOrNothing' /\ Behind' /\ Left'
    BY <1>7 DEF ServerError, AllOrNothing, Behind, Left, Running
  <2>3. Pending'
    BY <1>7 DEF ServerError, Pending, TypeOK
  <2>4. QED
    BY <2>1, <2>2, <2>3
<1>8. CASE CommitFails
  <2>1. stage \in DOMAIN stages /\ written = Rows
    BY <1>8 DEF CommitFails, Pending
  <2>2. /\ stored' \in [Tables -> SUBSET Rows]
        /\ \A t \in Tables : stored'[t] \in {{}, Rows} \/ t \in spoilt
        /\ \A t \in Tables : stored[t] = Rows => stored'[t] = Rows
    BY <1>8, <2>1, CommittedFacts DEF CommitFails, TypeOK, AllOrNothing
  <2>3. TypeOK'
    BY <1>8, <2>2 DEF CommitFails, TypeOK, Running
  <2>4. AllOrNothing'
    BY <1>8, <2>2 DEF CommitFails, AllOrNothing
  <2>5. Pending' /\ Left'
    BY <1>8, <2>1 DEF CommitFails, Pending, Left
  <2>6. Behind'
    BY <1>8, <2>1, <2>2 DEF CommitFails, Behind, TypeOK, Running
  <2>7. QED
    BY <2>3, <2>4, <2>5, <2>6
<1>9. CASE ClientError
  <2>1. TypeOK'
    BY <1>9 DEF ClientError, TypeOK, Running, Pending
  <2>2. AllOrNothing' /\ Behind' /\ Left'
    BY <1>9 DEF ClientError, AllOrNothing, Behind, Left, Running
  <2>3. Pending'
    BY <1>9 DEF ClientError, Pending, Current, TypeOK
  <2>4. QED
    BY <2>1, <2>2, <2>3
<1>10. CASE ReturnFailure
  <2>1. stage \in DOMAIN stages
    BY <1>10 DEF ReturnFailure, Pending
  <2>2. /\ stored' \in [Tables -> SUBSET Rows]
        /\ \A t \in Tables : stored'[t] \in {{}, Rows} \/ t \in spoilt
    <3>1. CASE tx = "open"
      BY <1>10, <2>1, <3>1, CommittedFacts DEF ReturnFailure, Pending
    <3>2. CASE tx # "open"
      BY <1>10, <3>2 DEF ReturnFailure, TypeOK, AllOrNothing
    <3>3. QED
      BY <3>1, <3>2
  <2>3. TypeOK'
    BY <1>10, <2>2 DEF ReturnFailure, TypeOK, Running
  <2>4. AllOrNothing'
    BY <1>10, <2>2 DEF ReturnFailure, AllOrNothing
  <2>5. Pending' /\ Left' /\ Behind'
    BY <1>10 DEF ReturnFailure, Pending, Left, Behind, Running
  <2>6. QED
    BY <2>3, <2>4, <2>5
<1>11. CASE ReturnSuccess
  <2>1. TypeOK'
    BY <1>11 DEF ReturnSuccess, TypeOK, Running
  <2>2. AllOrNothing' /\ Pending' /\ Behind'
    BY <1>11 DEF ReturnSuccess, AllOrNothing, Pending, Behind, Running
  <2>3. Left'
    <3>1. \A i \in 1..6 : stored[stages[i]] = Rows \/ (~force /\ stages[i] \in spoilt)
      BY <1>11 DEF ReturnSuccess, Behind, TypeOK, Running
    <3>2. \A t \in Tables : stored[t] = Rows \/ (~force /\ t \in spoilt)
      BY <3>1
    <3>3. QED
      BY <1>11, <3>2 DEF ReturnSuccess, Left
  <2>4. QED
    BY <2>1, <2>2, <2>3
<1>12. CASE Crash
  <2>1. /\ stored' \in [Tables -> SUBSET Rows]
        /\ \A t \in Tables : stored'[t] \in {{}, Rows} \/ t \in spoilt
    <3>1. CASE UNCHANGED stored
      BY <3>1 DEF TypeOK, AllOrNothing
    <3>2. CASE pc = "commit" /\ stored' = Committed
      BY <3>2, CommittedFacts DEF Pending
    <3>3. QED
      BY <1>12, <3>1, <3>2 DEF Crash
  <2>2. TypeOK'
    BY <1>12, <2>1 DEF Crash, TypeOK, Running
  <2>3. AllOrNothing'
    BY <1>12, <2>1 DEF Crash, AllOrNothing
  <2>4. Pending' /\ Left' /\ Behind'
    BY <1>12 DEF Crash, Pending, Left, Behind, Running
  <2>5. QED
    BY <2>2, <2>3, <2>4
<1>13. CASE UNCHANGED vars
  <2>1. TypeOK' /\ AllOrNothing'
    BY <1>13 DEF vars, job, TypeOK, AllOrNothing
  <2>2. Pending' /\ Behind' /\ Left'
    BY <1>13 DEF vars, job, Pending, Behind, Left, Current
  <2>3. QED
    BY <2>1, <2>2
<1>14. QED
  BY <1>1, <1>2, <1>3, <1>4, <1>5, <1>6, <1>7, <1>8, <1>9, <1>10, <1>11,
     <1>12, <1>13 DEF Next, Over

\* The invariant holds in every state of every history of starts.
LEMMA LoadSafe == Spec => []LoadInv
BY LoadInit, LoadNext, PTL DEF Spec

\* Ingest's types and ranges, for files of any length.
THEOREM IngestTypeCorrect == Spec => []TypeOK
<1>1. LoadInv => TypeOK
  BY DEF LoadInv
<1>2. QED
  BY <1>1, LoadSafe, PTL

\* Whatever the server or a kill does to the job, and however often it is
\* started again, only an exception of the client inside an executemany leaves
\* a table in part.
THEOREM TablesAreAllOrNothing == Spec => []AllOrNothing
<1>1. LoadInv => AllOrNothing
  BY DEF LoadInv
<1>2. QED
  BY <1>1, LoadSafe, PTL

\* The agent is never started on a table that is missing, nor on one that is
\* in part for another reason than such an exception.
THEOREM SuccessMeansLoaded == Spec => []ExitZeroMeansLoaded
<1>1. LoadInv => ExitZeroMeansLoaded
  BY DEF LoadInv, Left, ExitZeroMeansLoaded
<1>2. QED
  BY <1>1, LoadSafe, PTL

\* A forced start that succeeds has completed every table.
THEOREM ForceHeals == Spec => []ForcedRunHeals
<1>1. LoadInv => ForcedRunHeals
  BY DEF LoadInv, Left, ForcedRunHeals
<1>2. QED
  BY <1>1, LoadSafe, PTL

-----------------------------------------------------------------------------
(* Beneath docker-compose *)

\* Every step of the composition is one of the job's, or leaves it alone.
LEMMA JobStep == [StartupNext]_startupVars => [Next]_vars
  BY DEF StartupNext, startupVars, ComposeUp, IngestRuns, AgentStarts,
         AgentComesUp, DemoRuns, UpFails, Down, Next

\* Nothing the job does takes a row from a table, or a table off the list of
\* those that an executemany has spoilt.
LEMMA TablesGrow ==
  ASSUME TypeOK, [Next]_vars
  PROVE  /\ \A t \in Tables : stored[t] \subseteq stored'[t]
         /\ spoilt \subseteq spoilt'
<1>1. stored \in [Tables -> SUBSET Rows]
  BY DEF TypeOK
<1>2. \A t \in Tables : stored[t] \subseteq Committed[t]
  BY <1>1 DEF Committed
<1>3. stored' \in {stored, Committed} /\ spoilt \subseteq spoilt'
  BY DEF Next, vars, Start, Guard, InsertRow, BatchDone, FoldStaged, Commit,
         ServerError, CommitFails, ClientError, ReturnFailure, ReturnSuccess,
         Crash, Over
<1> QED BY <1>2, <1>3

\* What the agent relies on, inductively: the invariant of the job, and that
\* it was loaded when the agent was started.
ServedInv == LoadInv /\ AgentServesLoadedData

LEMMA ServedInit == StartupInit => ServedInv
  BY LoadInit DEF StartupInit, ServedInv, AgentServesLoadedData

LEMMA ServedNext == ServedInv /\ [StartupNext]_startupVars => ServedInv'
<1> SUFFICES ASSUME ServedInv, [StartupNext]_startupVars
             PROVE  ServedInv'
  OBVIOUS
<1>1. [Next]_vars
  BY JobStep
<1>2. LoadInv'
  BY <1>1, LoadNext DEF ServedInv
<1>3. ASSUME NEW t \in Tables, stored[t] = Rows \/ t \in spoilt
      PROVE  stored'[t] = Rows \/ t \in spoilt'
  <2>1. stored[t] \subseteq stored'[t] /\ spoilt \subseteq spoilt'
    BY <1>1, TablesGrow DEF ServedInv, LoadInv
  <2>2. stored'[t] \subseteq Rows
    BY <1>2 DEF LoadInv, TypeOK
  <2> QED BY <1>3, <2>1, <2>2
<1>4. CASE AgentStarts
  <2>1. UNCHANGED <<stored, spoilt>> /\ exit = 0
    BY <1>4 DEF AgentStarts, vars
  <2>2. \A t \in Tables : stored[t] = Rows \/ t \in spoilt
    BY <2>1 DEF ServedInv, LoadInv, Left
  <2> QED BY <1>2, <2>1, <2>2 DEF ServedInv, AgentServesLoadedData
<1>5. CASE ~AgentStarts
  <2>1. agent' \in {"starting", "up"} => agent \in {"starting", "up"}
    BY <1>5 DEF StartupNext, startupVars, ComposeUp, IngestRuns, AgentComesUp,
                DemoRuns, UpFails, Down
  <2> QED BY <1>2, <1>3, <2>1 DEF ServedInv, AgentServesLoadedData
<1> QED BY <1>4, <1>5

\* An agent that takes requests has every table complete, but for one that an
\* executemany left in part: depends_on in docker-compose.yml, the row guard of
\* ingest.py and its transactions together keep it so while a later, forced
\* ingestion runs, fails or is killed beneath it.
THEOREM AgentFindsItsData == StartupSpec => []AgentServesLoadedData
<1>1. ServedInv => AgentServesLoadedData
  BY DEF ServedInv
<1> QED
  BY ServedInit, ServedNext, <1>1, PTL DEF StartupSpec

\* In the composition the exit status of the job keeps its meaning: 0 says that
\* every table was loaded (ingest.py, main).
THEOREM ExitStatusStaysHonest == StartupSpec => []ExitZeroMeansLoaded
<1>1. ServedInv => ExitZeroMeansLoaded
  BY DEF ServedInv, LoadInv, Left, ExitZeroMeansLoaded
<1> QED
  BY ServedInit, ServedNext, <1>1, PTL DEF StartupSpec

\* What docker-compose does around the job is a behaviour of the job: a start,
\* a step or a kill of it, or a step it does not notice (docker-compose.yml).
THEOREM ComposeRunsTheJob == StartupSpec => Spec
<1>1. StartupInit => Init
  BY DEF StartupInit
<1> QED
  BY <1>1, JobStep, PTL DEF StartupSpec, Spec

-----------------------------------------------------------------------------
(* What a step of the job does to the tables, and how many it may take *)

\* Nothing that was loaded is ever taken away, a table that changes is complete
\* then or spoilt by an executemany, and one stage writes one table.
TablesFill ==
    /\ \A t \in Tables : stored[t] \subseteq stored'[t]
    /\ \A t \in Tables : stored'[t] = stored[t] \/ stored'[t] = Rows \/ t \in spoilt'
    /\ \A t, u \in Tables : stored'[t] # stored[t] /\ stored'[u] # stored[u] => t = u

\* A later start of the job, forced or not, failing or killed, changes nothing
\* once every table is complete: "idempotent on re-runs" (docker-compose.yml).
ReRunsChangeNothing == (\A t \in Tables : stored[t] = Rows) => stored' = stored

\* Each table is filled by one step, in one start or another, for good
\* (ingest.py: the row guards, ON CONFLICT DO NOTHING and one commit a stage).
THEOREM TablesAreFilledOnce == Spec => [][TablesFill /\ ReRunsChangeNothing]_vars
<1>1. LoadInv /\ LoadInv' /\ [Next]_vars => [TablesFill /\ ReRunsChangeNothing]_vars
  <2> SUFFICES ASSUME LoadInv, LoadInv', [Next]_vars
               PROVE  TablesFill /\ ReRunsChangeNothing
    OBVIOUS
  <2>1. /\ stored \in [Tables -> SUBSET Rows] /\ stored' \in [Tables -> SUBSET Rows]
        /\ \A t \in Tables : stored[t] \subseteq stored'[t]
    BY TablesGrow DEF LoadInv, TypeOK, Rows
  <2>2. stored' \in {stored, Committed}
    BY DEF Next, vars, Start, Guard, InsertRow, BatchDone, FoldStaged, Commit,
           ServerError, CommitFails, ClientError, ReturnFailure, ReturnSuccess,
           Crash, Over
  <2>3. \A t \in Tables : t # Current => Committed[t] = stored[t]
    BY <2>1 DEF Committed
  <2>4. \A t \in Tables : stored'[t] = stored[t] \/ stored'[t] = Rows \/ t \in spoilt'
    <3>1. \A t \in Tables : stored'[t] \in {{}, Rows} \/ t \in spoilt'
      BY DEF LoadInv, AllOrNothing, Rows
    <3> QED BY <2>1, <3>1
  <2>5. ReRunsChangeNothing
    <3> SUFFICES ASSUME \A t \in Tables : stored[t] = Rows
                 PROVE  stored' = stored
      BY DEF ReRunsChangeNothing
    <3>1. \A t \in Tables : stored'[t] = stored[t]
      BY <2>1
    <3> QED BY <2>1, <3>1
  <2> QED BY <2>1, <2>2, <2>3, <2>4, <2>5 DEF TablesFill
<1> QED
  BY <1>1, LoadSafe, PTL DEF Spec

\* A stage: its guard, its rows, the end of the batch and its commit.
StageSteps == RowCount + 3

\* What a start has still to do from stage i on.
StagesAhead(i) == (7 - i) * StageSteps

\* The most steps that a start has left.
StartStepsLeft ==
    CASE pc = "guard"  -> StagesAhead(stage) + 1
      [] pc = "fill"   -> StagesAhead(stage) - row
      [] pc = "commit" -> StagesAhead(stage) - RowCount - 1
      [] pc = "failed" -> 1
      [] pc = "down"   -> 0

\* A stage less is StageSteps less.
LEMMA StagesAheadFacts ==
  ASSUME NEW i \in 1..7
  PROVE  /\ StageSteps \in Nat /\ StageSteps = RowCount + 3 /\ RowCount \in Nat
         /\ StagesAhead(i) \in 0..(6 * StageSteps)
         /\ StagesAhead(i + 1) = StagesAhead(i) - StageSteps
         /\ i <= 6 => StagesAhead(i) >= StageSteps
<1>1. StageSteps \in Nat /\ StageSteps = RowCount + 3 /\ RowCount \in Nat
  BY IngestAssumption DEF StageSteps
<1>2. ASSUME NEW w \in Nat
      PROVE  /\ (7 - i) * w \in 0..(6 * w)
             /\ (7 - (i + 1)) * w = (7 - i) * w - w
             /\ i <= 6 => (7 - i) * w >= w
  <2>1. i \in {1, 2, 3, 4, 5, 6, 7}
    OBVIOUS
  <2> QED BY <2>1
<1> QED BY <1>1, <1>2 DEF StagesAhead

\* The job loads six files, skips those it has, and is through: whatever rows
\* there are and whatever goes wrong, a start has a bounded number of steps to
\* take and each step leaves fewer (ingest.py, main; no stage is retried).
THEOREM EveryStartIsBounded ==
  Spec => /\ [](StartStepsLeft \in 0..(6 * StageSteps + 1))
          /\ [][StartStepsLeft' < StartStepsLeft \/ \E forced \in BOOLEAN : Start(forced)]_vars
<1>1. LoadInv => StartStepsLeft \in 0..(6 * StageSteps + 1)
  <2> SUFFICES ASSUME LoadInv
               PROVE  StartStepsLeft \in 0..(6 * StageSteps + 1)
    OBVIOUS
  <2>1. /\ pc \in {"guard", "fill", "commit", "failed", "down"}
        /\ stage \in 1..7 /\ row \in 0..RowCount
        /\ pc \in {"fill", "commit"} => stage <= 6
    BY StageFacts DEF LoadInv, TypeOK, Running, Pending
  <2>2. /\ StageSteps \in Nat /\ StageSteps = RowCount + 3 /\ RowCount \in Nat
        /\ StagesAhead(stage) \in 0..(6 * StageSteps)
        /\ stage <= 6 => StagesAhead(stage) >= StageSteps
    BY <2>1, StagesAheadFacts
  <2>3. 6 * StageSteps + 1 \in Nat
    BY <2>2
  <2> QED BY <2>1, <2>2, <2>3 DEF StartStepsLeft
<1>2. LoadInv /\ LoadInv' /\ [Next]_vars =>
        [StartStepsLeft' < StartStepsLeft \/ \E forced \in BOOLEAN : Start(forced)]_vars
  <2> SUFFICES ASSUME LoadInv, LoadInv', Next, vars' # vars,
                      ~\E forced \in BOOLEAN : Start(forced)
               PROVE  StartStepsLeft' < StartStepsLeft
    OBVIOUS
  <2>s. /\ stage \in 1..7 /\ row \in 0..RowCount /\ Len(stages) = 6
        /\ pc \in {"fill", "commit"} => stage <= 6
    BY StageFacts DEF LoadInv, TypeOK, Pending
  <2>t. /\ stage \in 1..7 /\ row \in 0..RowCount /\ RowCount \in Nat
        /\ StageSteps = RowCount + 3 /\ Len(stages) = 6
        /\ StagesAhead(stage) \in Nat
        /\ StagesAhead(stage + 1) = StagesAhead(stage) - StageSteps
        /\ stage <= 6 => StagesAhead(stage) >= StageSteps
        /\ pc \in {"fill", "commit"} => stage <= 6
    <3>1. /\ RowCount \in Nat /\ StageSteps = RowCount + 3 /\ StageSteps \in Nat
          /\ StagesAhead(stage) \in 0..(6 * StageSteps)
          /\ StagesAhead(stage + 1) = StagesAhead(stage) - StageSteps
          /\ stage <= 6 => StagesAhead(stage) >= StageSteps
      BY <2>s, StagesAheadFacts
    <3> QED BY <2>s, <3>1
  <2>a. /\ stage' = stage => StagesAhead(stage)' = StagesAhead(stage)
        /\ stage' = stage + 1 => StagesAhead(stage)' = StagesAhead(stage) - StageSteps
    BY <2>t DEF StagesAhead, StageSteps
  <2>1. CASE Guard
    BY <2>1, <2>t, <2>a DEF Guard, StartStepsLeft
  <2>2. CASE InsertRow
    BY <2>2, <2>t, <2>a DEF InsertRow, StartStepsLeft
  <2>3. CASE BatchDone
    BY <2>3, <2>t, <2>a DEF BatchDone, StartStepsLeft
  <2>4. CASE FoldStaged
    BY <2>4, <2>t, <2>a DEF FoldStaged, StartStepsLeft
  <2>5. CASE Commit
    BY <2>5, <2>t, <2>a DEF Commit, StartStepsLeft
  <2>6. CASE ServerError \/ CommitFails \/ ClientError
    BY <2>6, <2>t DEF ServerError, CommitFails, ClientError, StartStepsLeft
  <2>7. CASE ReturnFailure \/ ReturnSuccess \/ Crash
    BY <2>7, <2>t DEF ReturnFailure, ReturnSuccess, Crash, Running, StartStepsLeft
  <2> QED BY <2>1, <2>2, <2>3, <2>4, <2>5, <2>6, <2>7 DEF Next, Over
<1> QED
  BY <1>1, <1>2, LoadSafe, PTL DEF Spec
=============================================================================
