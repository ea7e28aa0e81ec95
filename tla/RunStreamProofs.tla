--------------------------- MODULE RunStreamProofs --------------------------
(***************************************************************************)
(* The safety of RunStream, for every configuration of the run it owns:    *)
(* what the client was sent, what its exit status says, and that no run is *)
(* left behind.                                                            *)
(***************************************************************************)
EXTENDS RunStream, AgentLoopProofs

\* The lines sent are the events taken, then at most one terminal line, and
\* that only after the run has ended and its queue is empty.
Lines ==
    /\ Len(sent) \in {taken, taken + 1}
    /\ \A i \in 1..taken : sent[i] = events[i]
    /\ gen \in {"new", "check", "get", "take", "yield", "refused"} => Len(sent) = taken
    /\ gen = "last" => Len(sent) = taken + 1
    /\ Len(sent) = taken + 1 =>
         /\ pc = "done" /\ taken = Len(events)
         /\ outcome # "cancelled"
         /\ sent[taken + 1] = IF outcome = "failed" THEN ErrorLine ELSE ResultLine

\* A stream that ends before its terminal line has lost its client, and only
\* then is a run cancelled.  A finished response has ended its run.
CutShort ==
    /\ cancel # "none" => Disconnected
    /\ outcome = "cancelled" => Disconnected
    /\ gen \in {"closing", "closed"} /\ ~Disconnected => Len(sent) = taken + 1
    /\ gen = "closed" => pc = "done"
    /\ pc = "done" => outcome # "none"

\* What the client knows while it reads, and afterwards.
Reader ==
    /\ client = "reading" => exit = -1 /\ \A i \in 1..read : sent[i] # ErrorLine
    /\ ExitStatusIsHonest

StreamInv == BudgetInv /\ StreamTypeOK /\ Lines /\ CutShort /\ Reader

\* Cancelling a run disturbs nothing the loop's invariant speaks of.
LEMMA CancelKeepsBudget ==
    ASSUME BudgetInv, CancelRun
    PROVE  BudgetInv'
<1>1. TypeInv'
  BY DEF BudgetInv, CancelRun, TypeInv, TypeOK, Control, progress, chat,
         dataset, traces, ToolResult, Event
<1>2. QED
  BY <1>1 DEF BudgetInv, CancelRun, progress, chat, dataset

\* A step of the run: events are only appended, and a run ends cancelled only
\* if somebody cancelled it.
LEMMA LoopStepFacts ==
    ASSUME TypeInv, LoopStep
    PROVE  /\ pc # "done" /\ outcome = "none"
           /\ \/ events' = events
              \/ \E e \in Event : events' = Append(events, e)
           /\ cancel' # "none" => cancel # "none"
           /\ outcome' = "cancelled" => cancel # "none"
           /\ pc' = "done" => outcome' # "none"
<1>0. outcome = "none" \/ pc = "done"
  BY DEF TypeInv, TypeOK, Control, Suspended
<1> DEFINE Facts == /\ pc # "done" /\ outcome = "none"
                    /\ \/ events' = events
                       \/ \E e \in Event : events' = Append(events, e)
                    /\ cancel' # "none" => cancel # "none"
                    /\ outcome' = "cancelled" => cancel # "none"
                    /\ pc' = "done" => outcome' # "none"
<1>1. CASE Start
  BY <1>0, <1>1 DEF Start
<1>2. CASE BeginRound
  BY <1>0, <1>2 DEF BeginRound
<1>3. ASSUME NEW n \in 0..MaxCalls, NEW thinks \in Thinking,
             NEW weight \in ReplyWeights, NEW tokens \in InputTokens,
             NEW text \in ReplyTexts, ModelReplies(n, thinks, weight, tokens, text)
      PROVE  Facts
  <2>1. LLMEvent(n) \in Event
    BY <1>3, LoopAssumption DEF LLMEvent, Event, TypeInv, TypeOK
  <2>2. QED
    BY <1>0, <1>3, <2>1 DEF ModelReplies, Finish
<1>4. CASE ModelFails
  BY <1>0, <1>4 DEF ModelFails, Finish
<1>5. ASSUME NEW how \in ToolOutcomes, NEW weight \in ResultWeights,
             ToolReturns(how, weight)
      PROVE  Facts
  BY <1>0, <1>5 DEF ToolReturns
<1>6. CASE ToolResumes
  BY <1>0, <1>6 DEF ToolResumes
<1>7. CASE ToolTimesOut \/ CancelsTool \/ ToolStops
  BY <1>0, <1>7 DEF ToolTimesOut, CancelsTool, ToolStops, Finish
<1>8. CASE TraceEnds
  <2>1. ToolEvent \in Event
    BY LoopAssumption DEF ToolEvent, Event, TypeInv, TypeOK
  <2>2. QED
    BY <1>0, <1>8, <2>1 DEF TraceEnds, TraceWritten, TraceFails, ServeNext
<1>9. CASE BeginSynthesis
  BY <1>0, <1>9 DEF BeginSynthesis
<1>10. ASSUME NEW tokens \in InputTokens, SynthesisReplies(tokens)
       PROVE  Facts
  <2>1. LLMEvent(0) \in Event
    BY LoopAssumption DEF LLMEvent, Event, TypeInv, TypeOK
  <2>2. QED
    BY <1>0, <1>10, <2>1 DEF SynthesisReplies, Finish
<1>11. CASE Cancelled
  BY <1>0, <1>11 DEF Cancelled, Finish, Suspended
<1>12. CASE Advance
  BY <1>1, <1>2, <1>6, <1>7, <1>9, <1>11, <1>12 DEF Advance
<1>13. CASE ModelEnds
  BY <1>3, <1>4, <1>10, <1>13 DEF ModelEnds
<1>14. CASE ToolEnds
  BY <1>5, <1>14 DEF ToolEnds
<1> QED
  BY <1>7, <1>8, <1>12, <1>13, <1>14 DEF LoopStep

\* Before the response is iterated nothing was sent.
LEMMA StreamInitInv == StreamInit => StreamInv
<1>1. Init => BudgetInv
  BY BudgetInit
<1>2. QED
  BY <1>1 DEF StreamInit, Init, StreamInv, StreamTypeOK, Lines, CutShort, Reader,
              ExitStatusIsHonest

\* The events taken are events of the run, not terminal lines.
LEMMA TakenLines ==
    ASSUME StreamInv
    PROVE  /\ taken \in Nat /\ taken <= Len(events) /\ Len(events) \in Nat
           /\ Len(sent) \in Nat
           /\ \A i \in 1..taken : sent[i] # ResultLine /\ sent[i] # ErrorLine
<1>1. events \in Seq(Event) /\ taken \in 0..Len(events)
  BY DEF StreamInv, BudgetInv, TypeInv, TypeOK, StreamTypeOK
<1>2. \A i \in 1..taken : sent[i] \in Event
  BY <1>1 DEF StreamInv, Lines
<1>3. ResultLine \notin Event /\ ErrorLine \notin Event
  BY DEF ResultLine, ErrorLine, Event
<1>4. Len(sent) \in Nat
  BY DEF StreamInv, StreamTypeOK
<1>5. QED
  BY <1>1, <1>2, <1>3, <1>4

\* A client that has read the result has read all there is, and knows how the
\* run ended; one that has read neither result nor error knows it has not.
LEMMA ResultMeans ==
    ASSUME StreamInv
    PROVE  /\ ResultRead => /\ pc = "done" /\ read = Len(events) + 1
                            /\ outcome \in {"answered", "capped"}
           /\ ~ResultRead /\ (\A i \in 1..read : sent[i] # ErrorLine) =>
                read <= Len(events)
<1>1. /\ taken \in Nat /\ taken <= Len(events) /\ Len(events) \in Nat
      /\ \A i \in 1..taken : sent[i] # ResultLine
      /\ read \in 0..Len(sent) /\ Len(sent) \in {taken, taken + 1}
  BY TakenLines DEF StreamInv, StreamTypeOK, Lines
<1>2. Len(sent) = taken + 1 =>
         /\ pc = "done" /\ taken = Len(events) /\ outcome # "cancelled"
         /\ sent[taken + 1] = IF outcome = "failed" THEN ErrorLine ELSE ResultLine
  BY DEF StreamInv, Lines
<1>3. ASSUME ResultRead
      PROVE  /\ pc = "done" /\ read = Len(events) + 1
             /\ outcome \in {"answered", "capped"}
  <2>1. read = taken + 1 /\ Len(sent) = taken + 1 /\ sent[taken + 1] = ResultLine
    BY <1>1, <1>3 DEF ResultRead
  <2>2. outcome # "failed"
    BY <1>2, <2>1 DEF ResultLine, ErrorLine
  <2>3. outcome \in {"answered", "capped"}
    BY <1>2, <2>1, <2>2 DEF StreamInv, BudgetInv, TypeInv, TypeOK, CutShort
  <2> QED BY <1>2, <2>1, <2>3
<1>4. ASSUME ~ResultRead, \A i \in 1..read : sent[i] # ErrorLine
      PROVE  read <= Len(events)
  <2>1. read # taken + 1
    <3> SUFFICES ASSUME read = taken + 1
                 PROVE  FALSE
      OBVIOUS
    <3>1. Len(sent) = taken + 1 /\ taken + 1 \in 1..read
      BY <1>1
    <3> QED BY <1>2, <1>4, <3>1 DEF ResultRead
  <2> QED BY <1>1, <2>1
<1> QED BY <1>3, <1>4

\* LoopHead, which ends three of the generator's steps, keeps the invariant.
LEMMA LoopHeadKeeps ==
    ASSUME StreamInv, gen \in {"new", "get", "yield"}, LoopHead,
           UNCHANGED <<vars, reader>>
    PROVE  StreamInv'
<1>0. /\ StreamTypeOK /\ Lines /\ CutShort /\ Reader
      /\ UNCHANGED <<pc, outcome, events, cancel, client, read, exit>>
  BY DEF StreamInv, vars, reader
<1>1. BudgetInv'
  BY BudgetNext DEF StreamInv
<1>2. Len(sent) = taken /\ taken \in Nat /\ read \in 0..Len(sent)
  BY <1>0, TakenLines DEF Lines, StreamTypeOK
<1>3. \/ /\ gen' \in {"check", "closing"} /\ sent' = sent /\ taken' = taken
         /\ gen' = "closing" => outcome = "cancelled"
      \/ /\ gen' = "last" /\ taken' = taken
         /\ pc = "done" /\ taken = Len(events) /\ outcome # "cancelled"
         /\ sent' = Append(sent, IF outcome = "failed" THEN ErrorLine ELSE ResultLine)
  BY DEF LoopHead, RunDone, QueueEmpty
<1>4. CASE gen' \in {"check", "closing"}
  <2>1. sent' = sent /\ taken' = taken /\ (gen' = "closing" => outcome = "cancelled")
    BY <1>3, <1>4
  <2>2. StreamTypeOK'
    BY <1>0, <1>4, <2>1 DEF StreamTypeOK
  <2>3. Lines' /\ CutShort' /\ Reader'
    BY <1>0, <1>2, <1>4, <2>1
       DEF Lines, CutShort, Disconnected, Reader, ExitStatusIsHonest, ResultRead
  <2>4. QED
    BY <1>1, <2>2, <2>3 DEF StreamInv
<1>5. CASE gen' = "last"
  <2> DEFINE line == IF outcome = "failed" THEN ErrorLine ELSE ResultLine
  <2> DEFINE Line == [type : {"llm_call", "tool_call", "result", "error"},
                      turn : Nat, k : Nat]
  <2>1. /\ sent' = Append(sent, line) /\ taken' = taken
        /\ pc = "done" /\ taken = Len(events) /\ outcome # "cancelled"
    BY <1>3, <1>5
  <2>2. line \in Line /\ sent \in Seq(Line)
    BY <1>0 DEF ErrorLine, ResultLine, StreamTypeOK
  <2> HIDE DEF line, Line
  <2>3. /\ sent' \in Seq(Line) /\ Len(sent') = Len(sent) + 1
        /\ \A i \in 1..Len(sent) : sent'[i] = sent[i]
        /\ sent'[Len(sent) + 1] = line
    BY <2>1, <2>2
  <2>4. StreamTypeOK'
    BY <1>0, <1>2, <1>5, <2>1, <2>3 DEF StreamTypeOK, Line
  <2>5. Lines'
    BY <1>0, <1>2, <1>5, <2>1, <2>3 DEF Lines, line, ErrorLine, ResultLine
  <2>6. CutShort' /\ Reader'
    BY <1>0, <1>2, <1>5, <2>1, <2>3
       DEF CutShort, Disconnected, Reader, ExitStatusIsHonest, ResultRead
  <2>7. QED
    BY <1>1, <2>4, <2>5, <2>6 DEF StreamInv
<1>6. QED
  BY <1>3, <1>4, <1>5

\* Leaving the loop for the finally clause because the client is gone.
LEMMA LeavingKeeps ==
    ASSUME StreamInv, Disconnected, gen' = "closing", CancelRun,
           UNCHANGED <<taken, sent, reader>>
    PROVE  StreamInv'
<1>0. /\ StreamTypeOK /\ Lines /\ CutShort /\ Reader
      /\ UNCHANGED <<pc, outcome, events, client, read, exit>>
  BY DEF StreamInv, CancelRun, reader
<1>1. BudgetInv'
  BY CancelKeepsBudget DEF StreamInv
<1>2. StreamTypeOK' /\ Lines' /\ CutShort' /\ Reader'
  BY <1>0 DEF StreamTypeOK, Lines, CutShort, Disconnected, Reader,
              ExitStatusIsHonest, ResultRead
<1>3. QED
  BY <1>1, <1>2 DEF StreamInv

\* Every step of run, generator and client keeps the invariant.
LEMMA StreamNextInv == StreamInv /\ [StreamNext]_streamVars => StreamInv'
<1> SUFFICES ASSUME StreamInv, [StreamNext]_streamVars PROVE StreamInv'
  OBVIOUS
<1>0. BudgetInv /\ StreamTypeOK /\ Lines /\ CutShort /\ Reader
  BY DEF StreamInv
<1>b. UNCHANGED vars => BudgetInv'
  BY <1>0, BudgetNext
<1>t. /\ taken \in Nat /\ taken <= Len(events) /\ Len(events) \in Nat
      /\ Len(sent) \in Nat /\ events \in Seq(Event)
      /\ \A i \in 1..taken : sent[i] # ResultLine /\ sent[i] # ErrorLine
  BY <1>0, TakenLines DEF BudgetInv, TypeInv, TypeOK
<1>1. CASE RunStep(LoopStep)
  <2>1. LoopStep /\ UNCHANGED <<gen, taken, sent, client, read, exit>>
    BY <1>1 DEF RunStep, stream, reader
  <2>2. BudgetInv'
    BY <1>0, <2>1, BudgetNext DEF Next
  <2>3. /\ pc # "done" /\ outcome = "none"
        /\ \/ events' = events
           \/ \E e \in Event : events' = Append(events, e)
        /\ cancel' # "none" => cancel # "none"
        /\ outcome' = "cancelled" => cancel # "none"
        /\ pc' = "done" => outcome' # "none"
    BY <1>0, <2>1, LoopStepFacts DEF BudgetInv
  <2>4. /\ Len(events') \in Nat /\ Len(events') >= Len(events)
        /\ \A i \in 1..Len(events) : events'[i] = events[i]
    BY <1>t, <2>3
  <2>5. StreamTypeOK'
    BY <1>0, <1>t, <2>1, <2>4 DEF StreamTypeOK
  <2>6. Lines'
    BY <1>0, <1>t, <2>1, <2>3, <2>4 DEF Lines
  <2>7. CutShort'
    BY <1>0, <2>1, <2>3 DEF CutShort, Disconnected, Lines
  <2>8. Reader'
    BY <1>0, <1>t, <2>1, <2>3, <2>4, ResultMeans
       DEF Reader, ExitStatusIsHonest, ResultRead, StreamTypeOK
  <2>9. QED
    BY <2>2, <2>5, <2>6, <2>7, <2>8 DEF StreamInv
<1>2. CASE Open
  BY <1>2, LoopHeadKeeps DEF Open
<1>3. CASE StillConnected
  <2>1. StreamTypeOK' /\ Lines' /\ CutShort' /\ Reader'
    BY <1>0, <1>3 DEF StillConnected, vars, reader, StreamTypeOK, Lines, CutShort,
                      Disconnected, QueueEmpty, Reader, ExitStatusIsHonest, ResultRead
  <2>2. QED
    BY <1>3, <1>b, <2>1 DEF StillConnected, StreamInv
<1>4. CASE SeesDisconnect
  BY <1>4, LeavingKeeps DEF SeesDisconnect
<1>5. CASE GetsEvent
  <2> DEFINE line == events[taken + 1]
  <2> DEFINE Line == [type : {"llm_call", "tool_call", "result", "error"},
                      turn : Nat, k : Nat]
  <2>1. /\ gen \in {"get", "take"} /\ gen' = "yield" /\ taken' = taken + 1
        /\ sent' = Append(sent, line) /\ taken + 1 <= Len(events)
        /\ UNCHANGED <<pc, outcome, events, cancel, client, read, exit>>
    BY <1>5, <1>t DEF GetsEvent, QueueEmpty, vars, reader
  <2>2. line \in Line /\ sent \in Seq(Line) /\ Len(sent) = taken
    <3>1. line \in Event
      BY <1>t, <2>1
    <3>2. Event \subseteq Line
      BY DEF Event
    <3>3. QED
      BY <1>0, <2>1, <3>1, <3>2 DEF StreamTypeOK, Lines
  <2> HIDE DEF line, Line
  <2>3. /\ sent' \in Seq(Line) /\ Len(sent') = taken + 1
        /\ \A i \in 1..taken : sent'[i] = sent[i]
        /\ sent'[taken + 1] = line
    BY <1>t, <2>1, <2>2
  <2>4. StreamTypeOK'
    BY <1>0, <1>t, <2>1, <2>2, <2>3 DEF StreamTypeOK, Line
  <2>5. Lines'
    BY <1>0, <1>t, <2>1, <2>3 DEF Lines, line
  <2>6. CutShort' /\ Reader'
    BY <1>0, <1>t, <2>1, <2>2, <2>3
       DEF CutShort, Disconnected, Reader, ExitStatusIsHonest, ResultRead, StreamTypeOK
  <2>7. QED
    BY <1>5, <1>b, <2>4, <2>5, <2>6 DEF GetsEvent, StreamInv
<1>6. CASE GetTimesOut
  BY <1>6, LoopHeadKeeps DEF GetTimesOut
<1>7. CASE YieldResumes
  BY <1>7, LoopHeadKeeps DEF YieldResumes
<1>8. CASE LastResumes
  <2>1. StreamTypeOK' /\ Lines' /\ CutShort' /\ Reader'
    BY <1>0, <1>8 DEF LastResumes, vars, reader, StreamTypeOK, Lines, CutShort,
                      Disconnected, QueueEmpty, Reader, ExitStatusIsHonest, ResultRead
  <2>2. QED
    BY <1>8, <1>b, <2>1 DEF LastResumes, StreamInv
<1>9. CASE ResponseCancelled
  BY <1>9, LeavingKeeps DEF ResponseCancelled
<1>10. CASE CancelAgain
  BY <1>10, LeavingKeeps DEF CancelAgain, stream
<1>11. CASE Close
  <2>1. StreamTypeOK' /\ Lines' /\ CutShort' /\ Reader'
    BY <1>0, <1>11 DEF Close, RunDone, vars, reader, StreamTypeOK, Lines, CutShort,
                       Disconnected, Reader, ExitStatusIsHonest, ResultRead
  <2>2. QED
    BY <1>11, <1>b, <2>1 DEF Close, StreamInv
<1>12. CASE ReadsLine
  <2>1. /\ client = "reading" /\ read < Len(sent) /\ read' = read + 1
        /\ \/ sent[read + 1] = ErrorLine /\ client' = "gone" /\ exit' = 2
           \/ sent[read + 1] # ErrorLine /\ client' = client /\ exit' = exit
        /\ UNCHANGED <<pc, outcome, events, cancel, gen, taken, sent>>
    BY <1>12 DEF ReadsLine, vars, stream
  <2>2. read \in Nat /\ Len(sent) \in {taken, taken + 1} /\ exit = -1
    BY <1>0, <1>t, <2>1 DEF StreamTypeOK, Lines, Reader
  <2>3. StreamTypeOK' /\ Lines'
    BY <1>0, <1>t, <2>1, <2>2 DEF StreamTypeOK, Lines
  <2>4. CutShort'
    BY <1>0, <2>1 DEF CutShort, Disconnected
  <2>5. Reader'
    <3>1. CASE sent[read + 1] = ErrorLine
      <4>1. read + 1 = taken + 1 /\ Len(sent) = taken + 1
        BY <1>t, <2>1, <2>2, <3>1
      <4>2. outcome = "failed" /\ taken = Len(events)
        BY <1>0, <3>1, <4>1 DEF Lines, ErrorLine, ResultLine
      <4>3. QED
        BY <2>1, <3>1, <4>1, <4>2 DEF Reader, ExitStatusIsHonest
    <3>2. CASE sent[read + 1] # ErrorLine
      BY <1>0, <2>1, <2>2, <3>2 DEF Reader, ExitStatusIsHonest
    <3>3. QED
      BY <3>1, <3>2
  <2>6. QED
    BY <1>12, <1>b, <2>3, <2>4, <2>5 DEF ReadsLine, StreamInv
<1>13. CASE ReadsEnd
  <2>1. StreamTypeOK' /\ Lines' /\ CutShort'
    BY <1>0, <1>13 DEF ReadsEnd, vars, stream, StreamTypeOK, Lines, CutShort,
                       Disconnected
  <2>2. Reader'
    <3>1. /\ client = "reading" /\ gen = "closed" /\ read = Len(sent)
          /\ client' = "finished" /\ exit' \in {0, 2}
          /\ exit' = 0 => \E i \in 1..read : sent[i] = ResultLine
          /\ exit' = 2 => ~\E i \in 1..read : sent[i] = ResultLine
          /\ UNCHANGED <<outcome, events, read>>
      BY <1>13 DEF ReadsEnd, ResultRead, vars, stream
    <3>2. Len(sent) = taken + 1 /\ sent[taken + 1] # ErrorLine
      BY <1>0, <1>t, <3>1 DEF CutShort, Disconnected, Reader
    <3>3. /\ pc = "done" /\ taken = Len(events) /\ outcome \notin {"cancelled", "failed"}
          /\ sent[taken + 1] = ResultLine
      BY <1>0, <3>2 DEF Lines
    <3>4. outcome \in {"answered", "capped"}
      BY <1>0, <3>3 DEF BudgetInv, TypeInv, TypeOK, CutShort
    <3>5. exit' = 0
      BY <1>t, <3>1, <3>2, <3>3
    <3>6. QED
      BY <3>1, <3>2, <3>3, <3>4, <3>5 DEF Reader, ExitStatusIsHonest
  <2>3. QED
    BY <1>13, <1>b, <2>1, <2>2 DEF ReadsEnd, StreamInv
<1>14. CASE Interrupt
  <2>1. StreamTypeOK' /\ Lines' /\ CutShort' /\ Reader'
    BY <1>0, <1>14 DEF Interrupt, vars, stream, StreamTypeOK, Lines, CutShort,
                       Disconnected, Reader, ExitStatusIsHonest
  <2>2. QED
    BY <1>14, <1>b, <2>1 DEF Interrupt, StreamInv
<1>16. CASE RequestRefused
  <2>1. /\ client = "reading" /\ gen = "new" /\ gen' = "refused"
        /\ client' = "cut" /\ exit' = 2
        /\ UNCHANGED <<pc, outcome, events, cancel, taken, sent, read>>
    BY <1>16 DEF RequestRefused, vars
  <2>2. read <= taken /\ Len(sent) = taken
    BY <1>0, <1>t, <2>1 DEF StreamTypeOK, Lines
  <2>3. StreamTypeOK' /\ Lines' /\ CutShort'
    BY <1>0, <2>1 DEF StreamTypeOK, Lines, CutShort, Disconnected
  <2>4. Reader'
    BY <1>0, <1>t, <2>1, <2>2
       DEF Reader, ExitStatusIsHonest, ResultRead, StreamTypeOK
  <2>5. QED
    BY <1>16, <1>b, <2>3, <2>4 DEF RequestRefused, StreamInv
<1>17. CASE ConnectionLost
  <2>1. /\ client = "reading" /\ client' = "cut"
        /\ exit' \in {0, 1, 2} /\ (exit' = 0 => ResultRead)
        /\ exit' = 2 => ~ResultRead
        /\ UNCHANGED <<pc, outcome, events, cancel, gen, taken, sent, read>>
    BY <1>17 DEF ConnectionLost, vars, stream
  <2>2. StreamTypeOK' /\ Lines' /\ CutShort'
    BY <1>0, <2>1 DEF StreamTypeOK, Lines, CutShort, Disconnected
  <2>3. ResultRead' <=> ResultRead
    BY <2>1 DEF ResultRead
  <2>4. Reader'
    BY <1>0, <2>1, <2>3, ResultMeans DEF Reader, ExitStatusIsHonest
  <2>5. QED
    BY <1>17, <1>b, <2>2, <2>4 DEF ConnectionLost, StreamInv
<1>15. CASE UNCHANGED streamVars
  <2>1. StreamTypeOK' /\ Lines' /\ CutShort' /\ Reader'
    BY <1>0, <1>15 DEF streamVars, stream, reader, vars, StreamTypeOK, Lines,
                       CutShort, Disconnected, Reader, ExitStatusIsHonest, ResultRead
  <2>2. QED
    BY <1>15, <1>b, <2>1 DEF streamVars, StreamInv
<1> QED
  BY <1>1, <1>2, <1>3, <1>4, <1>5, <1>6, <1>7, <1>8, <1>9, <1>10, <1>11, <1>12,
     <1>13, <1>14, <1>15, <1>16, <1>17 DEF StreamNext, GeneratorSteps, ClientReads, AllEnded

\* The invariant holds in every state of handler, run and client.
LEMMA StreamSafe == StreamSpec => []StreamInv
BY StreamInitInv, StreamNextInv, PTL DEF StreamSpec

\* Types and ranges of the handler and the client.
THEOREM StreamTypeCorrect == StreamSpec => []StreamTypeOK
<1>1. StreamInv => StreamTypeOK
  BY DEF StreamInv
<1>2. QED
  BY <1>1, StreamSafe, PTL

\* A finished response has left no run and no dataset behind.
THEOREM NoRunIsLeftBehind == StreamSpec => []NoRunOutlivesItsStream
<1>1. StreamInv => NoRunOutlivesItsStream
  BY DEF StreamInv, BudgetInv, CutShort, NoRunOutlivesItsStream
<1>2. QED
  BY <1>1, StreamSafe, PTL

\* The client exits with 0 only after it has read every event of a run with an
\* answer, over any connection.  With 2 it has read every event of a failed run
\* and why it failed, or it has not read a result: the request was refused or the
\* connection cut (agent.py, _stream_run and _fail).
THEOREM ExitStatusTellsTheOutcome == StreamSpec => []ExitStatusIsHonest
<1>1. StreamInv => ExitStatusIsHonest
  BY DEF StreamInv, Reader
<1>2. QED
  BY <1>1, StreamSafe, PTL

-----------------------------------------------------------------------------
(* The contract *)

\* A step of the run, as the contract sees it: a step, a failure, an abort, or
\* nothing.
LEMMA LoopStepKinds ==
    ASSUME TypeInv, LoopStep
    PROVE  \/ events' = events /\ outcome' = outcome
           \/ (\E e \in Event : events' = Append(events, e))
              /\ outcome' \in {"none", "answered", "capped"}
           \/ events' = events /\ outcome' = "failed"
           \/ events' = events /\ outcome' = "cancelled"
<1>0. outcome = "none" \/ pc = "done"
  BY DEF TypeInv, TypeOK, Control, Suspended
<1> DEFINE Kinds == \/ events' = events /\ outcome' = outcome
                    \/ (\E e \in Event : events' = Append(events, e))
                       /\ outcome' \in {"none", "answered", "capped"}
                    \/ events' = events /\ outcome' = "failed"
                    \/ events' = events /\ outcome' = "cancelled"
<1> SUFFICES Kinds
  OBVIOUS
<1>1. ASSUME NEW n \in 0..MaxCalls, NEW thinks \in Thinking,
             NEW weight \in ReplyWeights, NEW tokens \in InputTokens,
             NEW text \in ReplyTexts, ModelReplies(n, thinks, weight, tokens, text)
      PROVE  Kinds
  <2>1. LLMEvent(n) \in Event
    BY <1>1, LoopAssumption DEF LLMEvent, Event, TypeInv, TypeOK
  <2>2. QED
    BY <1>0, <1>1, <2>1 DEF ModelReplies, Finish
<1>2. CASE ModelFails
  BY <1>2 DEF ModelFails, Finish
<1>3. ASSUME NEW how \in ToolOutcomes, NEW weight \in ResultWeights,
             ToolReturns(how, weight)
      PROVE  Kinds
  BY <1>3 DEF ToolReturns
<1>4. CASE ToolTimesOut \/ ToolStops
  BY <1>0, <1>4 DEF ToolTimesOut, ToolStops, Finish
<1>5. CASE TraceEnds
  <2>1. ToolEvent \in Event
    BY LoopAssumption DEF ToolEvent, Event, TypeInv, TypeOK
  <2>2. QED
    BY <1>0, <1>5, <2>1 DEF TraceEnds, TraceWritten, TraceFails, ServeNext
<1>6. ASSUME NEW tokens \in InputTokens, SynthesisReplies(tokens)
      PROVE  Kinds
  <2>1. LLMEvent(0) \in Event
    BY LoopAssumption DEF LLMEvent, Event, TypeInv, TypeOK
  <2>2. QED
    BY <1>0, <1>6, <2>1 DEF SynthesisReplies, Finish
<1>7. CASE Advance
  BY <1>7 DEF Advance, Start, BeginRound, BeginSynthesis, ToolResumes, CancelsTool,
               Cancelled, Finish
<1>8. QED
  BY <1>1, <1>2, <1>3, <1>4, <1>5, <1>6, <1>7 DEF LoopStep, ModelEnds, ToolEnds

\* What the contract's variables stand for in a step that shows the client
\* nothing new.
LEMMA ContractStutters ==
    ASSUME UNCHANGED <<events, sent, outcome>>, Disconnected' = Disconnected
    PROVE  UNCHANGED Contract!contractVars
BY DEF Contract!contractVars

\* Between two looks at the client the generator may say how the run ended.
LEMMA LoopHeadConcludes ==
    ASSUME StreamInv, gen \in {"new", "get", "yield"}, LoopHead,
           UNCHANGED <<vars, reader>>
    PROVE  [Contract!Next]_(Contract!contractVars)
<1>0. /\ StreamTypeOK /\ Lines /\ CutShort
      /\ UNCHANGED <<pc, outcome, events, client>>
  BY DEF StreamInv, vars, reader
<1>1. CASE sent' = sent
  BY <1>0, <1>1, ContractStutters DEF Disconnected
<1>2. CASE sent' # sent
  <2> DEFINE line == IF outcome = "failed" THEN ErrorLine ELSE ResultLine
  <2> DEFINE Line == [type : {"llm_call", "tool_call", "result", "error"},
                      turn : Nat, k : Nat]
  <2>1. /\ pc = "done" /\ taken = Len(events) /\ outcome # "cancelled"
        /\ sent' = Append(sent, line)
    BY <1>2 DEF LoopHead, RunDone, QueueEmpty
  <2>2. /\ Len(sent) = taken /\ sent \in Seq(Line) /\ line \in Line
        /\ line.type = IF outcome = "failed" THEN "error" ELSE "result"
    BY <1>0 DEF Lines, StreamTypeOK, ErrorLine, ResultLine
  <2>3. outcome \in {"answered", "capped", "failed"}
    BY <1>0, <2>1 DEF CutShort, StreamInv, BudgetInv, TypeInv, TypeOK
  <2>4. sent # <<>> => sent[Len(sent)].type \notin {"result", "error"}
    <3>1. events \in Seq(Event) /\ \A i \in 1..taken : sent[i] = events[i]
      BY <1>0 DEF StreamInv, BudgetInv, TypeInv, TypeOK, Lines
    <3>2. \A i \in 1..taken : sent[i] \in Event
      BY <2>1, <3>1
    <3>3. sent # <<>> => Len(sent) \in 1..taken
      BY <2>2
    <3>4. QED
      BY <3>2, <3>3 DEF Event
  <2> HIDE DEF line, Line
  <2>5. /\ Len(sent') = Len(sent) + 1
        /\ SubSeq(sent', 1, Len(sent)) = sent
        /\ sent'[Len(sent')] = line
    BY <2>1, <2>2
  <2>6. Contract!Conclude
    BY <1>0, <2>1, <2>2, <2>3, <2>4, <2>5
       DEF Contract!Conclude, Contract!Concluded, Contract!Terminals, Disconnected
  <2>7. QED
    BY <2>6 DEF Contract!Next
<1>3. QED
  BY <1>1, <1>2

\* The handler starts where the contract starts.
LEMMA ContractInit == StreamInit => Contract!Init
BY DEF StreamInit, Init, Disconnected, Contract!Init

\* Every step of run, generator and client is a step of the contract, or none.
LEMMA ContractNext ==
    StreamInv /\ [StreamNext]_streamVars => [Contract!Next]_(Contract!contractVars)
<1> SUFFICES ASSUME StreamInv, [StreamNext]_streamVars
             PROVE  [Contract!Next]_(Contract!contractVars)
  OBVIOUS
<1>0. BudgetInv /\ StreamTypeOK /\ Lines /\ CutShort /\ Reader
  BY DEF StreamInv
<1>1. CASE RunStep(LoopStep)
  <2>1. LoopStep /\ UNCHANGED <<sent, client>> /\ Disconnected' = Disconnected
    BY <1>1 DEF RunStep, stream, reader, Disconnected
  <2>2. /\ outcome = "none" /\ events \in Seq(Event)
        /\ outcome' = "cancelled" => Disconnected
    BY <1>0, <2>1, LoopStepFacts DEF BudgetInv, TypeInv, TypeOK, CutShort
  <2>3. CASE events' = events /\ outcome' = outcome
    BY <2>1, <2>3, ContractStutters
  <2>4. CASE /\ \E e \in Event : events' = Append(events, e)
             /\ outcome' \in {"none", "answered", "capped"}
    <3>1. Len(events') = Len(events) + 1 /\ SubSeq(events', 1, Len(events)) = events
      BY <2>2, <2>4
    <3>2. QED
      BY <2>1, <2>2, <2>4, <3>1 DEF Contract!Next, Contract!Step
  <2>5. CASE events' = events /\ outcome' = "failed"
    BY <2>1, <2>2, <2>5 DEF Contract!Next, Contract!Fail
  <2>6. CASE events' = events /\ outcome' = "cancelled"
    BY <2>1, <2>2, <2>6 DEF Contract!Next, Contract!Abort
  <2>7. QED
    BY <1>0, <2>1, <2>3, <2>4, <2>5, <2>6, LoopStepKinds DEF BudgetInv
<1>2. CASE Open
  BY <1>2, LoopHeadConcludes DEF Open
<1>3. CASE StillConnected \/ LastResumes \/ Close
  BY <1>3, ContractStutters DEF StillConnected, LastResumes, Close, vars, reader,
                               Disconnected
<1>4. CASE SeesDisconnect \/ ResponseCancelled \/ CancelAgain
  BY <1>4, ContractStutters
     DEF SeesDisconnect, ResponseCancelled, CancelAgain, CancelRun, stream, reader,
         Disconnected
<1>5. CASE GetsEvent
  <2>1. /\ Len(sent) = taken /\ taken < Len(events)
        /\ sent' = Append(sent, events[taken + 1])
        /\ UNCHANGED <<events, outcome, Disconnected>>
    <3>1. taken \in 0..Len(events) /\ Len(events) \in Nat
      BY <1>0, TakenLines DEF StreamTypeOK
    <3>2. QED
      BY <1>0, <1>5, <3>1 DEF GetsEvent, QueueEmpty, Lines, vars, reader, Disconnected
  <2>2. QED
    BY <2>1 DEF Contract!Next, Contract!Deliver
<1>6. CASE GetTimesOut \/ YieldResumes
  BY <1>6, LoopHeadConcludes DEF GetTimesOut, YieldResumes
<1>7. CASE ReadsLine \/ Interrupt \/ RequestRefused \/ ConnectionLost
  <2>1. /\ client = "reading" /\ client' \in {"reading", "gone", "cut"}
        /\ UNCHANGED <<events, outcome, sent>>
    BY <1>7 DEF ReadsLine, Interrupt, RequestRefused, ConnectionLost, vars, stream
  <2>2. CASE client' = "reading"
    BY <2>1, <2>2, ContractStutters DEF Disconnected
  <2>3. CASE client' \in {"gone", "cut"}
    BY <2>1, <2>3 DEF Contract!Next, Contract!Leave, Disconnected
  <2>4. QED
    BY <2>1, <2>2, <2>3
<1>8. CASE ReadsEnd
  BY <1>8, ContractStutters DEF ReadsEnd, vars, stream, Disconnected
<1>9. CASE UNCHANGED streamVars
  BY <1>9, ContractStutters DEF streamVars, vars, stream, reader, Disconnected
<1>10. QED
  BY <1>1, <1>2, <1>3, <1>4, <1>5, <1>6, <1>7, <1>8, <1>9
     DEF StreamNext, GeneratorSteps, ClientReads, AllEnded

\* The streaming handler implements its contract, whatever the run it owns and
\* whenever the client leaves.
THEOREM StreamImplementsContract == StreamSpec => ImplementsContract
<1>1. StreamSpec => Contract!Init /\ [][Contract!Next]_(Contract!contractVars)
  BY ContractInit, ContractNext, StreamSafe, PTL DEF StreamSpec
<1>2. QED
  BY <1>1 DEF ImplementsContract, Contract!Spec

-----------------------------------------------------------------------------
(* A streamed run *)

\* What every run keeps by itself.  A streamed run takes the steps of AgentLoop
\* but is cancelled by its handler, and may be again after a cancellation was
\* lost or while it waits for a tool to stop: Next allows neither, so the invariant has to survive both.
RunInv ==
    BudgetInv /\ BlockInv /\ RecordedInv /\ RememberInv

\* For its run, whatever handler and client do is one of the run's own steps,
\* a cancellation that finds it at an await, or nothing.
LEMMA StreamStepsItsRun ==
    [StreamNext]_streamVars => [Next]_vars \/ (CancelRun /\ pc # "round")
BY DEF Suspended, StreamNext, streamVars, RunStep, Next, GeneratorSteps, Open, StillConnected,
       SeesDisconnect, GetsEvent, GetTimesOut, YieldResumes, LastResumes, Close,
       ResponseCancelled, CancelAgain, ClientReads, ReadsLine, ReadsEnd, Interrupt,
       RequestRefused, ConnectionLost, AllEnded

\* A run that was not entered yet satisfies all of it.
LEMMA RunInvInit == Init => RunInv
BY BudgetInit, BlockInit, RecordedInit, RememberInit DEF RunInv

\* A cancellation, the first or another, changes nothing but the request.
LEMMA CancelKeepsRun ==
    ASSUME RunInv, CancelRun
    PROVE  RunInv'
<1>1. /\ UNCHANGED <<pc, outcome, turn, requested, call, result, messages, cumInput>>
      /\ UNCHANGED <<compactions, modelCalls, counter, frames, rows, unlogged, events>>
  BY DEF CancelRun, progress, chat, dataset, traces
<1>2. BudgetInv' /\ TypeInv'
  BY CancelKeepsBudget DEF RunInv, BudgetInv
<1>3. PairInv'
  BY <1>1, <1>2, SameMessages DEF RunInv, BlockInv
<1>4. BlockInv'
  BY <1>1, <1>3, SameShape DEF RunInv
<1>5. StoryInv'
  BY <1>1, <1>2 DEF RunInv, RecordedInv, StoryInv, TraceMatchesEvents, Announced,
                    Behind
<1>6. TranscriptInv'
  BY <1>1, <1>2, SameEvents DEF RunInv, RecordedInv
<1>9. RecordedInv'
  BY <1>1, <1>5, <1>6 DEF RunInv, RecordedInv, EventTurns, NoToolUnrecorded
<1>7. LiveInv'
  BY <1>1, <1>2, SameNames DEF RunInv, RememberInv
<1>8. RememberInv'
  BY <1>1, <1>7, SameMemory DEF RunInv
<1> QED BY <1>2, <1>4, <1>8, <1>9 DEF RunInv

\* Every step of run, generator and client keeps it.
LEMMA RunInvNext == RunInv /\ [StreamNext]_streamVars => RunInv'
<1>1. RunInv /\ [Next]_vars => RunInv'
  BY BudgetNext, BlockNext, RecordedNext, RememberNext DEF RunInv
<1> QED BY <1>1, StreamStepsItsRun, CancelKeepsRun

\* Everything that is proved of a run by itself is true of the run that a
\* handler owns: pairs, requests, handles, traces and transcript survive a
\* client that leaves at any await, and a cancellation that comes twice.
THEOREM StreamedRunsAreRuns ==
    StreamSpec => [](/\ Paired /\ RequestWellFormed /\ FreshResultsReachTheModel
                     /\ OrphanBackstopUnreachable /\ OneCompactionRemembers
                     /\ HandlesAreLive /\ BudgetBound /\ RegistryClearedAtEnd
                     /\ TranscriptInOrder /\ TraceMatchesEvents
                     /\ NoToolUnrecorded)
<1>1. StreamInit => RunInv
  BY RunInvInit DEF StreamInit
<1>2. RunInv => /\ Paired /\ FreshResultsReachTheModel
                /\ TraceMatchesEvents /\ NoToolUnrecorded
  BY DEF RunInv, RecordedInv, BlockInv, PairInv, PairedIn, Paired, StoryInv
<1>3. RunInv => BudgetBound /\ RegistryClearedAtEnd
  BY BudgetPositive DEF RunInv, BudgetInv, BudgetBound, RegistryClearedAtEnd,
                        TypeInv, TypeOK, Control, Suspended
<1>4. RunInv => /\ RequestWellFormed /\ OrphanBackstopUnreachable
                /\ OneCompactionRemembers /\ HandlesAreLive /\ TranscriptInOrder
  BY BlocksFit, NothingIsOrphaned, MemoryFits, NamesFit, OrderFits
     DEF RunInv, RecordedInv, BudgetInv, RememberInv
<1> QED
  BY <1>1, <1>2, <1>3, <1>4, RunInvNext, PTL DEF StreamSpec

\* To its registry a streamed run is a run like any other.
THEOREM StreamKeepsItsHandles == StreamSpec => ImplementsStore
<1>1. StreamInit => Store!Init
  BY DEF StreamInit, Init, Store!Init
<1>2. [StreamNext]_streamVars => [Store!Next]_(Store!storeVars)
  <2>1. CancelRun => UNCHANGED Store!storeVars
    BY DEF CancelRun, dataset, Store!storeVars
  <2> QED BY <2>1, StreamStepsItsRun, StoreStep
<1> QED
  BY <1>1, <1>2, PTL DEF StreamSpec, ImplementsStore, Store!Spec

\* A run that is streamed asks for no connection, and makes no model call, that
\* its outline does not have: the pool's argument covers POST /run/stream too.
THEOREM StreamFollowsTheOutline == StreamSpec => ImplementsOutline
<1>1. StreamInit => Outline!Init
  BY DEF StreamInit, Init, Outlined, Outline!Init, Outline!NewRun, Outline!At
<1>2. StreamInv /\ [StreamNext]_streamVars => [Outline!Next]_Outlined
  <2>1. CancelRun => UNCHANGED Outlined
    BY DEF CancelRun, progress, chat, Outlined
  <2> QED BY <2>1, StreamStepsItsRun, OutlineStep DEF StreamInv
<1> QED
  BY <1>1, <1>2, StreamSafe, PTL DEF StreamSpec, ImplementsOutline, Outline!Spec

\* The steps a streamed run has left: a cancellation may come once more for each
\* step that loses one or passes one on to a tool.
StreamedStepsLeft ==
    2 * StepsLeft + (IF cancel \in {"lost", "raised"} THEN 1 ELSE 0)

\* Neither a handler that polls, nor a client that leaves, nor a cancellation
\* repeated as often as it is lost keeps a run going: whenever something
\* happens to it, it has fewer steps left.
THEOREM StreamedRunIsBounded ==
    StreamSpec => /\ [](StreamedStepsLeft \in Nat)
                  /\ [][StreamedStepsLeft' < StreamedStepsLeft]_vars
<1>1. StreamInv => StepsLeft \in Nat /\ StreamedStepsLeft \in Nat
  <2>1. StreamInv => StepsLeft \in Nat
    BY StepsLeftType DEF StreamInv, BudgetInv
  <2> QED BY <2>1 DEF StreamedStepsLeft
<1>2. StreamInv /\ StreamInv' /\ [StreamNext]_streamVars =>
        [StreamedStepsLeft' < StreamedStepsLeft]_vars
  <2> SUFFICES ASSUME StreamInv, StreamInv', [StreamNext]_streamVars, vars' # vars
               PROVE  StreamedStepsLeft' < StreamedStepsLeft
    OBVIOUS
  <2>1. StepsLeft \in Nat /\ StepsLeft' \in Nat
    <3>1. (StreamInv => StepsLeft \in Nat)'
      BY <1>1, PTL
    <3> QED BY <1>1, <3>1
  <2>2. CASE CancelRun
    <3>1. UNCHANGED <<pc, turn, requested, call>>
      BY <2>2 DEF CancelRun, progress
    <3>2. pc # "done" /\ cancel \in {"none", "lost", "raised"} /\ cancel' = "pending"
      BY <2>2 DEF CancelRun, RunDone, vars, StreamInv, BudgetInv, TypeInv, TypeOK
    <3>3. CancelsLeft' = 0 /\ CancelsLeft = IF cancel = "none" THEN 1 ELSE 0
      BY <3>2 DEF CancelsLeft
    <3>4. /\ LaterSteps' = LaterSteps /\ RoundSteps' = RoundSteps
          /\ LaterSteps \in Int /\ RoundSteps \in Int
          /\ 3 * (requested - call) \in Int
          /\ pc \in {"ready", "round", "llm", "tool", "woken", "stopping", "trace",
                    "synth"}
      BY <3>1, <3>2, LaterStepsType, RoundStepsType, LoopAssumption
         DEF LaterSteps, Budget, RoundSteps, StreamInv, BudgetInv, TypeInv, TypeOK,
             Suspended
    <3>5. CASE cancel = "none"
      <4>1. StepsLeft' = StepsLeft - 1
        BY <3>1, <3>3, <3>4, <3>5 DEF StepsLeft
      <4> QED BY <2>1, <3>2, <3>5, <4>1 DEF StreamedStepsLeft
    <3>6. CASE cancel \in {"lost", "raised"}
      <4>1. StepsLeft' = StepsLeft
        BY <3>1, <3>3, <3>4, <3>6 DEF StepsLeft
      <4> QED BY <2>1, <3>2, <3>6, <4>1 DEF StreamedStepsLeft
    <3> QED BY <3>2, <3>5, <3>6
  <2>3. CASE Next
    <3>1. StepsLeft' < StepsLeft
      BY <2>3, StepsLeftShrinks DEF StreamInv, BudgetInv
    <3>2. ASSUME NEW m \in Nat, NEW n \in Nat, m < n,
                 NEW i \in {0, 1}, NEW j \in {0, 1}
          PROVE  2 * m + i < 2 * n + j
      BY <3>2
    <3> QED BY <2>1, <3>1, <3>2 DEF StreamedStepsLeft
  <2> QED BY <2>2, <2>3, StreamStepsItsRun
<1> QED
  BY <1>1, <1>2, StreamSafe, PTL DEF StreamSpec

\* What agent.py --trace has printed by now is the beginning of the run's
\* transcript; when it exits with 0 it has printed all of it and then the
\* result, when it exits with 2, all of it and then the error, unless its request
\* was refused or its connection cut: then there was no result to print.
Printed ==
    /\ \A i \in 1..read : i <= Len(events) => sent[i] = events[i]
    /\ exit = 0 => read = Len(events) + 1 /\ sent[read] = ResultLine
    /\ exit = 2 /\ client # "cut" => read = Len(events) + 1 /\ sent[read] = ErrorLine
    /\ exit = 2 /\ client = "cut" => \A i \in 1..read : sent[i] = events[i]

\* End to end: the client sees each round, call and result in its place,
\* however run, queue and connection interleave, and its exit status says how
\* it ended (loop.py, on_event; main.py, run_stream; agent.py, _stream_run).
THEOREM ClientSeesTheTranscript == StreamSpec => [](TranscriptInOrder /\ Printed)
<1>1. StreamInv => Printed
  <2> SUFFICES ASSUME StreamInv
               PROVE  Printed
    OBVIOUS
  <2>1. /\ taken \in 0..Len(events) /\ read \in 0..Len(sent)
        /\ Len(events) \in Nat /\ Len(sent) \in {taken, taken + 1}
        /\ \A i \in 1..taken : sent[i] = events[i]
        /\ Len(sent) = taken + 1 =>
             /\ taken = Len(events)
             /\ sent[taken + 1] = IF outcome = "failed" THEN ErrorLine ELSE ResultLine
    BY LenProperties DEF StreamInv, StreamTypeOK, Lines, BudgetInv, TypeInv, TypeOK
  <2>2. \A i \in 1..read : i <= Len(events) => sent[i] = events[i]
    BY <2>1
  <2>3. read = Len(events) + 1 =>
          sent[read] = IF outcome = "failed" THEN ErrorLine ELSE ResultLine
    BY <2>1
  <2>4. /\ exit = 0 => outcome # "failed" /\ read = Len(events) + 1
        /\ exit = 2 /\ client # "cut" => outcome = "failed" /\ read = Len(events) + 1
        /\ exit = 2 /\ client = "cut" => read <= Len(events)
    BY DEF StreamInv, Reader, ExitStatusIsHonest
  <2>5. exit = 2 /\ client = "cut" => \A i \in 1..read : sent[i] = events[i]
    BY <2>1, <2>2, <2>4
  <2> QED BY <2>2, <2>3, <2>4, <2>5 DEF Printed
<1>2. StreamSpec => []TranscriptInOrder
  BY StreamedRunsAreRuns, PTL
<1> QED BY <1>1, <1>2, StreamSafe, PTL

-----------------------------------------------------------------------------
(* A client that leaves *)

\* A handler may also repeat a cancellation that waits for a tool to stop.
CancelsRun == CancelBites \/ (cancel = "raised" /\ CancelRun)

\* A handler that cancels, once or again, cancels a run that is suspended, and
\* cancelling a run that has ended changes nothing.
LEMMA CancelRunBites ==
    TypeInv /\ CancelInv /\ CancelRun /\ pc # "round" => CancelInv' /\ [CancelsRun]_vars
<1> SUFFICES ASSUME TypeInv, CancelInv, CancelRun, pc # "round"
             PROVE  CancelInv' /\ [CancelsRun]_vars
  OBVIOUS
<1>1. /\ UNCHANGED <<pc, outcome, progress, chat, dataset, traces, events>>
      /\ pc # "done" => outcome = "none" /\ cancel' = "pending"
      /\ pc = "done" => cancel' = cancel
  BY DEF CancelRun, RunDone, TypeInv, TypeOK, Control, Suspended
<1>2. CancelInv'
  BY <1>1 DEF CancelInv
<1>3. CASE cancel = "pending"
  BY <1>1, <1>2, <1>3 DEF vars
<1>4. CASE cancel # "pending" /\ pc # "done"
  BY <1>1, <1>2, <1>4 DEF chat, traces, CancelsRun, CancelBites
<1>5. CASE pc = "done"
  BY <1>1, <1>2, <1>5 DEF vars
<1> QED BY <1>3, <1>4, <1>5

\* "A client disconnect cancels the agent loop server-side" (DECISIONS.md), as
\* far as that is a matter of safety: once the handler has asked for it, the
\* run calls no model, says nothing and ends as soon as the tool it waits for has
\* stopped, except when that tool is done first; then the request is lost.  Either
\* way the run is cancelled only when nothing was lost.
THEOREM StreamedCancellationBites ==
    StreamSpec => []CancelInv /\ [][CancelsRun]_vars
<1>1. StreamInit => CancelInv
  BY CancelInit DEF StreamInit
<1>2. StreamInv /\ CancelInv /\ [StreamNext]_streamVars =>
        CancelInv' /\ [CancelsRun]_vars
  <2>1. StreamInv => TypeInv
    BY DEF StreamInv, BudgetInv
  <2>2. [CancelBites]_vars => [CancelsRun]_vars
    BY DEF CancelsRun
  <2> QED BY <2>1, <2>2, StreamStepsItsRun, CancelNext, CancelRunBites
<1> QED
  BY <1>1, <1>2, StreamSafe, PTL DEF StreamSpec
=============================================================================
