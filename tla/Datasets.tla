----------------------------- MODULE Datasets -------------------------------
(***************************************************************************)
(* The dataset tools (load_prices and those named dataset_ in              *)
(* service/tools.py) at work on the registries of several runs             *)
(* (service/datasets.py).  A run has one registry and one tool call at a   *)
(* time; what the runs share is the default executor of asyncio, whose     *)
(* threads fit the ARIMA forecasts and which nobody can stop.              *)
(*                                                                         *)
(* A frame is what the tools' conditions look at: its number of rows and,  *)
(* per column, whether it is numeric and how many of its leading values    *)
(* are null (the gap that LAG and rolling leave).                          *)
(***************************************************************************)
EXTENDS Integers, Sequences, FiniteSets

CONSTANTS
    Runs,           \* the runs the service is serving
    Workers,        \* threads of the default executor
    MaxToolCalls,   \* bound: dataset tool calls of one run
    RowCounts,      \* what a price query may return
    MaxRows,        \* AGENT_DATASET_MAX_ROWS, as documented
    HeadRows,       \* AGENT_DATASET_HEAD_ROWS
    HeadRowsParses, \* whether that setting is a number at all
    SampleMax,      \* AGENT_DATASET_SAMPLE_MAX
    MinPairs,       \* 3: fewer pairs have no correlation
    MinHistory,     \* 30: fewer values are not fitted
    Windows,        \* the windows the model asks for
    SampleSizes,    \* the sample sizes it asks for
    Ops             \* the rolling operations it asks for

ASSUME DatasetsAssumption ==
    /\ Workers \in Nat \ {0}
    /\ MaxToolCalls \in Nat
    /\ RowCounts \subseteq Nat
    /\ HeadRows \in Int /\ HeadRowsParses \in BOOLEAN
    /\ SampleMax \in Int
    /\ MinPairs \in Nat \ {0} /\ MinHistory \in Nat \ {0}
    /\ Windows \subseteq Int /\ SampleSizes \subseteq Int

VARIABLES
    frames,   \* DatasetRegistry._frames of each run: handle -> frame
    counter,  \* DatasetRegistry._counter
    at,       \* where the run is: idle, fetching, fitting, stopping (awaiting
              \* the end of a tool that was cancelled) or ended
    calls,    \* the tool calls it has made
    target,   \* handle and column the current call is about
    reply,    \* what the last call to end gave the agent
    queue,    \* fits submitted to the executor, oldest first
    running   \* fits a thread is working on

registry == <<frames, counter>>
executor == <<queue, running>>
vars == <<registry, at, calls, target, reply, executor>>

AtMost(n, max) == IF n < max THEN n ELSE max
AtLeast(n, min) == IF n > min THEN n ELSE min

-----------------------------------------------------------------------------
(* Frames *)

Close  == <<"close">>
Return == <<"daily_return">>
Date   == <<"date">>

\* The first row has no previous close: its return is null, and a column of
\* nothing but nulls has no numeric type.
LoadedFrame(n) ==
    [rows |-> n,
     columns |-> [c \in {Date, Close, Return} |->
        [numeric |-> c = Close \/ (c = Return /\ n > 1),
         gap     |-> IF c = Return THEN 1 ELSE 0]]]

Numeric(f, c) == c \in DOMAIN f.columns /\ f.columns[c].numeric

\* len(df[c].dropna())
Values(f, c) == f.rows - f.columns[c].gap

\* len(df[[a, b]].dropna())
Pairs(f, a, b) == f.rows - AtLeast(f.columns[a].gap, f.columns[b].gap)

\* Mutant: the gap of a window longer than the frame runs past its end.
RolledPastTheEnd(f, c, op, w) ==
    LET new == c \o <<op, w>>
    IN  [f EXCEPT !.columns = [d \in DOMAIN f.columns \cup {new} |->
            IF d = new
            THEN [numeric |-> TRUE, gap |-> f.columns[c].gap + w - 1]
            ELSE f.columns[d]]]

\* A copy with one column more: a window with a null in it, or one that
\* reaches back past the first row, gives null.
Rolled(f, c, op, w) ==
    LET new == c \o <<op, w>>
    IN  [f EXCEPT !.columns = [d \in DOMAIN f.columns \cup {new} |->
            IF d = new
            THEN [numeric |-> TRUE,
                  gap |-> AtMost(f.columns[c].gap + w - 1, f.rows)]
            ELSE f.columns[d]]]

-----------------------------------------------------------------------------
(* Replies.  size is the number of values the answer was computed from,    *)
(* shown the number of raw rows in it.                                     *)

Answer(kind, h, size, shown) ==
    [kind |-> kind, handle |-> h, size |-> size, shown |-> shown]

Error == Answer("error", 0, 0, 0)

\* len(df.head(HeadRows)): a negative number leaves out rows at the end.
HeadOf(f) == IF HeadRows >= 0 THEN AtMost(HeadRows, f.rows)
             ELSE AtLeast(f.rows + HeadRows, 0)

\* DatasetRegistry.describe of a frame just put: it raises, and dispatch
\* makes an error of it, if the setting is not a number.
Envelope(f, h) ==
    IF HeadRowsParses THEN Answer("frame", h, f.rows, HeadOf(f)) ELSE Error

\* dataset_describe
DescribeReply(r, h) ==
    IF h \in DOMAIN frames[r] THEN Answer("stats", h, frames[r][h].rows, 0)
    ELSE Error

\* Mutant: n is not capped.
SampleReplyUncapped(r, h, n) ==
    IF h \in DOMAIN frames[r]
    THEN LET f == frames[r][h]
         IN  Answer("sample", h, f.rows, AtMost(AtLeast(n, 1), f.rows))
    ELSE Error

\* dataset_sample: n is capped first and raised to 1 then.
SampleReply(r, h, n) ==
    IF h \in DOMAIN frames[r]
    THEN LET f == frames[r][h]
         IN  Answer("sample", h, f.rows,
                    AtMost(AtLeast(AtMost(n, SampleMax), 1), f.rows))
    ELSE Error

\* dataset_correlation
CorrelationReply(r, h, a, b) ==
    IF /\ h \in DOMAIN frames[r]
       /\ Numeric(frames[r][h], a) /\ Numeric(frames[r][h], b)
       /\ Pairs(frames[r][h], a, b) >= MinPairs
    THEN Answer("r", h, Pairs(frames[r][h], a, b), 0)
    ELSE Error

-----------------------------------------------------------------------------
NoTarget == [handle |-> 0, column |-> <<>>]

Init ==
    /\ frames = [r \in Runs |-> <<>>]
    /\ counter = [r \in Runs |-> 0]
    /\ at = [r \in Runs |-> "idle"]
    /\ calls = [r \in Runs |-> 0]
    /\ target = [r \in Runs |-> NoTarget]
    /\ reply = [r \in Runs |-> Error]
    /\ queue = <<>>
    /\ running = {}

\* Run r calls a tool on column c of handle h.
Calls(r, h, c) ==
    /\ at[r] = "idle" /\ calls[r] < MaxToolCalls
    /\ calls' = [calls EXCEPT ![r] = @ + 1]
    /\ target' = [target EXCEPT ![r] = [handle |-> h, column |-> c]]

Replies(r, answer) == reply' = [reply EXCEPT ![r] = answer]

\* put, then describe.
Stores(r, f) ==
    LET new == counter[r] + 1
    IN  /\ counter' = [counter EXCEPT ![r] = new]
        /\ frames' = [frames EXCEPT ![r] =
              [h \in DOMAIN @ \cup {new} |-> IF h = new THEN f ELSE @[h]]]
        /\ Replies(r, Envelope(f, new))

\* load_prices parses its dates and asks the database.
LoadPrices(r) ==
    /\ Calls(r, 0, <<>>)
    /\ \/ at' = [at EXCEPT ![r] = "fetching"] /\ UNCHANGED reply
       \/ Replies(r, Error) /\ UNCHANGED at          \* a bad date
    /\ UNCHANGED <<registry, executor>>

\* The query returns n rows, or raises.
FetchEnds(r) ==
    /\ at[r] = "fetching"
    /\ \/ \E n \in RowCounts \ {0} : Stores(r, LoadedFrame(n))
       \/ Replies(r, Error) /\ UNCHANGED registry
    /\ at' = [at EXCEPT ![r] = "idle"]
    /\ UNCHANGED <<calls, target, executor>>

\* The names the agent may use: those of the frame, and one that it has not.
Columns(r, h) ==
    {<<"volume">>} \cup
    (IF h \in DOMAIN frames[r] THEN DOMAIN frames[r][h].columns ELSE {})

Handles == 1..(MaxToolCalls + 1)

\* The tools that read a frame do so without an await.
ReadTool(r) ==
    /\ \E h \in Handles :
         /\ Calls(r, h, <<>>)
         /\ \/ Replies(r, DescribeReply(r, h))
            \/ \E n \in SampleSizes : Replies(r, SampleReply(r, h, n))
            \/ \E a, b \in Columns(r, h) : Replies(r, CorrelationReply(r, h, a, b))
            \/ Replies(r, Error)  \* describe raises; a bad n, an unknown sort_by
    /\ UNCHANGED <<registry, at, executor>>

\* Mutant: the new column is added to the frame itself.
DatasetRollingInPlace(r) ==
    /\ \E h \in Handles : \E c \in Columns(r, h), op \in Ops, w \in Windows :
         /\ Calls(r, h, c)
         /\ IF h \in DOMAIN frames[r] /\ Numeric(frames[r][h], c)
            THEN LET f == Rolled(frames[r][h], c, op, AtLeast(w, 2))
                 IN  /\ frames' = [frames EXCEPT ![r][h] = f]
                     /\ Replies(r, Envelope(f, h))
                     /\ UNCHANGED counter
            ELSE Replies(r, Error) /\ UNCHANGED registry
    /\ UNCHANGED <<at, executor>>

DatasetRolling(r) ==
    /\ \E h \in Handles : \E c \in Columns(r, h), op \in Ops, w \in Windows :
         /\ Calls(r, h, c)
         /\ IF h \in DOMAIN frames[r] /\ Numeric(frames[r][h], c)
            THEN Stores(r, Rolled(frames[r][h], c, op, AtLeast(w, 2)))
            ELSE Replies(r, Error) /\ UNCHANGED registry
    /\ UNCHANGED <<at, executor>>

\* dataset_arima takes the series out of the frame and submits the fit.
DatasetArima(r) ==
    /\ \E h \in Handles : \E c \in Columns(r, h) :
         /\ Calls(r, h, c)
         /\ IF /\ h \in DOMAIN frames[r] /\ Numeric(frames[r][h], c)
               /\ Values(frames[r][h], c) >= MinHistory
            THEN /\ queue' = Append(queue,
                       [run |-> r, call |-> calls[r] + 1, handle |-> h,
                        points |-> Values(frames[r][h], c)])
                 /\ at' = [at EXCEPT ![r] = "fitting"]
                 /\ UNCHANGED reply
            ELSE Replies(r, Error) /\ UNCHANGED <<queue, at>>
    /\ UNCHANGED <<registry, running>>

\* The call that submitted the fit is still waiting for it: a timeout or a
\* cancellation of the call cancels the future as well.
Awaited(fit) == at[fit.run] = "fitting" /\ calls[fit.run] = fit.call

\* A free thread takes the oldest fit, and drops it if it was cancelled.
FitStarts ==
    /\ queue # <<>> /\ Cardinality(running) < Workers
    /\ queue' = Tail(queue)
    /\ running' = IF Awaited(Head(queue)) THEN running \cup {Head(queue)}
                  ELSE running
    /\ UNCHANGED <<registry, at, calls, target, reply>>

\* Mutant: the result goes to whatever fit the run is waiting for.
FitEndsForAnyCall(fit) ==
    /\ running' = running \ {fit}
    /\ IF at[fit.run] = "fitting"
       THEN /\ Replies(fit.run, Answer("forecast", fit.handle, fit.points, 0))
            /\ at' = [at EXCEPT ![fit.run] = "idle"]
       ELSE UNCHANGED <<reply, at>>
    /\ UNCHANGED <<registry, calls, target, queue>>

\* The thread is done, with a forecast or an exception: the call that waits
\* for it gets it; the result of an abandoned fit is dropped.
FitEnds(fit) ==
    /\ running' = running \ {fit}
    /\ IF Awaited(fit)
       THEN /\ \/ Replies(fit.run, Answer("forecast", fit.handle, fit.points, 0))
               \/ Replies(fit.run, Error)
            /\ at' = [at EXCEPT ![fit.run] = "idle"]
       ELSE UNCHANGED <<reply, at>>
    /\ UNCHANGED <<registry, calls, target, queue>>

\* wait_for cancels the tool, after 30 seconds or because the run itself is
\* cancelled, and awaits its end: the query is cancelled with it, but a thread
\* that has begun the fit goes on.
ToolCancelled(r) ==
    /\ at[r] \in {"fetching", "fitting"}
    /\ at' = [at EXCEPT ![r] = "stopping"]
    /\ UNCHANGED <<registry, calls, target, reply, executor>>

\* The tool has ended, its connection given back, and had only run out of time.
ToolStops(r) ==
    /\ at[r] = "stopping"
    /\ at' = [at EXCEPT ![r] = "idle"]
    /\ Replies(r, Error)
    /\ UNCHANGED <<registry, calls, target, executor>>

\* Mutant: a run that is cancelled in the middle of a tool keeps its frames.
RunEndsKeepingFrames(r) ==
    /\ at[r] \in {"idle", "stopping"}
    /\ at' = [at EXCEPT ![r] = "ended"]
    /\ frames' = IF at[r] = "idle" THEN [frames EXCEPT ![r] = <<>>] ELSE frames
    /\ UNCHANGED <<counter, calls, target, reply, executor>>

\* The run ends between two tools, or when the tool it was cancelled in does (or
\* before that, if it is cancelled twice); loop.py's finally clears its registry.
RunEnds(r) ==
    /\ at[r] \in {"idle", "stopping"}
    /\ at' = [at EXCEPT ![r] = "ended"]
    /\ frames' = [frames EXCEPT ![r] = <<>>]
    /\ UNCHANGED <<counter, calls, target, reply, executor>>

ToolCall(r) == LoadPrices(r) \/ ReadTool(r) \/ DatasetRolling(r) \/ DatasetArima(r)

\* Every run has ended and the executor is out of work.
AllEnded == /\ \A r \in Runs : at[r] = "ended"
            /\ queue = <<>> /\ running = {}
            /\ UNCHANGED vars

Next ==
    \/ \E r \in Runs : \/ ToolCall(r) \/ FetchEnds(r)
                       \/ ToolCancelled(r) \/ ToolStops(r) \/ RunEnds(r)
    \/ FitStarts
    \/ \E fit \in running : FitEnds(fit)
    \/ AllEnded

Spec == Init /\ [][Next]_vars

-----------------------------------------------------------------------------
(* What is true of every run's datasets *)

Frame(f) ==
    /\ f.rows \in Nat \ {0}
    /\ \A c \in DOMAIN f.columns :
         /\ f.columns[c].numeric \in BOOLEAN
         /\ f.columns[c].gap \in 0..f.rows

Fit == [run: Runs, call: Nat, handle: Nat, points: Nat]

\* The types of the variables; a column never has more nulls than rows, and a
\* reply tells of no more rows than there are.
TypeOK ==
    /\ counter \in [Runs -> Nat]
    /\ at \in [Runs -> {"idle", "fetching", "fitting", "stopping", "ended"}]
    /\ calls \in [Runs -> 0..MaxToolCalls]
    /\ \A r \in Runs :
         /\ target[r].handle \in 0..(MaxToolCalls + 1)
         /\ reply[r].kind \in {"error", "frame", "stats", "sample", "r", "forecast"}
         /\ reply[r].handle \in 0..counter[r]
         /\ reply[r].size \in Nat
         /\ reply[r].shown \in 0..reply[r].size
    /\ \A r \in Runs :
         /\ DOMAIN frames[r] \subseteq 1..counter[r]
         /\ \A h \in DOMAIN frames[r] : Frame(frames[r][h])
    /\ queue \in Seq(Fit)
    /\ running \subseteq Fit

\* What a handle stands for never changes while the run goes on: a derived
\* dataset is a new one, and no call of another run reaches it.
HandlesAreStable ==
    [][\A r \in Runs : at'[r] # "ended" =>
         \A h \in DOMAIN frames[r] :
            h \in DOMAIN frames'[r] /\ frames'[r][h] = frames[r][h]]_vars

\* datasets.py: "The agent never receives bulk rows".  Whatever a tool replies
\* holds no more rows than its setting allows.  (A negative HEAD_ROWS, which
\* nothing refuses, shows all but a few rows; the property says so.)
NoBulkRows ==
    HeadRows >= 0 =>
        \A r \in Runs : reply[r].shown <= AtLeast(AtLeast(SampleMax, 1), HeadRows)

\* A reply is about a frame the run holds, and a forecast is about the column
\* the agent asked for last, however many fits were abandoned before.
RepliesAreGrounded ==
    \A r \in Runs : at[r] # "ended" /\ reply[r].kind # "error" =>
        LET h == reply[r].handle
        IN  /\ h \in DOMAIN frames[r]
            /\ reply[r].size <= frames[r][h].rows
            /\ reply[r].kind = "forecast" /\ at[r] = "idle" /\ target[r].column # <<>> =>
                 /\ h = target[r].handle
                 /\ reply[r].size = Values(frames[r][h], target[r].column)
                 /\ reply[r].size >= MinHistory

Store(r) == INSTANCE DatasetStore
                WITH held <- DOMAIN frames[r], issued <- counter[r],
                     open <- at[r] # "ended"

\* The registry keeps its promise to every run: handles are fresh, stay good
\* and end with the run.
ImplementsStore ==
    /\ \A r \in Runs : Store(r)!Init
    /\ [][\A r \in Runs : [Store(r)!Next]_(Store(r)!storeVars)]_vars

-----------------------------------------------------------------------------
(* What the documentation says and the code does not do *)

\* DECISIONS.md: "Loaders apply a generous RAM row cap".
RowCapHolds ==
    \A r \in Runs : \A h \in DOMAIN frames[r] : frames[r][h].rows <= MaxRows

\* loop.py tells the model that a tool that timed out "was cancelled".
TimedOutMeansCancelled == \A fit \in running : Awaited(fit)
=============================================================================
