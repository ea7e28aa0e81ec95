--------------------------- MODULE DatasetsProofs ---------------------------
(***************************************************************************)
(* What the dataset tools keep, for any number of runs, threads and calls, *)
(* any setting of the limits, and queries that return any number of rows.  *)
(***************************************************************************)
EXTENDS Datasets, SequenceTheorems, FiniteSetTheorems, TLAPS

-----------------------------------------------------------------------------
(* Frames and replies *)

\* A frame with no fields but its own.
Framed(f) == Frame(f) /\ f = [rows |-> f.rows, columns |-> f.columns]

Kinds == {"error", "frame", "stats", "sample", "r", "forecast"}

Reply == {a \in [kind: Kinds, handle: Nat, size: Nat, shown: Nat] :
             a.shown <= a.size /\ (a.kind = "error" => a.handle = 0)}

\* The most rows that a reply may show.
Bulk == AtLeast(AtLeast(SampleMax, 1), HeadRows)

Small(answer) == HeadRows >= 0 => answer.shown <= Bulk

\* What a reply says of the frames of its run, but for a forecast.
About(answer, fs) ==
    answer.kind # "error" =>
        answer.handle \in DOMAIN fs /\ answer.size <= fs[answer.handle].rows

LEMMA LoadedIsFramed ==
  ASSUME NEW n \in Nat \ {0}
  PROVE  Framed(LoadedFrame(n))
<1> DEFINE cols == [c \in {Date, Close, Return} |->
                      [numeric |-> c = Close \/ (c = Return /\ n > 1),
                       gap     |-> IF c = Return THEN 1 ELSE 0]]
<1>1. LoadedFrame(n) = [rows |-> n, columns |-> cols]
  BY DEF LoadedFrame
<1>2. ASSUME NEW c \in DOMAIN cols
      PROVE  cols[c].numeric \in BOOLEAN /\ cols[c].gap \in 0..n
  <2>1. cols[c].numeric = (c = Close \/ (c = Return /\ n > 1))
    BY <1>2, Zenon
  <2>2. cols[c].gap = IF c = Return THEN 1 ELSE 0
    BY <1>2, Zenon
  <2> HIDE DEF cols
  <2>3. cols[c].numeric \in BOOLEAN
    BY <2>1, Zenon
  <2> QED BY <2>2, <2>3
<1> HIDE DEF cols
<1> QED BY <1>1, <1>2 DEF Framed, Frame

\* Rolling keeps the nulls of its column within the frame.
LEMMA RolledIsFramed ==
  ASSUME NEW f, Framed(f), NEW c \in DOMAIN f.columns, NEW op,
         NEW w \in Int, w >= 2
  PROVE  Framed(Rolled(f, c, op, w))
<1> DEFINE new == c \o <<op, w>>
           cols == [d \in DOMAIN f.columns \cup {new} |->
                      IF d = new
                      THEN [numeric |-> TRUE,
                            gap |-> AtMost(f.columns[c].gap + w - 1, f.rows)]
                      ELSE f.columns[d]]
<1>1. Rolled(f, c, op, w) = [rows |-> f.rows, columns |-> cols]
  <2> DEFINE a == f.rows
             b == f.columns
  <2>1. f = [rows |-> a, columns |-> b]
    BY DEF Framed
  <2>2. Rolled(f, c, op, w) = [f EXCEPT !.columns = cols]
    BY DEF Rolled
  <2> HIDE DEF a, b, cols
  <2>3. [f EXCEPT !.columns = cols] = [rows |-> a, columns |-> cols]
    BY <2>1
  <2> QED BY <2>2, <2>3 DEF a
<1>2. AtMost(f.columns[c].gap + w - 1, f.rows) \in 0..f.rows
  BY DEF AtMost, Framed, Frame
<1>3. f.rows \in Nat \ {0}
  BY DEF Framed, Frame
<1> HIDE DEF new
<1>4. ASSUME NEW d \in DOMAIN cols
      PROVE  cols[d].numeric \in BOOLEAN /\ cols[d].gap \in 0..f.rows
  BY <1>2, <1>4 DEF Framed, Frame
<1> HIDE DEF cols
<1> QED BY <1>1, <1>3, <1>4 DEF Framed, Frame

LEMMA EnvelopeFacts ==
  ASSUME NEW f, Framed(f), NEW h \in Nat
  PROVE  /\ Envelope(f, h) \in Reply
         /\ Small(Envelope(f, h))
         /\ Envelope(f, h).kind \in {"error", "frame"}
         /\ Envelope(f, h).kind = "frame" =>
              Envelope(f, h).handle = h /\ Envelope(f, h).size = f.rows
<1>1. /\ HeadOf(f) \in Nat /\ HeadOf(f) <= f.rows
      /\ HeadRows >= 0 => HeadOf(f) <= HeadRows
  BY DatasetsAssumption DEF HeadOf, AtMost, AtLeast, Framed, Frame
<1> QED
  BY <1>1, DatasetsAssumption
     DEF Envelope, Answer, Error, Reply, Kinds, Small, Bulk, AtLeast, Framed, Frame

-----------------------------------------------------------------------------
(* Types *)

\* What TypeOK says of all but target and the handles of the replies.
BaseOK ==
    /\ counter \in [Runs -> Nat]
    /\ at \in [Runs -> {"idle", "fetching", "fitting", "stopping", "ended"}]
    /\ calls \in [Runs -> 0..MaxToolCalls]
    /\ \A r \in Runs : DOMAIN frames[r] \subseteq 1..counter[r]
    /\ queue \in Seq(Fit)
    /\ running \subseteq Fit

Types ==
    /\ BaseOK
    /\ reply \in [Runs -> Reply]
    /\ target = [r \in Runs |-> target[r]]
    /\ frames = [r \in Runs |-> frames[r]]
    /\ \A r \in Runs : \A h \in DOMAIN frames[r] : Framed(frames[r][h])

\* put: a new handle, and every other frame as it was.
LEMMA StoresFacts ==
  ASSUME Types, NEW r \in Runs, NEW f, Framed(f), Stores(r, f)
  PROVE  LET new == counter[r] + 1
         IN  /\ new \in Nat /\ new \notin DOMAIN frames[r]
             /\ counter' = [counter EXCEPT ![r] = new]
             /\ frames' = [q \in Runs |-> frames'[q]]
             /\ DOMAIN frames'[r] = DOMAIN frames[r] \cup {new}
             /\ frames'[r][new] = f
             /\ \A h \in DOMAIN frames[r] : frames'[r][h] = frames[r][h]
             /\ \A q \in Runs \ {r} : frames'[q] = frames[q]
             /\ reply' = [reply EXCEPT ![r] = Envelope(f, new)]
<1> DEFINE new == counter[r] + 1
           fs == [h \in DOMAIN frames[r] \cup {new} |->
                     IF h = new THEN f ELSE frames[r][h]]
<1>1. counter \in [Runs -> Nat] /\ DOMAIN frames[r] \subseteq 1..counter[r]
      /\ frames = [q \in Runs |-> frames[q]]
  BY DEF Types, BaseOK
<1>2. new \in Nat /\ new \notin DOMAIN frames[r]
  BY <1>1
<1>3. frames' = [frames EXCEPT ![r] = fs]
  BY DEF Stores
<1> HIDE DEF fs
<1>4. frames' = [q \in Runs |-> IF q = r THEN fs ELSE frames[q]]
  BY <1>1, <1>3
<1>5. frames'[r] = fs /\ \A q \in Runs \ {r} : frames'[q] = frames[q]
  BY <1>4
<1>6. frames' = [q \in Runs |-> frames'[q]]
  BY <1>4
<1> HIDE DEF new
<1>7. /\ DOMAIN fs = DOMAIN frames[r] \cup {new} /\ fs[new] = f
      /\ \A h \in DOMAIN frames[r] : fs[h] = frames[r][h]
  BY <1>2 DEF fs
<1>8. counter' = [counter EXCEPT ![r] = new] /\ reply' = [reply EXCEPT ![r] = Envelope(f, new)]
  BY DEF Stores, Replies, new
<1> QED BY <1>2, <1>5, <1>6, <1>7, <1>8 DEF new

\* The replies of the tools that only read.
LEMMA ReadReplies ==
  ASSUME Types, NEW r \in Runs, NEW h \in Handles, NEW answer,
         \/ answer = DescribeReply(r, h)
         \/ \E n \in SampleSizes : answer = SampleReply(r, h, n)
         \/ \E a, b \in Columns(r, h) : answer = CorrelationReply(r, h, a, b)
         \/ answer = Error
  PROVE  /\ answer \in Reply /\ Small(answer) /\ About(answer, frames[r])
         /\ answer.kind # "forecast"
<1>0. h \in Nat /\ (HeadRows >= 0 => 0 <= Bulk)
  BY DatasetsAssumption DEF Handles, Bulk, AtLeast
<1>e. CASE answer = Error
  BY <1>0, <1>e DEF Error, Answer, Reply, Kinds, Small, About
<1>h. CASE answer # Error
  <2>1. h \in DOMAIN frames[r] /\ Framed(frames[r][h])
    BY <1>h DEF DescribeReply, SampleReply, CorrelationReply, Types
  <2>2. frames[r][h].rows \in Nat
    BY <2>1 DEF Framed, Frame
  <2>3. CASE answer = DescribeReply(r, h)
    BY <1>0, <2>1, <2>2, <2>3
       DEF DescribeReply, Answer, Reply, Kinds, Small, About
  <2>4. ASSUME NEW n \in SampleSizes, answer = SampleReply(r, h, n)
        PROVE  /\ answer \in Reply /\ Small(answer) /\ About(answer, frames[r])
               /\ answer.kind # "forecast"
    <3> DEFINE shown == AtMost(AtLeast(AtMost(n, SampleMax), 1), frames[r][h].rows)
    <3>1. /\ shown \in Nat /\ shown <= frames[r][h].rows
          /\ HeadRows >= 0 => shown <= Bulk
      BY <2>2, DatasetsAssumption DEF AtMost, AtLeast, Bulk
    <3>2. answer = Answer("sample", h, frames[r][h].rows, shown)
      BY <2>1, <2>4 DEF SampleReply
    <3> HIDE DEF shown
    <3> QED
      BY <1>0, <2>1, <2>2, <3>1, <3>2 DEF Answer, Reply, Kinds, Small, About
  <2>5. ASSUME NEW a \in Columns(r, h), NEW b \in Columns(r, h),
               answer = CorrelationReply(r, h, a, b)
        PROVE  /\ answer \in Reply /\ Small(answer) /\ About(answer, frames[r])
               /\ answer.kind # "forecast"
    <3> DEFINE size == Pairs(frames[r][h], a, b)
    <3>1. /\ answer = Answer("r", h, size, 0) /\ size >= MinPairs
          /\ a \in DOMAIN frames[r][h].columns /\ b \in DOMAIN frames[r][h].columns
      BY <1>h, <2>1, <2>5 DEF CorrelationReply, Numeric
    <3>2. size \in Nat /\ size <= frames[r][h].rows
      <4>1. /\ frames[r][h].rows \in Nat
            /\ frames[r][h].columns[a].gap \in 0..frames[r][h].rows
            /\ frames[r][h].columns[b].gap \in 0..frames[r][h].rows
        BY <2>1, <3>1 DEF Framed, Frame
      <4> QED BY <4>1 DEF Pairs, AtLeast
    <3> HIDE DEF size
    <3> QED
      BY <1>0, <2>1, <3>1, <3>2 DEF Answer, Reply, Kinds, Small, About
  <2> QED BY <1>h, <2>3, <2>4, <2>5
<1> QED BY <1>e, <1>h

LEMMA TypesInit == Init => Types
<1> SUFFICES ASSUME Init
             PROVE  Types
  OBVIOUS
<1>1. \A r \in Runs : frames[r] = <<>> /\ DOMAIN frames[r] = {}
  BY DEF Init
<1>2. Error \in Reply
  BY DEF Error, Answer, Reply, Kinds
<1>3. BaseOK
  BY <1>1, DatasetsAssumption DEF Init, BaseOK
<1> QED BY <1>1, <1>2, <1>3 DEF Types, Init

\* A step that leaves registry and executor alone keeps the types if the call
\* it makes or ends does.
LEMMA TypesKept ==
  ASSUME Types, UNCHANGED <<registry, executor>>,
         at' \in [Runs -> {"idle", "fetching", "fitting", "stopping", "ended"}],
         calls' \in [Runs -> 0..MaxToolCalls],
         target' = [r \in Runs |-> target'[r]],
         reply' \in [Runs -> Reply]
  PROVE  Types'
  BY DEF Types, BaseOK, registry, executor

LEMMA CallsFacts ==
  ASSUME Types, NEW r \in Runs, NEW h, NEW c, Calls(r, h, c)
  PROVE  /\ at[r] = "idle"
         /\ calls' \in [Runs -> 0..MaxToolCalls]
         /\ calls'[r] = calls[r] + 1 /\ \A q \in Runs \ {r} : calls'[q] = calls[q]
         /\ target' = [q \in Runs |-> target'[q]]
         /\ target'[r] = [handle |-> h, column |-> c]
         /\ \A q \in Runs \ {r} : target'[q] = target[q]
<1>1. /\ calls \in [Runs -> 0..MaxToolCalls] /\ calls[r] < MaxToolCalls
      /\ calls' = [calls EXCEPT ![r] = @ + 1] /\ at[r] = "idle"
  BY DEF Types, BaseOK, Calls
<1>2. calls[r] + 1 \in 0..MaxToolCalls
  BY <1>1, DatasetsAssumption
<1>3. target' = [q \in Runs |-> IF q = r THEN [handle |-> h, column |-> c]
                                ELSE target[q]]
  BY DEF Types, Calls
<1> QED BY <1>1, <1>2, <1>3

LEMMA ErrorReply ==
  /\ Error \in Reply /\ Error.kind = "error" /\ Error.shown = 0
  BY DEF Error, Answer, Reply, Kinds

\* A fit that is submitted, and what it is about.
Submitted(r, h, c) ==
    [run |-> r, call |-> calls[r] + 1, handle |-> h,
     points |-> Values(frames[r][h], c)]

\* dataset_arima and dataset_rolling called on column c of handle h.
ArimaOn(r, h, c) ==
    /\ Calls(r, h, c) /\ UNCHANGED <<registry, running>>
    /\ \/ /\ h \in DOMAIN frames[r] /\ Numeric(frames[r][h], c)
          /\ Values(frames[r][h], c) >= MinHistory
          /\ Submitted(r, h, c) \in Fit
          /\ queue' = Append(queue, Submitted(r, h, c))
          /\ at' = [at EXCEPT ![r] = "fitting"] /\ reply' = reply
       \/ /\ reply' = [reply EXCEPT ![r] = Error]
          /\ UNCHANGED <<queue, at>>

RollingOn(r, h, c) ==
    /\ Calls(r, h, c) /\ UNCHANGED <<at, executor>>
    /\ \/ \E f : Framed(f) /\ Stores(r, f)
       \/ reply' = [reply EXCEPT ![r] = Error] /\ UNCHANGED registry

ReadOn(r, h) ==
    /\ Calls(r, h, <<>>) /\ UNCHANGED <<registry, at, executor>>
    /\ \E answer \in Reply :
         /\ Small(answer) /\ About(answer, frames[r]) /\ answer.kind # "forecast"
         /\ reply' = [reply EXCEPT ![r] = answer]

LEMMA ArimaCases ==
  ASSUME Types, NEW r \in Runs, DatasetArima(r)
  PROVE  \E h, c : h \in Handles /\ ArimaOn(r, h, c)
<1>1. PICK h, c :
         /\ h \in Handles /\ Calls(r, h, c)
         /\ IF /\ h \in DOMAIN frames[r] /\ Numeric(frames[r][h], c)
               /\ Values(frames[r][h], c) >= MinHistory
            THEN /\ queue' = Append(queue, Submitted(r, h, c))
                 /\ at' = [at EXCEPT ![r] = "fitting"]
                 /\ UNCHANGED reply
            ELSE Replies(r, Error) /\ UNCHANGED <<queue, at>>
  BY Zenon DEF DatasetArima, Submitted
<1>2. UNCHANGED <<registry, running>>
  BY DEF DatasetArima
<1>3. ASSUME h \in DOMAIN frames[r], Numeric(frames[r][h], c)
      PROVE  Submitted(r, h, c) \in Fit
  <2>1. Framed(frames[r][h]) /\ c \in DOMAIN frames[r][h].columns
    BY <1>3 DEF Types, Numeric
  <2>2. Values(frames[r][h], c) \in Nat
    BY <2>1 DEF Values, Framed, Frame
  <2>3. calls[r] + 1 \in Nat /\ h \in Nat
    BY <1>1, DatasetsAssumption DEF Types, BaseOK, Handles
  <2> QED BY <2>2, <2>3 DEF Submitted, Fit
<1> QED BY <1>1, <1>2, <1>3 DEF Replies, ArimaOn

LEMMA RollingCases ==
  ASSUME Types, NEW r \in Runs, DatasetRolling(r)
  PROVE  \E h, c : h \in Handles /\ RollingOn(r, h, c)
<1>1. PICK h, c, op, w :
         /\ h \in Handles /\ w \in Windows /\ Calls(r, h, c)
         /\ IF h \in DOMAIN frames[r] /\ Numeric(frames[r][h], c)
            THEN Stores(r, Rolled(frames[r][h], c, op, AtLeast(w, 2)))
            ELSE Replies(r, Error) /\ UNCHANGED registry
  BY Zenon DEF DatasetRolling
<1>2. UNCHANGED <<at, executor>>
  BY DEF DatasetRolling
<1>3. ASSUME h \in DOMAIN frames[r], Numeric(frames[r][h], c)
      PROVE  Framed(Rolled(frames[r][h], c, op, AtLeast(w, 2)))
  <2>1. Framed(frames[r][h]) /\ c \in DOMAIN frames[r][h].columns
    BY <1>3 DEF Types, Numeric
  <2>2. AtLeast(w, 2) \in Int /\ AtLeast(w, 2) >= 2
    BY <1>1, DatasetsAssumption DEF AtLeast
  <2> QED BY <2>1, <2>2, RolledIsFramed
<1> QED BY <1>1, <1>2, <1>3 DEF Replies, RollingOn

LEMMA ReadCases ==
  ASSUME Types, NEW r \in Runs, ReadTool(r)
  PROVE  \E h \in Handles : ReadOn(r, h)
<1>1. PICK h \in Handles :
         /\ Calls(r, h, <<>>)
         /\ \E answer : /\ Replies(r, answer)
                        /\ \/ answer = DescribeReply(r, h)
                           \/ \E n \in SampleSizes : answer = SampleReply(r, h, n)
                           \/ \E a, b \in Columns(r, h) :
                                answer = CorrelationReply(r, h, a, b)
                           \/ answer = Error
  BY Zenon DEF ReadTool
<1>2. UNCHANGED <<registry, at, executor>>
  BY DEF ReadTool
<1>3. PICK answer : /\ Replies(r, answer) /\ answer \in Reply
                    /\ Small(answer) /\ About(answer, frames[r])
                    /\ answer.kind # "forecast"
  BY <1>1, ReadReplies
<1> QED BY <1>1, <1>2, <1>3 DEF Replies, ReadOn

LEMMA StoresTypes ==
  ASSUME Types, NEW r \in Runs, NEW f, Framed(f), Stores(r, f),
         UNCHANGED executor,
         at' \in [Runs -> {"idle", "fetching", "fitting", "stopping", "ended"}],
         calls' \in [Runs -> 0..MaxToolCalls],
         target' = [q \in Runs |-> target'[q]]
  PROVE  Types'
<1> DEFINE new == counter[r] + 1
<1>1. /\ counter \in [Runs -> Nat] /\ new \in Nat
      /\ counter' = [counter EXCEPT ![r] = new]
      /\ frames' = [q \in Runs |-> frames'[q]]
      /\ DOMAIN frames'[r] = DOMAIN frames[r] \cup {new}
      /\ frames'[r][new] = f
      /\ \A h \in DOMAIN frames[r] : frames'[r][h] = frames[r][h]
      /\ \A q \in Runs \ {r} : frames'[q] = frames[q]
      /\ reply' = [reply EXCEPT ![r] = Envelope(f, new)]
  BY StoresFacts DEF Types, BaseOK
<1>2. Envelope(f, new) \in Reply
  BY <1>1, EnvelopeFacts
<1>3. reply' \in [Runs -> Reply] /\ counter' \in [Runs -> Nat]
  <2> HIDE DEF new
  <2> QED BY <1>1, <1>2 DEF Types
<1>4. ASSUME NEW q \in Runs
      PROVE  /\ DOMAIN frames'[q] \subseteq 1..counter'[q]
             /\ \A h \in DOMAIN frames'[q] : Framed(frames'[q][h])
  <2>1. CASE q = r
    <3>1. DOMAIN frames[r] \subseteq 1..counter[r]
      BY DEF Types, BaseOK
    <3>2. counter'[r] = new /\ counter[r] \in Nat
      BY <1>1
    <3>3. DOMAIN frames'[r] \subseteq 1..counter'[r]
      BY <1>1, <3>1, <3>2
    <3>4. ASSUME NEW h \in DOMAIN frames'[r]
          PROVE  Framed(frames'[r][h])
      <4> HIDE DEF new
      <4>1. CASE h = new
        BY <1>1, <4>1
      <4>2. CASE h \in DOMAIN frames[r]
        BY <1>1, <4>2 DEF Types
      <4> QED BY <1>1, <4>1, <4>2
    <3> QED BY <2>1, <3>3, <3>4
  <2>2. CASE q # r
    <3>1. frames'[q] = frames[q] /\ counter'[q] = counter[q]
      BY <1>1, <2>2
    <3> QED BY <3>1 DEF Types, BaseOK
  <2> QED BY <2>1, <2>2
<1>5. \A q \in Runs : \A h \in DOMAIN frames'[q] : Frame(frames'[q][h])
  BY <1>4 DEF Framed
<1>6. queue' \in Seq(Fit) /\ running' \subseteq Fit
  BY DEF Types, BaseOK, executor
<1>7. BaseOK'
  BY <1>3, <1>4, <1>5, <1>6 DEF BaseOK
<1> QED BY <1>1, <1>3, <1>4, <1>7 DEF Types

LEMMA TypesNext == Types /\ [Next]_vars => Types'
<1> SUFFICES ASSUME Types, [Next]_vars
             PROVE  Types'
  OBVIOUS
<1>t. /\ at \in [Runs -> {"idle", "fetching", "fitting", "stopping", "ended"}]
      /\ calls \in [Runs -> 0..MaxToolCalls] /\ reply \in [Runs -> Reply]
      /\ target = [q \in Runs |-> target[q]]
      /\ queue \in Seq(Fit) /\ running \subseteq Fit
  BY DEF Types, BaseOK
<1>1. ASSUME NEW r \in Runs, LoadPrices(r)
      PROVE  Types'
  <2>1. calls' \in [Runs -> 0..MaxToolCalls] /\ target' = [q \in Runs |-> target'[q]]
    BY <1>1, CallsFacts DEF LoadPrices
  <2>2. /\ at' \in [Runs -> {"idle", "fetching", "fitting", "stopping", "ended"}]
        /\ reply' \in [Runs -> Reply]
    BY <1>1, <1>t, ErrorReply DEF LoadPrices, Replies
  <2> QED BY <1>1, <2>1, <2>2, TypesKept DEF LoadPrices
<1>2. ASSUME NEW r \in Runs, FetchEnds(r)
      PROVE  Types'
  <2>1. /\ at' \in [Runs -> {"idle", "fetching", "fitting", "stopping", "ended"}]
        /\ UNCHANGED <<calls, target, executor>>
    BY <1>2, <1>t DEF FetchEnds
  <2>2. ASSUME NEW n \in RowCounts \ {0}, Stores(r, LoadedFrame(n))
        PROVE  Types'
    <3>1. Framed(LoadedFrame(n))
      BY LoadedIsFramed, DatasetsAssumption
    <3> QED BY <1>t, <2>1, <2>2, <3>1, StoresTypes
  <2>3. CASE Replies(r, Error) /\ UNCHANGED registry
    <3>1. reply' \in [Runs -> Reply]
      BY <1>t, <2>3, ErrorReply DEF Replies
    <3> QED BY <1>t, <2>1, <2>3, <3>1, TypesKept
  <2> QED BY <1>2, <2>2, <2>3 DEF FetchEnds
<1>3. ASSUME NEW r \in Runs, ReadTool(r)
      PROVE  Types'
  <2>1. PICK h \in Handles : ReadOn(r, h)
    BY <1>3, ReadCases
  <2>2. calls' \in [Runs -> 0..MaxToolCalls] /\ target' = [q \in Runs |-> target'[q]]
    BY <2>1, CallsFacts DEF ReadOn
  <2>3. reply' \in [Runs -> Reply]
    BY <1>t, <2>1 DEF ReadOn
  <2> QED BY <1>t, <2>1, <2>2, <2>3, TypesKept DEF ReadOn
<1>4. ASSUME NEW r \in Runs, DatasetRolling(r)
      PROVE  Types'
  <2>1. PICK h, c : h \in Handles /\ RollingOn(r, h, c)
    BY <1>4, RollingCases
  <2>2. calls' \in [Runs -> 0..MaxToolCalls] /\ target' = [q \in Runs |-> target'[q]]
    BY <2>1, CallsFacts DEF RollingOn
  <2>3. ASSUME NEW f, Framed(f), Stores(r, f)
        PROVE  Types'
    BY <1>t, <2>1, <2>2, <2>3, StoresTypes DEF RollingOn
  <2>4. CASE reply' = [reply EXCEPT ![r] = Error] /\ UNCHANGED registry
    <3>1. reply' \in [Runs -> Reply]
      BY <1>t, <2>4, ErrorReply
    <3> QED BY <1>t, <2>1, <2>2, <2>4, <3>1, TypesKept DEF RollingOn
  <2> QED BY <2>1, <2>3, <2>4 DEF RollingOn
<1>5. ASSUME NEW r \in Runs, DatasetArima(r)
      PROVE  Types'
  <2>1. PICK h, c : h \in Handles /\ ArimaOn(r, h, c)
    BY <1>5, ArimaCases
  <2>2. calls' \in [Runs -> 0..MaxToolCalls] /\ target' = [q \in Runs |-> target'[q]]
    BY <2>1, CallsFacts DEF ArimaOn
  <2>3. queue' \in Seq(Fit)
    <3>1. ASSUME NEW fit \in Fit
          PROVE  Append(queue, fit) \in Seq(Fit)
      BY <1>t, AppendProperties
    <3> QED BY <1>t, <2>1, <3>1 DEF ArimaOn
  <2>4. /\ at' \in [Runs -> {"idle", "fetching", "fitting", "stopping", "ended"}]
        /\ reply' \in [Runs -> Reply]
    BY <1>t, <2>1, ErrorReply DEF ArimaOn
  <2> QED BY <2>1, <2>2, <2>3, <2>4 DEF ArimaOn, Types, BaseOK, registry
<1>6. CASE FitStarts
  <2>1. queue' \in Seq(Fit) /\ Head(queue) \in Fit
    BY <1>6, <1>t, HeadTailProperties DEF FitStarts
  <2>2. running' \subseteq Fit
    BY <1>6, <1>t, <2>1 DEF FitStarts
  <2> QED BY <1>6, <2>1, <2>2 DEF FitStarts, Types, BaseOK, registry
<1>7. ASSUME NEW fit \in running, FitEnds(fit)
      PROVE  Types'
  <2>1. fit.run \in Runs /\ fit.handle \in Nat /\ fit.points \in Nat /\ running' \subseteq Fit
    BY <1>7, <1>t DEF Fit, FitEnds
  <2>2. Answer("forecast", fit.handle, fit.points, 0) \in Reply
    BY <2>1 DEF Answer, Reply, Kinds
  <2>3. /\ at' \in [Runs -> {"idle", "fetching", "fitting", "stopping", "ended"}]
        /\ reply' \in [Runs -> Reply]
    BY <1>7, <1>t, <2>2, ErrorReply DEF FitEnds, Replies
  <2> QED BY <1>7, <2>1, <2>3 DEF FitEnds, Types, BaseOK, registry
<1>8. ASSUME NEW r \in Runs, ToolCancelled(r) \/ ToolStops(r)
      PROVE  Types'
  <2>1. /\ at' \in [Runs -> {"idle", "fetching", "fitting", "stopping", "ended"}]
        /\ reply' \in [Runs -> Reply]
    BY <1>8, <1>t, ErrorReply DEF ToolCancelled, ToolStops, Replies
  <2> QED BY <1>8, <1>t, <2>1, TypesKept DEF ToolCancelled, ToolStops
<1>9. ASSUME NEW r \in Runs, RunEnds(r)
      PROVE  Types'
  <2>1. /\ at' \in [Runs -> {"idle", "fetching", "fitting", "stopping", "ended"}]
        /\ UNCHANGED <<counter, calls, target, reply, executor>>
    BY <1>9, <1>t DEF RunEnds
  <2>2. frames' = [q \in Runs |-> IF q = r THEN <<>> ELSE frames[q]]
    BY <1>9 DEF RunEnds, Types
  <2>3. \A q \in Runs : frames'[q] = frames[q] \/ DOMAIN frames'[q] = {}
    BY <2>2
  <2>4. frames' = [q \in Runs |-> frames'[q]]
    BY <2>2
  <2> QED BY <2>1, <2>3, <2>4 DEF Types, BaseOK, executor
<1>10. CASE UNCHANGED vars
  BY <1>10, <1>t, TypesKept DEF vars
<1> QED
  BY <1>1, <1>2, <1>3, <1>4, <1>5, <1>6, <1>7, <1>8, <1>9, <1>10
     DEF Next, ToolCall, AllEnded

LEMMA TypesSafe == Spec => []Types
  BY TypesInit, TypesNext, PTL DEF Spec

-----------------------------------------------------------------------------
(* The registries *)

\* What a step may do to the registry of run r: nothing, put or clear.
Kept(r) ==
    /\ frames'[r] = frames[r] /\ counter'[r] = counter[r]
    /\ at'[r] = "ended" <=> at[r] = "ended"

PutOne(r) ==
    /\ at[r] # "ended" /\ at'[r] # "ended"
    /\ counter'[r] = counter[r] + 1
    /\ DOMAIN frames'[r] = DOMAIN frames[r] \cup {counter[r] + 1}
    /\ \A h \in DOMAIN frames[r] : frames'[r][h] = frames[r][h]

Cleared(r) ==
    /\ at[r] # "ended" /\ at'[r] = "ended"
    /\ counter'[r] = counter[r] /\ DOMAIN frames'[r] = {}

LEMMA RegistryStep ==
  ASSUME Types, [Next]_vars, NEW r \in Runs
  PROVE  Kept(r) \/ PutOne(r) \/ Cleared(r)
<1>t. /\ at \in [Runs -> {"idle", "fetching", "fitting", "stopping", "ended"}]
      /\ counter \in [Runs -> Nat] /\ running \subseteq Fit
      /\ frames = [q \in Runs |-> frames[q]]
  BY DEF Types, BaseOK
<1>p. ASSUME NEW q \in Runs, NEW f, Framed(f), Stores(q, f), at[q] # "ended",
             \A p \in Runs : at'[p] = at[p] \/ (at[p] # "ended" /\ at'[p] # "ended")
      PROVE  Kept(r) \/ PutOne(r) \/ Cleared(r)
  <2>1. /\ counter' = [counter EXCEPT ![q] = counter[q] + 1]
        /\ DOMAIN frames'[q] = DOMAIN frames[q] \cup {counter[q] + 1}
        /\ \A h \in DOMAIN frames[q] : frames'[q][h] = frames[q][h]
        /\ \A p \in Runs \ {q} : frames'[p] = frames[p]
    BY <1>p, StoresFacts
  <2>2. CASE r = q
    BY <1>t, <1>p, <2>1, <2>2 DEF PutOne
  <2>3. CASE r # q
    BY <1>t, <1>p, <2>1, <2>3 DEF Kept
  <2> QED BY <2>2, <2>3
<1>k. ASSUME UNCHANGED registry,
             \A p \in Runs : at'[p] = at[p] \/ (at[p] # "ended" /\ at'[p] # "ended")
      PROVE  Kept(r)
  BY <1>k DEF Kept, registry
<1>1. ASSUME NEW q \in Runs, LoadPrices(q)
      PROVE  Kept(r)
  BY <1>1, <1>t, <1>k DEF LoadPrices, Calls
<1>2. ASSUME NEW q \in Runs, FetchEnds(q)
      PROVE  Kept(r) \/ PutOne(r) \/ Cleared(r)
  <2>1. /\ at[q] # "ended"
        /\ \A p \in Runs : at'[p] = at[p] \/ (at[p] # "ended" /\ at'[p] # "ended")
    BY <1>2, <1>t DEF FetchEnds
  <2>2. \A n \in RowCounts \ {0} : Framed(LoadedFrame(n))
    BY LoadedIsFramed, DatasetsAssumption
  <2>3. UNCHANGED registry \/ \E f : Framed(f) /\ Stores(q, f)
    BY <1>2, <2>2 DEF FetchEnds
  <2> QED BY <1>p, <1>k, <2>1, <2>3
<1>3. ASSUME NEW q \in Runs, ReadTool(q)
      PROVE  Kept(r)
  BY <1>3, <1>k DEF ReadTool
<1>4. ASSUME NEW q \in Runs, DatasetRolling(q)
      PROVE  Kept(r) \/ PutOne(r) \/ Cleared(r)
  <2>1. PICK h, c : h \in Handles /\ RollingOn(q, h, c)
    BY <1>4, RollingCases
  <2>2. at[q] = "idle" /\ at' = at
    BY <2>1, CallsFacts DEF RollingOn
  <2>3. UNCHANGED registry \/ \E f : Framed(f) /\ Stores(q, f)
    BY <2>1 DEF RollingOn
  <2> QED BY <1>p, <1>k, <2>2, <2>3
<1>5. ASSUME NEW q \in Runs, DatasetArima(q)
      PROVE  Kept(r)
  <2>1. PICK h, c : h \in Handles /\ ArimaOn(q, h, c)
    BY <1>5, ArimaCases
  <2>2. \A p \in Runs : at'[p] = at[p] \/ (at[p] # "ended" /\ at'[p] # "ended")
    BY <1>t, <2>1, CallsFacts DEF ArimaOn
  <2> QED BY <1>k, <2>1, <2>2 DEF ArimaOn
<1>6. CASE FitStarts
  BY <1>6, <1>k DEF FitStarts
<1>7. ASSUME NEW fit \in running, FitEnds(fit)
      PROVE  Kept(r)
  <2>1. fit.run \in Runs
    BY <1>t DEF Fit
  <2>2. \A p \in Runs : at'[p] = at[p] \/ (at[p] # "ended" /\ at'[p] # "ended")
    BY <1>7, <1>t, <2>1 DEF FitEnds, Awaited
  <2> QED BY <1>7, <1>k, <2>2 DEF FitEnds
<1>8. ASSUME NEW q \in Runs, ToolCancelled(q) \/ ToolStops(q)
      PROVE  Kept(r)
  BY <1>8, <1>t, <1>k DEF ToolCancelled, ToolStops
<1>9. ASSUME NEW q \in Runs, RunEnds(q)
      PROVE  Kept(r) \/ Cleared(r)
  <2>1. frames' = [p \in Runs |-> IF p = q THEN <<>> ELSE frames[p]]
    BY <1>9, <1>t DEF RunEnds
  <2>2. at' = [at EXCEPT ![q] = "ended"] /\ at[q] # "ended" /\ counter' = counter
    BY <1>9 DEF RunEnds
  <2>3. CASE r = q
    BY <1>t, <2>1, <2>2, <2>3 DEF Cleared
  <2>4. CASE r # q
    BY <1>t, <2>1, <2>2, <2>4 DEF Kept
  <2> QED BY <2>3, <2>4
<1>10. CASE UNCHANGED vars
  BY <1>10, <1>k DEF vars
<1> QED
  BY <1>1, <1>2, <1>3, <1>4, <1>5, <1>6, <1>7, <1>8, <1>9, <1>10
     DEF Next, ToolCall, AllEnded

\* The registries of all runs keep the promise of DatasetStore: handles are
\* issued once, stay good, and end with the run (datasets.py; loop.py's finally).
THEOREM RegistriesKeepTheirPromise == Spec => ImplementsStore
<1>1. Init => \A r \in Runs : Store(r)!Init
  <2> SUFFICES ASSUME Init, NEW r \in Runs
               PROVE  Store(r)!Init
    OBVIOUS
  <2>1. frames[r] = <<>> /\ counter[r] = 0 /\ at[r] = "idle"
    BY DEF Init
  <2>2. DOMAIN frames[r] = {}
    BY <2>1
  <2> QED BY <2>1, <2>2 DEF Store!Init
<1>2. Types /\ [Next]_vars =>
        [\A r \in Runs : [Store(r)!Next]_(Store(r)!storeVars)]_vars
  <2> SUFFICES ASSUME Types, [Next]_vars, NEW r \in Runs
               PROVE  [Store(r)!Next]_(Store(r)!storeVars)
    OBVIOUS
  <2>1. CASE Kept(r)
    BY <2>1 DEF Kept, Store!storeVars
  <2>2. CASE PutOne(r)
    BY <2>2 DEF PutOne, Store!Next, Store!Put
  <2>3. CASE Cleared(r)
    BY <2>3 DEF Cleared, Store!Next, Store!Clear
  <2> QED BY <2>1, <2>2, <2>3, RegistryStep
<1> QED
  BY <1>1, <1>2, TypesSafe, PTL DEF Spec, ImplementsStore

\* As long as a run goes on, no call of it or of another run changes what a
\* handle stands for (tools.py: a derived dataset is put under a new handle).
THEOREM HandlesStandForTheirFrames == Spec => HandlesAreStable
<1> DEFINE A == \A r \in Runs : at'[r] # "ended" =>
                   \A h \in DOMAIN frames[r] :
                      h \in DOMAIN frames'[r] /\ frames'[r][h] = frames[r][h]
<1>1. Types /\ [Next]_vars => [A]_vars
  <2> SUFFICES ASSUME Types, [Next]_vars, NEW r \in Runs, at'[r] # "ended",
                      NEW h \in DOMAIN frames[r]
               PROVE  h \in DOMAIN frames'[r] /\ frames'[r][h] = frames[r][h]
    OBVIOUS
  <2> QED BY RegistryStep DEF Kept, PutOne, Cleared
<1> QED
  BY <1>1, TypesSafe, PTL DEF Spec, HandlesAreStable

-----------------------------------------------------------------------------
(* The replies *)

\* What a step may do to the reply of run r: nothing, or it is the end of a
\* call that is not a forecast, or of the fit the run waits for.
SameReply(r) ==
    /\ reply'[r] = reply[r]
    /\ at'[r] = "idle" => at[r] = "idle" /\ target'[r] = target[r]

PlainReply(r) ==
    /\ reply'[r].kind # "forecast"
    /\ Small(reply'[r]) /\ About(reply'[r], frames'[r])

ForecastReply(r) ==
    \E fit \in running :
        /\ fit.run = r /\ Awaited(fit)
        /\ reply'[r] = Answer("forecast", fit.handle, fit.points, 0)
        /\ target'[r] = target[r] /\ frames'[r] = frames[r] /\ at'[r] = "idle"

LEMMA ErrorIsPlain ==
  ASSUME NEW r \in Runs, reply'[r] = Error
  PROVE  PlainReply(r)
<1>1. HeadRows >= 0 => 0 <= Bulk
  BY DatasetsAssumption DEF Bulk, AtLeast
<1> QED BY <1>1, ErrorReply DEF PlainReply, Small, About

LEMMA StoredIsPlain ==
  ASSUME Types, NEW r \in Runs, NEW f, Framed(f), Stores(r, f)
  PROVE  PlainReply(r)
<1> DEFINE new == counter[r] + 1
<1>1. /\ new \in Nat /\ DOMAIN frames'[r] = DOMAIN frames[r] \cup {new}
      /\ frames'[r][new] = f
      /\ reply' = [reply EXCEPT ![r] = Envelope(f, new)]
  BY StoresFacts
<1>2. reply'[r] = Envelope(f, new)
  BY <1>1 DEF Types
<1> HIDE DEF new
<1>3. f.rows \in Nat
  BY DEF Framed, Frame
<1> QED BY <1>1, <1>2, <1>3, EnvelopeFacts DEF PlainReply, About

LEMMA ReplyStep ==
  ASSUME Types, [Next]_vars, NEW r \in Runs
  PROVE  SameReply(r) \/ PlainReply(r) \/ ForecastReply(r)
<1>t. /\ at \in [Runs -> {"idle", "fetching", "fitting", "stopping", "ended"}]
      /\ reply \in [Runs -> Reply] /\ running \subseteq Fit
  BY DEF Types, BaseOK
<1>e. ASSUME NEW q \in Runs, reply' = [reply EXCEPT ![q] = Error],
             r # q => at'[r] = at[r] /\ target'[r] = target[r]
      PROVE  SameReply(r) \/ PlainReply(r)
  <2>1. CASE r = q
    BY <1>e, <1>t, <2>1, ErrorIsPlain
  <2>2. CASE r # q
    BY <1>e, <1>t, <2>2 DEF SameReply
  <2> QED BY <2>1, <2>2
<1>p. ASSUME NEW q \in Runs, NEW f, Framed(f), Stores(q, f),
             r # q => at'[r] = at[r] /\ target'[r] = target[r]
      PROVE  SameReply(r) \/ PlainReply(r)
  <2>1. CASE r = q
    BY <1>p, <2>1, StoredIsPlain
  <2>2. CASE r # q
    BY <1>p, <1>t, <2>2 DEF SameReply, Stores, Replies
  <2> QED BY <2>1, <2>2
<1>1. ASSUME NEW q \in Runs, LoadPrices(q)
      PROVE  SameReply(r) \/ PlainReply(r)
  <2>1. r # q => target'[r] = target[r]
    BY <1>1, CallsFacts DEF LoadPrices
  <2>2. CASE Replies(q, Error) /\ UNCHANGED at
    BY <1>e, <2>1, <2>2 DEF Replies
  <2>3. CASE at' = [at EXCEPT ![q] = "fetching"] /\ UNCHANGED reply
    BY <1>t, <2>1, <2>3 DEF SameReply
  <2> QED BY <1>1, <2>2, <2>3 DEF LoadPrices
<1>2. ASSUME NEW q \in Runs, FetchEnds(q)
      PROVE  SameReply(r) \/ PlainReply(r)
  <2>1. r # q => at'[r] = at[r] /\ target'[r] = target[r]
    BY <1>2, <1>t DEF FetchEnds
  <2>2. \A n \in RowCounts \ {0} : Framed(LoadedFrame(n))
    BY LoadedIsFramed, DatasetsAssumption
  <2>3. Replies(q, Error) \/ \E f : Framed(f) /\ Stores(q, f)
    BY <1>2, <2>2 DEF FetchEnds
  <2> QED BY <1>e, <1>p, <2>1, <2>3 DEF Replies
<1>3. ASSUME NEW q \in Runs, ReadTool(q)
      PROVE  SameReply(r) \/ PlainReply(r)
  <2>1. PICK h \in Handles : ReadOn(q, h)
    BY <1>3, ReadCases
  <2>2. r # q => target'[r] = target[r]
    BY <2>1, CallsFacts DEF ReadOn
  <2>3. PICK answer \in Reply :
           /\ Small(answer) /\ About(answer, frames[q]) /\ answer.kind # "forecast"
           /\ reply' = [reply EXCEPT ![q] = answer]
    BY <2>1 DEF ReadOn
  <2>4. UNCHANGED <<frames, at>>
    BY <2>1 DEF ReadOn, registry
  <2>5. CASE r = q
    BY <1>t, <2>3, <2>4, <2>5 DEF PlainReply
  <2>6. CASE r # q
    BY <1>t, <2>2, <2>3, <2>4, <2>6 DEF SameReply
  <2> QED BY <2>5, <2>6
<1>4. ASSUME NEW q \in Runs, DatasetRolling(q)
      PROVE  SameReply(r) \/ PlainReply(r)
  <2>1. PICK h, c : h \in Handles /\ RollingOn(q, h, c)
    BY <1>4, RollingCases
  <2>2. r # q => at'[r] = at[r] /\ target'[r] = target[r]
    BY <2>1, CallsFacts DEF RollingOn
  <2> QED BY <1>e, <1>p, <2>1, <2>2 DEF RollingOn
<1>5. ASSUME NEW q \in Runs, DatasetArima(q)
      PROVE  SameReply(r) \/ PlainReply(r)
  <2>1. PICK h, c : h \in Handles /\ ArimaOn(q, h, c)
    BY <1>5, ArimaCases
  <2>2. r # q => target'[r] = target[r]
    BY <2>1, CallsFacts DEF ArimaOn
  <2>3. CASE reply' = [reply EXCEPT ![q] = Error] /\ UNCHANGED at
    BY <1>e, <2>2, <2>3
  <2>4. CASE reply' = reply /\ at' = [at EXCEPT ![q] = "fitting"]
    BY <1>t, <2>2, <2>4 DEF SameReply
  <2> QED BY <2>1, <2>3, <2>4 DEF ArimaOn
<1>6. CASE FitStarts
  BY <1>6 DEF FitStarts, SameReply
<1>7. ASSUME NEW fit \in running, FitEnds(fit)
      PROVE  SameReply(r) \/ PlainReply(r) \/ ForecastReply(r)
  <2>1. fit.run \in Runs /\ UNCHANGED <<registry, target>>
    BY <1>7, <1>t DEF Fit, FitEnds
  <2>2. CASE ~Awaited(fit)
    BY <1>7, <2>1, <2>2 DEF FitEnds, SameReply
  <2>3. CASE Awaited(fit)
    <3>1. at' = [at EXCEPT ![fit.run] = "idle"]
      BY <1>7, <2>3 DEF FitEnds
    <3>2. CASE Replies(fit.run, Error)
      BY <1>e, <1>t, <2>1, <3>1, <3>2 DEF Replies
    <3>3. CASE Replies(fit.run, Answer("forecast", fit.handle, fit.points, 0))
      <4>1. CASE r = fit.run
        BY <1>t, <2>1, <2>3, <3>1, <3>3, <4>1 DEF ForecastReply, Replies, registry
      <4>2. CASE r # fit.run
        BY <1>t, <2>1, <3>1, <3>3, <4>2 DEF SameReply, Replies
      <4> QED BY <4>1, <4>2
    <3> QED BY <1>7, <2>3, <3>2, <3>3 DEF FitEnds
  <2> QED BY <2>2, <2>3
<1>8. ASSUME NEW q \in Runs, ToolCancelled(q) \/ ToolStops(q)
      PROVE  SameReply(r) \/ PlainReply(r)
  <2>1. CASE ToolCancelled(q)
    BY <1>t, <2>1 DEF ToolCancelled, SameReply
  <2>2. CASE ToolStops(q)
    BY <1>t, <1>e, <2>2 DEF ToolStops, Replies
  <2> QED BY <1>8, <2>1, <2>2
<1>9. ASSUME NEW q \in Runs, RunEnds(q)
      PROVE  SameReply(r)
  BY <1>9, <1>t DEF RunEnds, SameReply
<1>10. CASE UNCHANGED vars
  BY <1>10 DEF vars, SameReply
<1> QED
  BY <1>1, <1>2, <1>3, <1>4, <1>5, <1>6, <1>7, <1>8, <1>9, <1>10
     DEF Next, ToolCall, AllEnded

BulkInv == Types /\ \A r \in Runs : Small(reply[r])

\* Whatever a tool replies holds no more rows than its setting allows
\* (datasets.py, describe; tools.py, dataset_sample).
THEOREM RepliesAreSmall == Spec => []NoBulkRows
<1>1. Init => BulkInv
  <2> SUFFICES ASSUME Init
               PROVE  BulkInv
    OBVIOUS
  <2>1. Types
    BY TypesInit
  <2>2. HeadRows >= 0 => 0 <= Bulk
    BY DatasetsAssumption DEF Bulk, AtLeast
  <2> QED BY <2>1, <2>2, ErrorReply DEF Init, BulkInv, Small
<1>2. BulkInv /\ [Next]_vars => BulkInv'
  <2> SUFFICES ASSUME BulkInv, [Next]_vars, NEW r \in Runs
               PROVE  Small(reply'[r])
    BY TypesNext DEF BulkInv
  <2>1. CASE SameReply(r) \/ PlainReply(r)
    BY <2>1 DEF SameReply, PlainReply, BulkInv
  <2>2. CASE ForecastReply(r)
    <3>1. HeadRows >= 0 => 0 <= Bulk
      BY DatasetsAssumption DEF Bulk, AtLeast
    <3> QED BY <2>2, <3>1 DEF ForecastReply, Answer, Small
  <2> QED BY <2>1, <2>2, ReplyStep DEF BulkInv
<1>3. BulkInv => NoBulkRows
  BY DEF BulkInv, NoBulkRows, Small, Bulk
<1> QED
  BY <1>1, <1>2, <1>3, PTL DEF Spec

-----------------------------------------------------------------------------
(* What a reply is about *)

\* The fits that threads work on or that wait for one.
Pending == running \cup {queue[i] : i \in 1..Len(queue)}

\* A fit is of the column its call named, as the frame still has it.
Sound(fit) ==
    LET r == fit.run
    IN  /\ fit.handle \in DOMAIN frames[r] /\ fit.handle = target[r].handle
        /\ fit.points = Values(frames[r][fit.handle], target[r].column)
        /\ fit.points >= MinHistory
        /\ fit.points <= frames[r][fit.handle].rows

Owned(fit) == fit.call <= calls[fit.run] /\ (Awaited(fit) => Sound(fit))

\* dataset_arima on a column that is long enough.
Submits(r, h, c) ==
    /\ Calls(r, h, c) /\ UNCHANGED <<registry, running>>
    /\ h \in DOMAIN frames[r] /\ Numeric(frames[r][h], c)
    /\ Values(frames[r][h], c) >= MinHistory
    /\ Submitted(r, h, c) \in Fit
    /\ queue' = Append(queue, Submitted(r, h, c))

\* Only dataset_arima makes a run wait for a fit, and each call is counted.
CallStep(r) ==
    \/ /\ calls'[r] = calls[r] /\ target'[r] = target[r]
       /\ at'[r] = "fitting" => at[r] = "fitting"
    \/ calls'[r] = calls[r] + 1

LEMMA CallSteps ==
  ASSUME Types, [Next]_vars, NEW r \in Runs
  PROVE  CallStep(r)
<1>t. /\ at \in [Runs -> {"idle", "fetching", "fitting", "stopping", "ended"}]
      /\ running \subseteq Fit
  BY DEF Types, BaseOK
<1>c. ASSUME NEW q \in Runs, NEW h, NEW c, Calls(q, h, c), r # q => at'[r] = at[r]
      PROVE  CallStep(r)
  BY <1>c, CallsFacts DEF CallStep
<1>1. ASSUME NEW q \in Runs, LoadPrices(q)
      PROVE  CallStep(r)
  <2>1. r # q => at'[r] = at[r]
    BY <1>1, <1>t DEF LoadPrices
  <2> QED BY <1>1, <1>c, <2>1 DEF LoadPrices
<1>2. ASSUME NEW q \in Runs, ReadTool(q)
      PROVE  CallStep(r)
  BY <1>2, <1>c, ReadCases DEF ReadOn
<1>3. ASSUME NEW q \in Runs, DatasetRolling(q)
      PROVE  CallStep(r)
  BY <1>3, <1>c, RollingCases DEF RollingOn
<1>4. ASSUME NEW q \in Runs, DatasetArima(q)
      PROVE  CallStep(r)
  <2>1. PICK h, c : h \in Handles /\ ArimaOn(q, h, c)
    BY <1>4, ArimaCases
  <2>2. r # q => at'[r] = at[r]
    BY <1>t, <2>1 DEF ArimaOn
  <2> QED BY <1>c, <2>1, <2>2 DEF ArimaOn
<1>5. CASE \/ \E q \in Runs : FetchEnds(q) \/ ToolCancelled(q) \/ ToolStops(q) \/ RunEnds(q)
           \/ FitStarts \/ UNCHANGED vars
  BY <1>5, <1>t DEF FetchEnds, ToolCancelled, ToolStops, RunEnds, FitStarts, vars, CallStep
<1>6. ASSUME NEW fit \in running, FitEnds(fit)
      PROVE  CallStep(r)
  <2>1. fit.run \in Runs
    BY <1>t DEF Fit
  <2> QED BY <1>6, <1>t, <2>1 DEF FitEnds, CallStep
<1> QED
  BY <1>1, <1>2, <1>3, <1>4, <1>5, <1>6 DEF Next, ToolCall, AllEnded

\* A step that is not the submission of a fit adds none.
LEMMA PendingStep ==
  ASSUME Types, [Next]_vars, NEW fit \in Pending'
  PROVE  \/ fit \in Pending
         \/ \E r, h, c : /\ r \in Runs /\ Submits(r, h, c)
                         /\ fit = Submitted(r, h, c)
<1>t. queue \in Seq(Fit)
  BY DEF Types, BaseOK
<1>1. CASE UNCHANGED executor
  BY <1>1 DEF Pending, executor
<1>2. ASSUME NEW r \in Runs, DatasetArima(r)
      PROVE  \/ fit \in Pending
             \/ \E q, h, c : /\ q \in Runs /\ Submits(q, h, c)
                             /\ fit = Submitted(q, h, c)
  <2>1. PICK h, c : h \in Handles /\ ArimaOn(r, h, c)
    BY <1>2, ArimaCases
  <2>2. CASE UNCHANGED executor
    BY <1>1, <2>2
  <2>3. CASE Submits(r, h, c)
    <3>1. fit \in running \/ \E i \in 1..(Len(queue) + 1) :
                                fit = Append(queue, Submitted(r, h, c))[i]
      BY <1>t, <2>3, AppendProperties DEF Submits, Pending
    <3> DEFINE new == Submitted(r, h, c)
    <3>2. \A i \in 1..Len(queue) : Append(queue, new)[i] = queue[i]
      BY <1>t, <2>3, AppendProperties DEF Submits
    <3>3. Append(queue, new)[Len(queue) + 1] = new
      BY <1>t, <2>3, AppendProperties DEF Submits
    <3>4. Len(queue) \in Nat
      BY <1>t
    <3> HIDE DEF new
    <3>5. fit \in Pending \/ fit = new
      BY <3>1, <3>2, <3>3, <3>4 DEF Pending, new
    <3> QED BY <2>3, <3>5 DEF new
  <2> QED BY <2>1, <2>2, <2>3 DEF ArimaOn, Submits, executor
<1>3. CASE FitStarts
  <2>1. queue # <<>> /\ queue' = Tail(queue)
        /\ running' \subseteq running \cup {Head(queue)}
    BY <1>3 DEF FitStarts
  <2>2. /\ Len(Tail(queue)) = Len(queue) - 1 /\ Len(queue) \in Nat \ {0}
        /\ \A i \in 1..Len(Tail(queue)) : Tail(queue)[i] = queue[i + 1]
        /\ Head(queue) = queue[1]
    BY <1>t, <2>1, HeadTailProperties
  <2>3. Head(queue) \in Pending
    BY <2>2 DEF Pending
  <2>4. ASSUME NEW i \in 1..Len(queue')
        PROVE  queue'[i] \in Pending
    BY <2>1, <2>2 DEF Pending
  <2> QED BY <2>1, <2>3, <2>4 DEF Pending
<1>4. ASSUME NEW f \in running, FitEnds(f)
      PROVE  fit \in Pending
  BY <1>4 DEF FitEnds, Pending
<1> QED
  BY <1>1, <1>2, <1>3, <1>4
     DEF Next, ToolCall, LoadPrices, FetchEnds, ReadTool, DatasetRolling,
         ToolCancelled, ToolStops, RunEnds, AllEnded, vars, executor

FitsInv == Types /\ \A fit \in Pending : Owned(fit)

LEMMA FitsInit == Init => FitsInv
<1> SUFFICES ASSUME Init
             PROVE  FitsInv
  OBVIOUS
<1>1. Pending = {}
  BY DEF Init, Pending
<1> QED BY <1>1, TypesInit DEF FitsInv

LEMMA FitsNext == FitsInv /\ [Next]_vars => FitsInv'
<1> SUFFICES ASSUME FitsInv, [Next]_vars, NEW fit \in Pending'
             PROVE  Owned(fit)'
  BY TypesNext DEF FitsInv
<1>t. /\ Types /\ Types' /\ calls \in [Runs -> Nat]
  BY TypesNext, DatasetsAssumption DEF FitsInv, Types, BaseOK
<1>1. CASE fit \in Pending
  <2>1. fit \in Fit
    <3>1. queue \in Seq(Fit) /\ running \subseteq Fit
      BY <1>t DEF Types, BaseOK
    <3> QED BY <1>1, <3>1 DEF Pending
  <2> DEFINE r == fit.run
  <2>2. r \in Runs /\ fit.call \in Nat /\ Owned(fit)
    BY <1>1, <2>1 DEF Fit, FitsInv
  <2>3. CallStep(r) /\ (Kept(r) \/ PutOne(r) \/ Cleared(r))
    BY <1>t, <2>2, CallSteps, RegistryStep
  <2>4. fit.call <= calls'[r]
    BY <1>t, <2>2, <2>3 DEF CallStep, Owned
  <2>5. ASSUME Awaited(fit)'
        PROVE  Sound(fit)'
    <3>1. at'[r] = "fitting" /\ calls'[r] = fit.call
      BY <2>5 DEF Awaited
    <3>2. /\ calls'[r] = calls[r] /\ target'[r] = target[r] /\ at[r] = "fitting"
      BY <1>t, <2>2, <2>3, <3>1 DEF CallStep, Owned
    <3>3. Sound(fit)
      BY <2>2, <3>1, <3>2 DEF Owned, Awaited
    <3>4. /\ fit.handle \in DOMAIN frames'[r]
          /\ frames'[r][fit.handle] = frames[r][fit.handle]
      BY <2>3, <3>1, <3>3 DEF Kept, PutOne, Cleared, Sound
    <3> QED BY <3>2, <3>3, <3>4 DEF Sound, Values
  <2> QED BY <2>4, <2>5 DEF Owned
<1>2. ASSUME NEW r, NEW h, NEW c, r \in Runs, Submits(r, h, c), fit = Submitted(r, h, c)
      PROVE  Owned(fit)'
  <2>1. /\ fit.run = r /\ fit.call = calls[r] + 1 /\ fit.handle = h
        /\ fit.points = Values(frames[r][h], c)
    BY <1>2 DEF Submitted
  <2>2. /\ calls'[r] = calls[r] + 1 /\ target'[r].handle = h /\ target'[r].column = c
        /\ frames' = frames
    <3>1. Calls(r, h, c) /\ frames' = frames
      BY <1>2 DEF Submits, registry
    <3>2. calls'[r] = calls[r] + 1 /\ target'[r] = [handle |-> h, column |-> c]
      BY <1>t, <1>2, <3>1, CallsFacts
    <3> QED BY <3>1, <3>2
  <2>3. /\ h \in DOMAIN frames[r] /\ c \in DOMAIN frames[r][h].columns
        /\ Values(frames[r][h], c) >= MinHistory
        /\ Framed(frames[r][h])
    BY <1>t, <1>2 DEF Submits, Numeric, Types
  <2>4. Values(frames[r][h], c) <= frames[r][h].rows
    BY <2>3 DEF Values, Framed, Frame
  <2>5. Sound(fit)'
    BY <2>1, <2>2, <2>3, <2>4 DEF Sound, Values
  <2>6. fit.call <= calls'[fit.run]
    BY <1>t, <1>2, <2>1, <2>2
  <2> QED BY <2>5, <2>6 DEF Owned
<1> QED BY <1>t, <1>1, <1>2, PendingStep

\* A tool is called on a handle that the agent may name.
Targets == \A r \in Runs : target[r].handle \in 0..(MaxToolCalls + 1)

LEMMA TargetsNext == Types /\ Targets /\ [Next]_vars => Targets'
<1> SUFFICES ASSUME Types, Targets, [Next]_vars
             PROVE  Targets'
  OBVIOUS
<1>c. ASSUME NEW q \in Runs, NEW h \in 0..(MaxToolCalls + 1), NEW c, Calls(q, h, c)
      PROVE  Targets'
  <2>1. target'[q] = [handle |-> h, column |-> c]
    BY <1>c, CallsFacts
  <2>2. \A p \in Runs \ {q} : target'[p] = target[p]
    BY <1>c, CallsFacts
  <2> QED BY <2>1, <2>2 DEF Targets
<1>h. 0 \in 0..(MaxToolCalls + 1) /\ Handles \subseteq 0..(MaxToolCalls + 1)
  BY DatasetsAssumption DEF Handles
<1>1. ASSUME NEW q \in Runs, ToolCall(q)
      PROVE  Targets'
  <2>1. CASE LoadPrices(q)
    BY <1>c, <1>h, <2>1 DEF LoadPrices
  <2>2. CASE ReadTool(q) \/ DatasetRolling(q) \/ DatasetArima(q)
    <3>1. \E h, c : h \in Handles /\ Calls(q, h, c)
      BY <2>2, ReadCases, RollingCases, ArimaCases DEF ReadOn, RollingOn, ArimaOn
    <3> QED BY <1>c, <1>h, <3>1
  <2> QED BY <1>1, <2>1, <2>2 DEF ToolCall
<1>2. CASE ~\E q \in Runs : ToolCall(q)
  <2>1. target' = target
    BY <1>2 DEF Next, FetchEnds, ToolCancelled, ToolStops, RunEnds, FitStarts,
                FitEnds, AllEnded, vars
  <2> QED BY <2>1 DEF Targets
<1> QED BY <1>1, <1>2

\* A reply names no handle that was not issued.
RepliesIssued == \A r \in Runs : reply[r].handle <= counter[r]

LEMMA RepliesIssuedNext ==
  ASSUME FitsInv, RepliesIssued, [Next]_vars
  PROVE  RepliesIssued'
<1>t. Types /\ Types'
  BY TypesNext DEF FitsInv
<1> SUFFICES ASSUME NEW r \in Runs
             PROVE  reply'[r].handle <= counter'[r]
  BY DEF RepliesIssued
<1>n. /\ counter[r] \in Nat /\ counter'[r] \in Nat
      /\ DOMAIN frames[r] \subseteq 1..counter[r]
      /\ DOMAIN frames'[r] \subseteq 1..counter'[r]
      /\ reply'[r] \in Reply /\ reply[r] \in Reply
  BY <1>t DEF Types, BaseOK
<1>m. counter[r] <= counter'[r]
  BY <1>t, <1>n, RegistryStep DEF Kept, PutOne, Cleared
<1>1. CASE SameReply(r)
  <2>1. reply[r].handle \in Nat /\ reply[r].handle <= counter[r]
    BY <1>n DEF Reply, RepliesIssued
  <2> QED BY <1>1, <1>n, <1>m, <2>1 DEF SameReply
<1>2. CASE PlainReply(r)
  <2>1. CASE reply'[r].kind = "error"
    BY <1>n, <2>1 DEF Reply
  <2>2. CASE reply'[r].kind # "error"
    BY <1>2, <1>n, <2>2 DEF PlainReply, About
  <2> QED BY <2>1, <2>2
<1>3. CASE ForecastReply(r)
  <2>1. PICK fit \in running :
           /\ fit.run = r /\ Awaited(fit)
           /\ reply'[r] = Answer("forecast", fit.handle, fit.points, 0)
    BY <1>3 DEF ForecastReply
  <2>2. fit.handle \in DOMAIN frames[r]
    BY <2>1 DEF FitsInv, Pending, Owned, Sound
  <2>3. fit.handle \in Nat /\ fit.handle <= counter[r]
    BY <1>n, <2>2
  <2> QED BY <1>n, <1>m, <2>1, <2>3 DEF Answer
<1> QED BY <1>t, <1>1, <1>2, <1>3, ReplyStep

\* A column never has more nulls than its frame has rows, however often it is
\* rolled and with whatever window, and a reply never tells of a handle that
\* was not issued or of more rows than there are (tools.py, dataset_rolling).
THEOREM DatasetsTypeCorrect == Spec => []TypeOK
<1>1. Init => FitsInv /\ Targets /\ RepliesIssued
  <2> SUFFICES ASSUME Init
               PROVE  Targets /\ RepliesIssued
    BY FitsInit
  <2>1. Targets
    BY DatasetsAssumption DEF Init, Targets, NoTarget
  <2>2. RepliesIssued
    BY DEF Init, RepliesIssued, Error, Answer
  <2> QED BY <2>1, <2>2
<1>2. FitsInv /\ Targets /\ RepliesIssued /\ [Next]_vars
        => FitsInv' /\ Targets' /\ RepliesIssued'
  <2>1. FitsInv => Types
    BY DEF FitsInv
  <2> QED BY <2>1, FitsNext, TargetsNext, RepliesIssuedNext
<1>3. FitsInv /\ Targets /\ RepliesIssued => TypeOK
  <2> SUFFICES ASSUME FitsInv, Targets, RepliesIssued
               PROVE  TypeOK
    OBVIOUS
  <2>1. Types /\ BaseOK
    BY DEF FitsInv, Types
  <2>2. ASSUME NEW r \in Runs
        PROVE  /\ target[r].handle \in 0..(MaxToolCalls + 1)
               /\ reply[r].kind \in Kinds
               /\ reply[r].handle \in 0..counter[r]
               /\ reply[r].size \in Nat
               /\ reply[r].shown \in 0..reply[r].size
    <3>1. reply[r] \in Reply /\ counter[r] \in Nat
      BY <2>1 DEF Types, BaseOK
    <3>2. reply[r].handle <= counter[r]
      BY DEF RepliesIssued
    <3> QED BY <3>1, <3>2 DEF Reply, Targets
  <2>3. \A r \in Runs : /\ DOMAIN frames[r] \subseteq 1..counter[r]
                        /\ \A h \in DOMAIN frames[r] : Frame(frames[r][h])
    BY <2>1 DEF Types, BaseOK, Framed
  <2> QED BY <2>1, <2>2, <2>3 DEF TypeOK, BaseOK, Kinds
<1> QED
  BY <1>1, <1>2, <1>3, PTL DEF Spec

\* The reply of a run that goes on is about what it asked for.
Grounded(r) ==
    at[r] # "ended" =>
        /\ About(reply[r], frames[r])
        /\ reply[r].kind = "forecast" /\ at[r] = "idle" /\ target[r].column # <<>> =>
             /\ reply[r].handle = target[r].handle
             /\ reply[r].size = Values(frames[r][reply[r].handle], target[r].column)
             /\ reply[r].size >= MinHistory

GroundInv == FitsInv /\ \A r \in Runs : Grounded(r)

\* However many fits were abandoned before, in whichever threads they still
\* compute: a reply is about a frame the run holds, and a forecast about the
\* column that the agent asked for last (tools.py, dispatch and dataset_arima).
THEOREM RepliesFollowTheirCalls == Spec => []RepliesAreGrounded
<1>1. Init => GroundInv
  BY FitsInit, ErrorReply DEF Init, GroundInv, Grounded, About
<1>2. GroundInv /\ [Next]_vars => GroundInv'
  <2> SUFFICES ASSUME GroundInv, [Next]_vars, NEW r \in Runs, at'[r] # "ended"
               PROVE  Grounded(r)'
    BY FitsNext DEF GroundInv, Grounded
  <2>t. Types /\ Types' /\ Grounded(r)
    BY TypesNext DEF GroundInv, FitsInv
  <2>1. Kept(r) \/ PutOne(r)
    BY <2>t, RegistryStep DEF Cleared
  <2>2. CASE SameReply(r)
    <3>1. at[r] # "ended" /\ reply'[r] = reply[r]
      BY <2>1, <2>2 DEF Kept, PutOne, SameReply
    <3>2. \A h \in DOMAIN frames[r] :
             h \in DOMAIN frames'[r] /\ frames'[r][h] = frames[r][h]
      BY <2>1 DEF Kept, PutOne
    <3>3. About(reply[r], frames'[r])
      BY <2>t, <3>1, <3>2 DEF Grounded, About
    <3>4. CASE at'[r] = "idle" /\ reply[r].kind = "forecast"
      <4>1. at[r] = "idle" /\ target'[r] = target[r]
        BY <2>2, <3>4 DEF SameReply
      <4>2. reply[r].handle \in DOMAIN frames[r]
        BY <2>t, <3>1, <3>4 DEF Grounded, About
      <4> QED BY <2>t, <3>1, <3>2, <3>3, <4>1, <4>2 DEF Grounded, Values
    <3> QED BY <3>1, <3>3, <3>4 DEF Grounded
  <2>3. CASE PlainReply(r)
    BY <2>3 DEF PlainReply, Grounded
  <2>4. CASE ForecastReply(r)
    <3>1. PICK fit \in running :
             /\ fit.run = r /\ Awaited(fit)
             /\ reply'[r] = Answer("forecast", fit.handle, fit.points, 0)
             /\ target'[r] = target[r] /\ frames'[r] = frames[r]
      BY <2>4 DEF ForecastReply
    <3>2. Sound(fit)
      BY <3>1 DEF GroundInv, FitsInv, Pending, Owned
    <3>3. reply'[r].handle = fit.handle /\ reply'[r].size = fit.points
      BY <3>1 DEF Answer
    <3> QED BY <3>1, <3>2, <3>3 DEF Sound, Grounded, About
  <2> QED BY <2>t, <2>2, <2>3, <2>4, ReplyStep
<1>3. GroundInv => RepliesAreGrounded
  <2> SUFFICES ASSUME GroundInv, NEW r \in Runs, at[r] # "ended",
                      reply[r].kind # "error"
               PROVE  LET h == reply[r].handle
                      IN  /\ h \in DOMAIN frames[r]
                          /\ reply[r].size <= frames[r][h].rows
                          /\ reply[r].kind = "forecast" /\ at[r] = "idle"
                             /\ target[r].column # <<>> =>
                               /\ h = target[r].handle
                               /\ reply[r].size
                                    = Values(frames[r][h], target[r].column)
                               /\ reply[r].size >= MinHistory
    BY DEF RepliesAreGrounded
  <2>1. Grounded(r)
    BY DEF GroundInv
  <2> QED BY <2>1 DEF Grounded, About
<1> QED
  BY <1>1, <1>2, <1>3, PTL DEF Spec

-----------------------------------------------------------------------------
(* The executor *)

\* What a step does to the executor: nothing, or it submits a fit, hands one
\* to a thread, or ends one.
LEMMA ExecutorStep ==
  ASSUME Types, [Next]_vars
  PROVE  \/ UNCHANGED executor
         \/ \E r, h, c : r \in Runs /\ Submits(r, h, c)
         \/ FitStarts
         \/ \E fit \in running : FitEnds(fit)
<1>1. ASSUME NEW r \in Runs, DatasetArima(r)
      PROVE  UNCHANGED executor \/ \E q, h, c : q \in Runs /\ Submits(q, h, c)
  <2>1. PICK h, c : h \in Handles /\ ArimaOn(r, h, c)
    BY <1>1, ArimaCases
  <2> QED BY <2>1 DEF ArimaOn, Submits, executor
<1> QED
  BY <1>1 DEF Next, ToolCall, LoadPrices, FetchEnds, ReadTool, DatasetRolling,
              ToolCancelled, ToolStops, RunEnds, AllEnded, vars

\* What FitStarts does to the queue.
LEMMA QueueMoves ==
  ASSUME Types, FitStarts
  PROVE  /\ Len(queue) \in Nat \ {0} /\ Len(queue') = Len(queue) - 1
         /\ \A i \in 1..Len(queue') : queue'[i] = queue[i + 1]
         /\ \/ Awaited(queue[1]) /\ running' = running \cup {queue[1]}
            \/ ~Awaited(queue[1]) /\ running' = running
<1>1. queue \in Seq(Fit) /\ queue # <<>> /\ queue' = Tail(queue)
  BY DEF Types, BaseOK, FitStarts
<1>2. /\ Len(Tail(queue)) = Len(queue) - 1 /\ Len(queue) \in Nat \ {0}
      /\ \A i \in 1..Len(Tail(queue)) : Tail(queue)[i] = queue[i + 1]
      /\ Head(queue) = queue[1]
  BY <1>1, HeadTailProperties
<1> QED BY <1>1, <1>2 DEF FitStarts

\* What the submission of a fit does to it.
LEMMA QueueGrows ==
  ASSUME Types, NEW r, NEW h, NEW c, Submits(r, h, c)
  PROVE  /\ Len(queue) \in Nat /\ Len(queue') = Len(queue) + 1
         /\ \A i \in 1..Len(queue) : queue'[i] = queue[i]
         /\ queue'[Len(queue) + 1] = Submitted(r, h, c)
         /\ running' = running
<1> DEFINE new == Submitted(r, h, c)
<1>1. queue \in Seq(Fit) /\ new \in Fit /\ queue' = Append(queue, new)
  BY DEF Types, BaseOK, Submits
<1> HIDE DEF new
<1>2. /\ Len(queue) \in Nat /\ Len(queue') = Len(queue) + 1
      /\ \A i \in 1..Len(queue) : queue'[i] = queue[i]
      /\ queue'[Len(queue) + 1] = new
  BY <1>1, AppendProperties
<1> QED BY <1>2 DEF new, Submits

\* No more threads work than there are.
ThreadsBounded == IsFiniteSet(running) /\ Cardinality(running) \in 0..Workers

SameCall(f, g) == f.run = g.run /\ f.call = g.call

\* A call's fit is pending once, in the queue or in a thread.
PendingOnce ==
    /\ \A f, g \in running : SameCall(f, g) => f = g
    /\ \A i, j \in 1..Len(queue) : SameCall(queue[i], queue[j]) => i = j
    /\ \A i \in 1..Len(queue), f \in running : ~SameCall(queue[i], f)

\* A run that waits for a fit waits for one that is pending.
HasItsFit(r) == at[r] = "fitting" => \E fit \in Pending : fit.run = r /\ Awaited(fit)

ExecutorInv ==
    /\ FitsInv /\ ThreadsBounded /\ PendingOnce
    /\ \A r \in Runs : HasItsFit(r)

\* A thread takes a fit only when it is free, and is freed by it once.
LEMMA ThreadsNext ==
  ASSUME Types, ThreadsBounded, [Next]_vars
  PROVE  ThreadsBounded'
<1>1. CASE FitStarts
  <2>1. Cardinality(running) < Workers /\ Cardinality(running) \in Nat
    BY <1>1 DEF FitStarts, ThreadsBounded
  <2>2. CASE running' = running
    BY <2>2 DEF ThreadsBounded
  <2>3. CASE running' # running
    <3>1. running' = running \cup {queue[1]}
      BY <1>1, <2>3, QueueMoves
    <3>2. /\ IsFiniteSet(running')
          /\ Cardinality(running') \in {Cardinality(running), Cardinality(running) + 1}
      BY <3>1, FS_AddElement DEF ThreadsBounded
    <3> QED BY <2>1, <3>2, DatasetsAssumption DEF ThreadsBounded
  <2> QED BY <2>2, <2>3
<1>2. ASSUME NEW fit \in running, FitEnds(fit)
      PROVE  ThreadsBounded'
  <2>1. running' = running \ {fit}
    BY <1>2 DEF FitEnds
  <2>2. IsFiniteSet(running') /\ Cardinality(running') = Cardinality(running) - 1
    BY <2>1, FS_RemoveElement DEF ThreadsBounded
  <2>3. Cardinality(running') \in Nat
    BY <2>2, FS_CardinalityType
  <2> QED BY <2>2, <2>3, DatasetsAssumption DEF ThreadsBounded
<1>3. CASE running' = running
  BY <1>3 DEF ThreadsBounded
<1> QED BY <1>1, <1>2, <1>3, ExecutorStep DEF Submits, executor

\* A new fit is of a new call, and one that moves on leaves its place.
LEMMA PendingOnceNext ==
  ASSUME FitsInv, PendingOnce, [Next]_vars
  PROVE  PendingOnce'
<1>t. Types
  BY DEF FitsInv
<1>1. CASE UNCHANGED executor
  BY <1>1 DEF executor, PendingOnce
<1>2. ASSUME NEW r, NEW h, NEW c, r \in Runs, Submits(r, h, c)
      PROVE  PendingOnce'
  <2> DEFINE new == Submitted(r, h, c)
  <2>1. new.run = r /\ new.call = calls[r] + 1 /\ calls[r] \in Nat
    BY <1>2, <1>t, DatasetsAssumption DEF Submitted, Types, BaseOK
  <2>2. \A f \in Pending : ~SameCall(f, new) /\ ~SameCall(new, f)
    <3>1. \A f \in Pending : f \in Fit /\ f.call <= calls[f.run]
      <4>1. queue \in Seq(Fit) /\ running \subseteq Fit
        BY <1>t DEF Types, BaseOK
      <4> QED BY <4>1 DEF Pending, FitsInv, Owned
    <3> QED BY <2>1, <3>1 DEF SameCall, Fit
  <2> HIDE DEF new
  <2>3. /\ Len(queue) \in Nat /\ Len(queue') = Len(queue) + 1
        /\ \A i \in 1..Len(queue) : queue'[i] = queue[i]
        /\ queue'[Len(queue) + 1] = new
        /\ running' = running
    BY <1>t, <1>2, QueueGrows DEF new
  <2>4. /\ \A i \in 1..Len(queue) : queue[i] \in Pending
        /\ \A f \in running : f \in Pending
    BY DEF Pending
  <2>5. \A i \in 1..Len(queue') : i \in 1..Len(queue) \/ i = Len(queue) + 1
    BY <2>3
  <2>6. \A i, j \in 1..Len(queue') : SameCall(queue'[i], queue'[j]) => i = j
    BY <2>2, <2>3, <2>4, <2>5 DEF PendingOnce
  <2>7. \A i \in 1..Len(queue'), f \in running' : ~SameCall(queue'[i], f)
    BY <2>2, <2>3, <2>4, <2>5 DEF PendingOnce
  <2> QED BY <2>3, <2>6, <2>7 DEF PendingOnce
<1>3. CASE FitStarts
  <2>1. /\ Len(queue) \in Nat \ {0} /\ Len(queue') = Len(queue) - 1
        /\ \A i \in 1..Len(queue') : queue'[i] = queue[i + 1]
        /\ running' \subseteq running \cup {queue[1]}
    BY <1>t, <1>3, QueueMoves
  <2>2. 1 \in 1..Len(queue) /\ \A i \in 1..Len(queue') : i + 1 \in 2..Len(queue)
    BY <2>1
  <2>3. \A i, j \in 1..Len(queue') : SameCall(queue'[i], queue'[j]) => i = j
    <3>1. SUFFICES ASSUME NEW i \in 1..Len(queue'), NEW j \in 1..Len(queue'),
                          SameCall(queue'[i], queue'[j])
                   PROVE  i = j
      OBVIOUS
    <3>2. SameCall(queue[i + 1], queue[j + 1]) /\ i + 1 \in 1..Len(queue)
          /\ j + 1 \in 1..Len(queue)
      BY <2>1, <3>1
    <3>3. i + 1 = j + 1
      BY <3>2 DEF PendingOnce
    <3> QED BY <3>3
  <2>4. \A f \in running : ~SameCall(f, queue[1]) /\ ~SameCall(queue[1], f)
    BY <2>2 DEF PendingOnce, SameCall
  <2>5. \A f, g \in running' : SameCall(f, g) => f = g
    BY <2>1, <2>4 DEF PendingOnce
  <2>6. \A i \in 1..Len(queue') : ~SameCall(queue'[i], queue[1])
    <3>1. \A i \in 1..Len(queue') : i + 1 \in 1..Len(queue) /\ i + 1 # 1
      BY <2>1
    <3> QED BY <2>1, <2>2, <3>1 DEF PendingOnce
  <2>7. \A i \in 1..Len(queue'), f \in running : ~SameCall(queue'[i], f)
    <3>1. \A i \in 1..Len(queue') : i + 1 \in 1..Len(queue)
      BY <2>1
    <3> QED BY <2>1, <3>1 DEF PendingOnce
  <2> QED BY <2>1, <2>3, <2>5, <2>6, <2>7 DEF PendingOnce
<1>4. ASSUME NEW fit \in running, FitEnds(fit)
      PROVE  PendingOnce'
  BY <1>4 DEF FitEnds, PendingOnce
<1> QED BY <1>1, <1>2, <1>3, <1>4, <1>t, ExecutorStep

\* A fit that a run waits for is neither dropped nor ended without its run.
LEMMA HasItsFitNext ==
  ASSUME FitsInv, [Next]_vars, NEW r \in Runs, HasItsFit(r)
  PROVE  HasItsFit(r)'
<1> SUFFICES ASSUME at'[r] = "fitting"
             PROVE  \E fit \in Pending' : fit.run = r /\ Awaited(fit)'
  BY DEF HasItsFit
<1>t. /\ Types /\ calls \in [Runs -> Nat]
      /\ at \in [Runs -> {"idle", "fetching", "fitting", "stopping", "ended"}]
  BY DatasetsAssumption DEF FitsInv, Types, BaseOK
\* The call that waits is a new one, or the one that has been waiting.
<1>1. CASE calls'[r] # calls[r]
  <2>1. DatasetArima(r)
    <3>1. \/ \E q \in Runs : ToolCall(q)
      BY <1>1 DEF Next, FetchEnds, ToolCancelled, ToolStops, RunEnds, FitStarts, FitEnds,
                  AllEnded, vars
    <3>2. PICK q \in Runs : ToolCall(q)
      BY <3>1
    <3>3. \E h, c : Calls(q, h, c)
      BY <3>2, Zenon DEF ToolCall, LoadPrices, ReadTool, DatasetRolling, DatasetArima
    <3>4. q = r /\ at[r] = "idle"
      BY <1>1, <1>t, <3>3, CallsFacts
    <3>5. ~LoadPrices(q) /\ ~ReadTool(q) /\ ~DatasetRolling(q)
      BY <1>t, <3>4 DEF LoadPrices, ReadTool, DatasetRolling
    <3> QED BY <3>2, <3>4, <3>5 DEF ToolCall
  <2>2. PICK h, c : ArimaOn(r, h, c)
    BY <1>t, <2>1, ArimaCases
  <2>3. Submits(r, h, c) /\ calls'[r] = calls[r] + 1
    <3>1. Calls(r, h, c) /\ at[r] = "idle" /\ calls'[r] = calls[r] + 1
      BY <1>t, <2>2, CallsFacts DEF ArimaOn
    <3> QED BY <2>2, <3>1 DEF ArimaOn, Submits
  <2> DEFINE new == Submitted(r, h, c)
  <2>4. new.run = r /\ new.call = calls'[r]
    BY <2>3 DEF Submitted
  <2> HIDE DEF new
  <2>5. new \in Pending'
    <3>1. /\ Len(queue) \in Nat /\ Len(queue') = Len(queue) + 1
          /\ queue'[Len(queue) + 1] = new
      BY <1>t, <2>3, QueueGrows DEF new
    <3>2. Len(queue) + 1 \in 1..Len(queue')
      BY <3>1
    <3> QED BY <3>1, <3>2 DEF Pending
  <2> QED BY <2>4, <2>5 DEF Awaited
<1>2. CASE calls'[r] = calls[r]
  <2>1. at[r] = "fitting"
    BY <1>t, <1>2, CallSteps DEF CallStep
  <2>2. PICK fit \in Pending : fit.run = r /\ Awaited(fit)
    BY <2>1 DEF HasItsFit
  <2>3. Awaited(fit)'
    BY <1>2, <2>2 DEF Awaited
  <2>4. fit \in Pending'
    <3>1. CASE UNCHANGED executor
      BY <2>2, <3>1 DEF executor, Pending
    <3>2. ASSUME NEW q, NEW h, NEW c, Submits(q, h, c)
          PROVE  fit \in Pending'
      <4>1. /\ Len(queue) \in Nat /\ Len(queue') = Len(queue) + 1
            /\ \A i \in 1..Len(queue) : queue'[i] = queue[i]
            /\ running' = running
        BY <1>t, <3>2, QueueGrows
      <4>2. \A i \in 1..Len(queue) : i \in 1..Len(queue')
        BY <4>1
      <4> QED BY <2>2, <4>1, <4>2 DEF Pending
    <3>3. CASE FitStarts
      <4>1. /\ Len(queue) \in Nat \ {0} /\ Len(queue') = Len(queue) - 1
            /\ \A i \in 1..Len(queue') : queue'[i] = queue[i + 1]
            /\ \/ Awaited(queue[1]) /\ running' = running \cup {queue[1]}
               \/ ~Awaited(queue[1]) /\ running' = running
        BY <1>t, <3>3, QueueMoves
      <4>2. CASE fit \in running
        BY <4>1, <4>2 DEF Pending
      <4>3. ASSUME NEW i \in 1..Len(queue), fit = queue[i]
            PROVE  fit \in Pending'
        <5>1. CASE i = 1
          BY <2>2, <4>1, <4>3, <5>1 DEF Pending
        <5>2. CASE i # 1
          <6>1. i - 1 \in 1..Len(queue') /\ (i - 1) + 1 = i
            BY <4>1, <5>2
          <6>2. fit = queue'[i - 1]
            BY <4>1, <4>3, <6>1
          <6> QED BY <6>1, <6>2 DEF Pending
        <5> QED BY <5>1, <5>2
      <4> QED BY <2>2, <4>2, <4>3 DEF Pending
    <3>4. ASSUME NEW f \in running, FitEnds(f)
          PROVE  fit \in Pending'
      <4>1. fit # f
        BY <1>t, <2>2, <3>4 DEF FitEnds
      <4> QED BY <2>2, <3>4, <4>1 DEF FitEnds, Pending
    <3> QED BY <1>t, <3>1, <3>2, <3>3, <3>4, ExecutorStep
  <2> QED BY <2>2, <2>3, <2>4
<1> QED BY <1>1, <1>2

\* No call waits for a fit that nobody will make, no fit is made twice, and
\* however many calls have been given up, their orphans occupy the threads of
\* the executor and no more (tools.py, run_in_executor in dataset_arima).
THEOREM EveryFitIsPendingOnce ==
    Spec => [](ThreadsBounded /\ PendingOnce /\ \A r \in Runs : HasItsFit(r))
<1>1. Init => ExecutorInv
  <2> SUFFICES ASSUME Init
               PROVE  ThreadsBounded /\ PendingOnce /\ \A r \in Runs : HasItsFit(r)
    BY FitsInit DEF ExecutorInv
  <2>1. ThreadsBounded
    BY FS_EmptySet, DatasetsAssumption DEF Init, ThreadsBounded
  <2>2. PendingOnce
    BY DEF Init, PendingOnce
  <2>3. \A r \in Runs : HasItsFit(r)
    BY DEF Init, HasItsFit
  <2> QED BY <2>1, <2>2, <2>3
<1>2. ExecutorInv /\ [Next]_vars => ExecutorInv'
  <2> SUFFICES ASSUME ExecutorInv, [Next]_vars
               PROVE  ExecutorInv'
    OBVIOUS
  <2>1. FitsInv' /\ ThreadsBounded' /\ PendingOnce'
    BY FitsNext, ThreadsNext, PendingOnceNext DEF ExecutorInv, FitsInv
  <2>2. \A r \in Runs : HasItsFit(r)'
    BY HasItsFitNext DEF ExecutorInv
  <2> QED BY <2>1, <2>2 DEF ExecutorInv
<1> QED
  BY <1>1, <1>2, PTL DEF Spec, ExecutorInv
=============================================================================
