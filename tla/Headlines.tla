----------------------------- MODULE Headlines ------------------------------
(***************************************************************************)
(* The headline tools (service/tools.py: headline_search and               *)
(* headline_topic_frequency) over the two headline tables.                 *)
(*                                                                         *)
(* A headline is what the queries look at: the table and source it is in,  *)
(* when it was published, its ticker, and its rank for the words asked     *)
(* for (a headline the words do not match is left out of the model).       *)
(* abc_headlines knows the day only; us_headlines keeps a timestamp.  Time *)
(* is counted in half days, so that midnight and noon can be told apart.   *)
(***************************************************************************)
EXTENDS Integers, Sequences, FiniteSetsExt

CONSTANTS
    Universe,       \* the headlines a table may hold
    Days,           \* the days a query may name, from 1
    Tickers,        \* the tickers a query may name
    Limits,         \* the limits a query may ask for
    MaxLimit,       \* 50
    Granularities   \* sizes of a bucket in days

NoDate   == 0        \* start_date or end_date is not given
NoTicker == "none"   \* ticker is not given
Empty    == ""       \* ticker is given as the empty string

USSources == {"analyst", "partner"}
Sources == {"abc", "all", "unknown"} \cup USSources

ASSUME HeadlinesAssumption ==
    /\ IsFiniteSet(Universe)
    /\ \A h \in Universe :
         /\ h.source \in {"abc"} \cup USSources
         /\ h.time \in Nat /\ h.rank \in Nat
         /\ h.source = "abc" => h.ticker = NoTicker
    /\ Days \subseteq Nat \ {NoDate}
    /\ Limits \subseteq Int
    /\ MaxLimit \in Nat \ {0}
    /\ Granularities \subseteq Nat \ {0}

VARIABLES
    headlines,  \* what the two tables hold
    at,         \* idle, or the query under way: abc, us, countAbc, countUs;
                \* answered, counted or failed when the tool is done
    query,      \* the arguments of the tool
    found,      \* headline_search: results
    counts      \* headline_topic_frequency: parts, as the rows of each query

vars == <<headlines, at, query, found, counts>>

Query == [source: Sources, ticker: Tickers \cup {NoTicker, Empty},
          start: Days \cup {NoDate}, end: Days \cup {NoDate},
          limit: Limits, granularity: Granularities]

Midnight(day) == 2 * day
Date(time)    == time \div 2

\* max(1, min(limit, 50))
Limit(q) == IF q.limit < 1 THEN 1 ELSE IF q.limit > MaxLimit THEN MaxLimit
            ELSE q.limit

-----------------------------------------------------------------------------
(* The WHERE clauses of headline_search *)

\* publish_date BETWEEN start AND end, either of which may be missing.
InAbcRange(h, q) ==
    /\ q.start # NoDate => h.time >= Midnight(q.start)
    /\ q.end # NoDate => h.time <= Midnight(q.end)

\* published_at <= end + INTERVAL '1 day': the midnight after end included.
InUSRange(h, q) ==
    /\ q.start # NoDate => h.time >= Midnight(q.start)
    /\ q.end # NoDate => h.time <= Midnight(q.end + 1)

InUSSource(h, q) ==
    /\ h.source \in USSources
    /\ q.source # "all" => h.source = q.source

\* if source in ("abc", "all") [and not ticker]
AsksAbc(q) == q.source \in {"abc", "all"}
AsksUS(q)  == q.source \in {"all"} \cup USSources

AbcMatches(q) ==
    {h \in headlines : AsksAbc(q) /\ q.ticker \in {NoTicker, Empty}
                       /\ h.source = "abc" /\ InAbcRange(h, q)}

\* An empty ticker is a filter here: no headline has it.
USMatches(q) ==
    {h \in headlines : AsksUS(q) /\ InUSSource(h, q) /\ InUSRange(h, q)
                       /\ (q.ticker # NoTicker => h.ticker = q.ticker)}

-----------------------------------------------------------------------------
(* headline_topic_frequency has a condition and a WHERE clause of its own for *)
(* either table, which name no ticker                                         *)

CountAbcMatches(q) ==
    {h \in headlines :
        /\ q.source \in {"abc", "all"}
        /\ h.source = "abc"
        /\ q.start = NoDate \/ h.time >= Midnight(q.start)
        /\ q.end = NoDate \/ h.time <= Midnight(q.end)}

\* Mutant: the second copy of the clause lacks the INTERVAL '1 day'.
CountUSMatchesToMidnight(q) ==
    {h \in headlines :
        /\ q.source \in {"analyst", "partner", "all"}
        /\ h.source \in USSources
        /\ q.source = "all" \/ h.source = q.source
        /\ q.start = NoDate \/ h.time >= Midnight(q.start)
        /\ q.end = NoDate \/ h.time <= Midnight(q.end)}

CountUSMatches(q) ==
    {h \in headlines :
        /\ q.source \in {"analyst", "partner", "all"}
        /\ h.source \in USSources
        /\ q.source = "all" \/ h.source = q.source
        /\ q.start = NoDate \/ h.time >= Midnight(q.start)
        /\ q.end = NoDate \/ h.time <= Midnight(q.end + 1)}

-----------------------------------------------------------------------------
(* The first k rows of S by rank.  Rows of the same rank come in any order *)

Smaller(m, n) == IF m < n THEN m ELSE n

IsTop(T, S, k) ==
    /\ T \subseteq S
    /\ Cardinality(T) = Smaller(k, Cardinality(S))
    /\ \A t \in T, s \in S \ T : t.rank >= s.rank

-----------------------------------------------------------------------------
NoQuery == [source |-> "all", ticker |-> NoTicker, start |-> NoDate,
            end |-> NoDate, limit |-> 1, granularity |-> 1]

Init ==
    /\ headlines \in SUBSET Universe
    /\ at = "idle" /\ query = NoQuery /\ found = {} /\ counts = <<>>

\* Both tools parse the dates first; a bad one is their answer.
Asks(next) ==
    /\ at = "idle"
    /\ query' \in Query
    /\ at' \in {next, "failed"}
    /\ UNCHANGED <<headlines, found, counts>>

HeadlineSearch == Asks("abc")
HeadlineTopicFrequency == Asks("countAbc")

\* ORDER BY rank DESC LIMIT limit; nothing is asked if source or ticker
\* exclude the corpus.
AbcAnswers ==
    /\ at = "abc"
    /\ found' \in {T \in SUBSET headlines : IsTop(T, AbcMatches(query), Limit(query))}
    /\ at' = "us"
    /\ UNCHANGED <<headlines, query, counts>>

\* Mutant: a corpus that fills the limit makes the other one superfluous.
USAnswersUnlessFull ==
    /\ at = "us"
    /\ \E T \in SUBSET headlines :
         /\ IsTop(T, USMatches(query), Limit(query))
         /\ \E best \in SUBSET headlines :
              /\ found' = best
              /\ IF Cardinality(found) = Limit(query) THEN best = found
                 ELSE IsTop(best, found \cup T, Limit(query))
    /\ at' = "answered"
    /\ UNCHANGED <<headlines, query, counts>>

\* The second corpus; then both are sorted together and cut.
USAnswers ==
    /\ at = "us"
    /\ \E T \in SUBSET headlines :
         /\ IsTop(T, USMatches(query), Limit(query))
         /\ found' \in {best \in SUBSET headlines :
                           IsTop(best, found \cup T, Limit(query))}
    /\ at' = "answered"
    /\ UNCHANGED <<headlines, query, counts>>

\* GROUP BY date_trunc(granularity, date); the label of the source is left out.
Bucket(h, q) == (Date(h.time) - 1) \div q.granularity

Grouped(S, q) ==
    {[bucket |-> b, count |-> Cardinality({h \in S : Bucket(h, q) = b})] :
        b \in {Bucket(h, q) : h \in S}}

CountsAbc ==
    /\ at = "countAbc"
    /\ counts' = Append(counts, Grouped(CountAbcMatches(query), query))
    /\ at' = "countUs"
    /\ UNCHANGED <<headlines, query, found>>

CountsUS ==
    /\ at = "countUs"
    /\ counts' = Append(counts, Grouped(CountUSMatches(query), query))
    /\ at' = "counted"
    /\ UNCHANGED <<headlines, query, found>>

\* A query raises, or the tool times out: the agent gets an error.
QueryFails ==
    /\ at \in {"abc", "us", "countAbc", "countUs"}
    /\ at' = "failed"
    /\ UNCHANGED <<headlines, query, found, counts>>

\* The agent has the answer; the next call starts afresh.
Done ==
    /\ at \in {"answered", "counted", "failed"}
    /\ at' = "idle" /\ query' = NoQuery /\ found' = {} /\ counts' = <<>>
    /\ UNCHANGED headlines

Next ==
    \/ HeadlineSearch \/ AbcAnswers \/ USAnswers
    \/ HeadlineTopicFrequency \/ CountsAbc \/ CountsUS
    \/ QueryFails \/ Done

Spec == Init /\ [][Next]_vars

-----------------------------------------------------------------------------
(* What is true of the answers *)

\* The types of the variables.
TypeOK ==
    /\ headlines \subseteq Universe
    /\ at \in {"idle", "abc", "us", "countAbc", "countUs", "answered",
               "counted", "failed"}
    /\ query \in Query \cup {NoQuery}
    /\ found \subseteq headlines
    /\ Cardinality(found) <= Limit(query)
    /\ \A i \in DOMAIN counts : \A c \in counts[i] : c.count > 0

\* Cutting each corpus to the limit before merging loses nothing: the answer
\* has the highest-ranked rows of all that match, over both corpora.
SearchReturnsTheBest ==
    at = "answered" => IsTop(found, AbcMatches(query) \cup USMatches(query), Limit(query))

Total(rows) == MapThenSumSet(LAMBDA c : c.count, rows)

\* Each table is asked with one WHERE clause by headline_search and with a copy
\* of it by headline_topic_frequency.  Asked the same without a ticker, the
\* frequencies add up, table by table, to the number of rows that the search
\* chooses from: the copies agree, and a headline is counted once.
FrequencyAgreesWithSearch ==
    at = "counted" =>
        LET same == [query EXCEPT !.ticker = NoTicker]
        IN  /\ Total(counts[1]) = Cardinality(AbcMatches(same))
            /\ Total(counts[2]) = Cardinality(USMatches(same))

-----------------------------------------------------------------------------
(* What the documentation says and the code does not do *)

\* prompts.py: "Date ranges are inclusive."  Nothing later than end_date.
NothingAfterEndDate ==
    at = "answered" /\ query.end # NoDate =>
        \A h \in found : Date(h.time) <= query.end
=============================================================================
