-------------------------- MODULE HeadlinesProofs ---------------------------
(***************************************************************************)
(* What the headline tools answer, for tables of any finite size, any      *)
(* ranks and ties, buckets of any length, and any arguments.               *)
(***************************************************************************)
EXTENDS Headlines, FiniteSetTheorems, WellFoundedInduction, TLAPS

-----------------------------------------------------------------------------
(* The first rows of a table *)

LEMMA TopFacts ==
  ASSUME NEW S, IsFiniteSet(S), NEW k \in Nat, NEW T, IsTop(T, S, k)
  PROVE  /\ T \subseteq S /\ IsFiniteSet(T)
         /\ Cardinality(T) \in Nat /\ Cardinality(S) \in Nat
         /\ Cardinality(T) = k \/ T = S
         /\ Cardinality(T) <= k
<1>1. T \subseteq S /\ Cardinality(T) = Smaller(k, Cardinality(S))
  BY DEF IsTop
<1>2. IsFiniteSet(T) /\ (Cardinality(S) = Cardinality(T) => S = T)
  BY <1>1, FS_Subset
<1>3. Cardinality(T) \in Nat /\ Cardinality(S) \in Nat
  BY <1>2, FS_CardinalityType
<1> QED BY <1>1, <1>2, <1>3 DEF Smaller

\* A row that was cut off has k rows of its own corpus above it; so if the
\* merged answer has a row that is ranked lower, it has left out one of those,
\* and that one is ranked no higher.
LEMMA CutOffForGood ==
  ASSUME NEW A, IsFiniteSet(A), NEW k \in Nat, NEW X, IsTop(X, A, k),
         \A a \in A : a.rank \in Nat,
         NEW Y, IsFiniteSet(Y), \A y \in Y : y.rank \in Nat,
         NEW Z, IsTop(Z, X \cup Y, k),
         NEW z \in Z, NEW s \in A \ X
  PROVE  z.rank >= s.rank
<1>1. /\ X \subseteq A /\ IsFiniteSet(X) /\ Cardinality(X) = k
      /\ \A x \in X : x.rank >= s.rank
  BY TopFacts DEF IsTop
<1>2. IsFiniteSet(X \cup Y)
  BY <1>1, FS_Union
<1>3. /\ Z \subseteq X \cup Y /\ IsFiniteSet(Z) /\ Cardinality(Z) <= k
      /\ Cardinality(Z) \in Nat
  BY <1>2, TopFacts
<1>4. CASE z \in X
  BY <1>1, <1>4
<1>5. CASE z \notin X
  <2>1. PICK x \in X : x \notin Z
    <3>1. SUFFICES ASSUME X \subseteq Z
                   PROVE  FALSE
      OBVIOUS
    <3>2. Cardinality(X) <= Cardinality(Z) /\ (Cardinality(Z) = Cardinality(X) => Z = X)
      BY <1>3, <3>1, FS_Subset
    <3> QED BY <1>1, <1>3, <1>5, <3>2
  <2>2. z.rank >= x.rank
    BY <2>1 DEF IsTop
  <2>3. x.rank >= s.rank
    BY <1>1
  <2>4. z.rank \in Nat /\ x.rank \in Nat /\ s.rank \in Nat
    BY <1>1, <1>3
  <2> QED BY <2>2, <2>3, <2>4
<1> QED BY <1>4, <1>5

\* The best of the best of two corpora are the best of both.
LEMMA TopOfTops ==
  ASSUME NEW A, IsFiniteSet(A), \A a \in A : a.rank \in Nat,
         NEW B, IsFiniteSet(B), \A b \in B : b.rank \in Nat,
         NEW k \in Nat, NEW X, IsTop(X, A, k), NEW Y, IsTop(Y, B, k),
         NEW Z, IsTop(Z, X \cup Y, k)
  PROVE  IsTop(Z, A \cup B, k)
<1>1. /\ X \subseteq A /\ IsFiniteSet(X) /\ (Cardinality(X) = k \/ X = A)
      /\ Y \subseteq B /\ IsFiniteSet(Y) /\ (Cardinality(Y) = k \/ Y = B)
  BY TopFacts
<1>2. IsFiniteSet(X \cup Y) /\ IsFiniteSet(A \cup B)
  BY <1>1, FS_Union
<1>3. Z \subseteq X \cup Y /\ Cardinality(Z) = Smaller(k, Cardinality(X \cup Y))
  BY DEF IsTop
<1>4. Cardinality(Z) = Smaller(k, Cardinality(A \cup B))
  <2>1. CASE X = A /\ Y = B
    BY <1>3, <2>1
  <2>2. CASE ~(X = A /\ Y = B)
    <3>1. PICK W \in {X, Y} : Cardinality(W) = k
      BY <1>1, <2>2
    <3>2. /\ Cardinality(W) <= Cardinality(X \cup Y)
          /\ Cardinality(X \cup Y) <= Cardinality(A \cup B)
      <4>1. W \subseteq X \cup Y /\ X \cup Y \subseteq A \cup B
        BY <1>1
      <4> QED BY <1>2, <4>1, FS_Subset
    <3>3. Cardinality(X \cup Y) \in Nat /\ Cardinality(A \cup B) \in Nat
      BY <1>2, FS_CardinalityType
    <3> QED BY <1>3, <3>1, <3>2, <3>3 DEF Smaller
  <2> QED BY <2>1, <2>2
<1>5. ASSUME NEW z \in Z, NEW s \in (A \cup B) \ Z
      PROVE  z.rank >= s.rank
  <2>1. CASE s \in X \cup Y
    BY <1>5, <2>1 DEF IsTop
  <2>2. CASE s \in A \ X
    <3>1. \A y \in Y : y.rank \in Nat
      BY <1>1
    <3> QED BY <1>1, <2>2, <3>1, CutOffForGood
  <2>3. CASE s \in B \ Y
    <3>1. \A x \in X : x.rank \in Nat
      BY <1>1
    <3>2. IsTop(Z, Y \cup X, k)
      <4>1. Y \cup X = X \cup Y
        OBVIOUS
      <4> QED BY <4>1
    <3> QED BY <1>1, <2>3, <3>1, <3>2, CutOffForGood
  <2> QED BY <1>5, <2>1, <2>2, <2>3
<1> QED BY <1>1, <1>3, <1>4, <1>5 DEF IsTop

-----------------------------------------------------------------------------
(* The tool *)

LEMMA LimitIsNatural ==
  ASSUME NEW q, q.limit \in Int
  PROVE  Limit(q) \in Nat
  BY HeadlinesAssumption DEF Limit

\* Each step of the search has the best of what it has asked for so far.
SearchInv ==
    /\ headlines \subseteq Universe
    /\ query.limit \in Int
    /\ at = "us" => IsTop(found, AbcMatches(query), Limit(query))
    /\ at = "answered" =>
         IsTop(found, AbcMatches(query) \cup USMatches(query), Limit(query))

LEMMA SearchInit == Init => SearchInv
  BY DEF Init, SearchInv, NoQuery

LEMMA SearchNext == SearchInv /\ [Next]_vars => SearchInv'
<1> SUFFICES ASSUME SearchInv, [Next]_vars
             PROVE  SearchInv'
  OBVIOUS
<1>m. ASSUME UNCHANGED <<headlines, query>>
      PROVE  /\ AbcMatches(query)' = AbcMatches(query)
             /\ USMatches(query)' = USMatches(query)
             /\ Limit(query)' = Limit(query)
  BY <1>m DEF AbcMatches, USMatches, Limit
<1>1. CASE HeadlineSearch \/ HeadlineTopicFrequency
  <2>1. query'.limit \in Limits
    BY <1>1 DEF HeadlineSearch, HeadlineTopicFrequency, Asks, Query
  <2> QED BY <1>1, <2>1, HeadlinesAssumption
             DEF HeadlineSearch, HeadlineTopicFrequency, Asks, SearchInv
<1>2. CASE AbcAnswers
  <2>1. /\ IsTop(found', AbcMatches(query), Limit(query)) /\ at' = "us"
        /\ UNCHANGED <<headlines, query>>
    BY <1>2 DEF AbcAnswers
  <2> QED BY <1>m, <2>1 DEF SearchInv
<1>3. CASE USAnswers
  <2>1. PICK T : /\ IsTop(T, USMatches(query), Limit(query))
                 /\ IsTop(found', found \cup T, Limit(query))
    BY <1>3 DEF USAnswers
  <2>2. at = "us" /\ at' = "answered" /\ UNCHANGED <<headlines, query>>
    BY <1>3 DEF USAnswers
  <2>3. IsFiniteSet(headlines) /\ \A h \in headlines : h.rank \in Nat
    BY HeadlinesAssumption, FS_Subset DEF SearchInv
  <2>4. AbcMatches(query) \subseteq headlines /\ USMatches(query) \subseteq headlines
    BY DEF AbcMatches, USMatches
  <2>5. IsFiniteSet(AbcMatches(query)) /\ IsFiniteSet(USMatches(query))
    BY <2>3, <2>4, FS_Subset
  <2>6. Limit(query) \in Nat
    BY LimitIsNatural DEF SearchInv
  <2>7. IsTop(found', AbcMatches(query) \cup USMatches(query), Limit(query))
    BY <2>1, <2>2, <2>3, <2>4, <2>5, <2>6, TopOfTops DEF SearchInv
  <2> QED BY <1>m, <2>2, <2>7 DEF SearchInv
<1>4. CASE CountsAbc \/ CountsUS \/ QueryFails
  BY <1>4 DEF CountsAbc, CountsUS, QueryFails, SearchInv
<1>5. CASE Done
  BY <1>5 DEF Done, SearchInv, NoQuery
<1>6. CASE UNCHANGED vars
  BY <1>6, <1>m DEF vars, SearchInv
<1> QED
  BY <1>1, <1>2, <1>3, <1>4, <1>5, <1>6 DEF Next

\* headline_search cuts each corpus to the limit before it merges them, and
\* loses nothing by it: whatever the ties, the answer is the best of both
\* (tools.py, headline_search).
THEOREM SearchLosesNothing == Spec => []SearchReturnsTheBest
<1>1. SearchInv => SearchReturnsTheBest
  BY DEF SearchInv, SearchReturnsTheBest
<1> QED
  BY SearchInit, SearchNext, <1>1, PTL DEF Spec

-----------------------------------------------------------------------------
(* What is counted *)

\* At each step the counts of the tables that were asked, as rows.
Counted ==
    /\ at \in {"idle", "countAbc"} => counts = <<>>
    /\ at = "countUs" => counts = <<Grouped(CountAbcMatches(query), query)>>
    /\ at = "counted" =>
         /\ counts[1] = Grouped(CountAbcMatches(query), query)
         /\ counts[2] = Grouped(CountUSMatches(query), query)

LEMMA CountedInit == Init => Counted
  BY DEF Init, Counted

LEMMA CountedNext == Counted /\ [Next]_vars => Counted'
<1> SUFFICES ASSUME Counted, [Next]_vars
             PROVE  Counted'
  OBVIOUS
<1> DEFINE abc == Grouped(CountAbcMatches(query), query)
           us  == Grouped(CountUSMatches(query), query)
<1>m. UNCHANGED <<headlines, query>> => abc' = abc /\ us' = us
  BY DEF CountAbcMatches, CountUSMatches, Grouped, Bucket
<1>1. CASE CountsAbc
  <2>1. /\ counts' = Append(counts, abc) /\ counts = <<>>
        /\ at' = "countUs" /\ UNCHANGED <<headlines, query>>
    BY <1>1 DEF CountsAbc, Counted
  <2> HIDE DEF abc, us
  <2>2. counts' = <<abc'>>
    BY <1>m, <2>1
  <2> QED BY <2>1, <2>2 DEF Counted, abc
<1>2. CASE CountsUS
  <2>1. /\ counts' = Append(counts, us) /\ counts = <<abc>>
        /\ at' = "counted" /\ UNCHANGED <<headlines, query>>
    BY <1>2 DEF CountsUS, Counted
  <2> HIDE DEF abc, us
  <2>2. abc' = abc /\ us' = us
    BY <1>m, <2>1
  <2>3. counts'[1] = abc' /\ counts'[2] = us'
    BY <2>1, <2>2
  <2> QED BY <2>1, <2>3 DEF Counted, abc, us
<1>3. CASE HeadlineSearch \/ HeadlineTopicFrequency
  BY <1>3 DEF HeadlineSearch, HeadlineTopicFrequency, Asks, Counted
<1>4. CASE AbcAnswers \/ USAnswers \/ QueryFails \/ Done
  BY <1>4 DEF AbcAnswers, USAnswers, QueryFails, Done, Counted
<1>5. CASE UNCHANGED vars
  BY <1>5, <1>m DEF vars, Counted
<1> QED
  BY <1>1, <1>2, <1>3, <1>4, <1>5 DEF Next

-----------------------------------------------------------------------------
(* Types *)

Answers == TypeOK /\ Counted /\ (at = "idle" => found = {})

\* No bucket is empty.
LEMMA BucketsAreCounted ==
  ASSUME NEW S, IsFiniteSet(S), NEW q, NEW c \in Grouped(S, q)
  PROVE  c.count > 0
<1>1. PICK b \in {Bucket(h, q) : h \in S} :
         c.count = Cardinality({h \in S : Bucket(h, q) = b})
  BY DEF Grouped
<1> DEFINE R == {h \in S : Bucket(h, q) = b}
<1>2. IsFiniteSet(R) /\ R # {}
  <2>1. IsFiniteSet(R)
    BY FS_Subset
  <2> QED BY <1>1, <2>1
<1>3. Cardinality(R) \in Nat /\ Cardinality(R) # 0
  BY <1>2, FS_CardinalityType, FS_EmptySet
<1> QED BY <1>1, <1>3

LEMMA LimitOfAQuery ==
  ASSUME NEW q \in Query \cup {NoQuery}
  PROVE  Limit(q) \in Nat
<1>1. q.limit \in Int
  <2>1. CASE q \in Query
    BY <2>1, HeadlinesAssumption DEF Query
  <2>2. CASE q = NoQuery
    BY <2>2 DEF NoQuery
  <2> QED BY <2>1, <2>2
<1> QED BY <1>1, LimitIsNatural

LEMMA AnswersNext == Answers /\ [Next]_vars => Answers'
<1> SUFFICES ASSUME Answers, [Next]_vars
             PROVE  Answers'
  OBVIOUS
<1>t. /\ headlines \subseteq Universe /\ found \subseteq headlines
      /\ query \in Query \cup {NoQuery} /\ Limit(query) \in Nat
      /\ IsFiniteSet(headlines)
  BY LimitOfAQuery, HeadlinesAssumption, FS_Subset DEF Answers, TypeOK
<1>c. Counted'
  BY CountedNext DEF Answers
<1>k. Limit(query)' = Limit(query) \/ query' # query
  BY DEF Limit
<1>b. ASSUME NEW T, NEW S, S \subseteq headlines, IsTop(T, S, Limit(query))
      PROVE  T \subseteq headlines /\ Cardinality(T) <= Limit(query)
  <2>1. IsFiniteSet(S)
    BY <1>t, <1>b, FS_Subset
  <2> QED BY <1>t, <1>b, <2>1, TopFacts
<1>1. CASE HeadlineSearch \/ HeadlineTopicFrequency
  <2>1. query' \in Query /\ found = {} /\ found' = {}
    BY <1>1 DEF HeadlineSearch, HeadlineTopicFrequency, Asks, Answers
  <2>2. Limit(query') \in Nat
    BY <2>1, LimitOfAQuery
  <2>3. Cardinality(found') <= Limit(query)'
    BY <2>1, <2>2, FS_EmptySet DEF Limit
  <2> QED BY <1>c, <1>1, <2>1, <2>3
          DEF HeadlineSearch, HeadlineTopicFrequency, Asks, Answers, TypeOK
<1>2. CASE AbcAnswers
  <2>1. /\ IsTop(found', AbcMatches(query), Limit(query)) /\ at' = "us"
        /\ UNCHANGED <<headlines, query, counts>>
    BY <1>2 DEF AbcAnswers
  <2>2. found' \subseteq headlines /\ Cardinality(found') <= Limit(query)
    BY <1>b, <2>1 DEF AbcMatches
  <2> QED BY <1>c, <1>k, <2>1, <2>2 DEF Answers, TypeOK
<1>3. CASE USAnswers
  <2>1. PICK T : /\ IsTop(T, USMatches(query), Limit(query))
                 /\ IsTop(found', found \cup T, Limit(query))
    BY <1>3 DEF USAnswers
  <2>2. at' = "answered" /\ UNCHANGED <<headlines, query, counts>>
    BY <1>3 DEF USAnswers
  <2>3. T \subseteq headlines
    BY <1>b, <2>1 DEF USMatches
  <2>4. found' \subseteq headlines /\ Cardinality(found') <= Limit(query)
    BY <1>b, <1>t, <2>1, <2>3
  <2> QED BY <1>c, <1>k, <2>2, <2>4 DEF Answers, TypeOK
<1>g. \A S \in SUBSET headlines : \A c \in Grouped(S, query) : c.count > 0
  BY <1>t, FS_Subset, BucketsAreCounted
<1>4. CASE CountsAbc
  <2> DEFINE abc == Grouped(CountAbcMatches(query), query)
  <2>1. \A c \in abc : c.count > 0
    BY <1>g DEF CountAbcMatches
  <2>2. /\ at' = "countUs" /\ UNCHANGED <<headlines, query, found>>
        /\ counts' = Append(counts, abc) /\ counts = <<>>
    BY <1>4 DEF CountsAbc, Answers, Counted
  <2> HIDE DEF abc
  <2>3. \A i \in DOMAIN counts' : counts'[i] = abc
    BY <2>2
  <2> QED BY <1>k, <1>c, <2>1, <2>2, <2>3 DEF Answers, TypeOK
<1>5. CASE CountsUS
  <2> DEFINE abc == Grouped(CountAbcMatches(query), query)
             us  == Grouped(CountUSMatches(query), query)
  <2>1. /\ \A c \in abc : c.count > 0
        /\ \A c \in us : c.count > 0
    BY <1>g DEF CountAbcMatches, CountUSMatches
  <2>2. /\ at' = "counted" /\ UNCHANGED <<headlines, query, found>>
        /\ counts' = Append(counts, us) /\ counts = <<abc>>
    BY <1>5 DEF CountsUS, Answers, Counted
  <2> HIDE DEF abc, us
  <2>3. \A i \in DOMAIN counts' : counts'[i] \in {abc, us}
    BY <2>2
  <2> QED BY <1>k, <1>c, <2>1, <2>2, <2>3 DEF Answers, TypeOK
<1>6. CASE QueryFails
  BY <1>6, <1>c, <1>k DEF QueryFails, Answers, TypeOK
<1>7. CASE Done
  <2>1. Limit(NoQuery) \in Nat
    BY LimitOfAQuery
  <2>2. Cardinality(found') <= Limit(query)'
    BY <1>7, <2>1, FS_EmptySet DEF Done, Limit
  <2> QED BY <1>7, <1>c, <2>2 DEF Done, Answers, TypeOK
<1>8. CASE UNCHANGED vars
  BY <1>8, <1>c, <1>k DEF vars, Answers, TypeOK
<1> QED
  BY <1>1, <1>2, <1>3, <1>4, <1>5, <1>6, <1>7, <1>8 DEF Next

\* The tools never answer more rows than were asked for, or with a bucket that
\* holds nothing.
THEOREM HeadlinesTypeCorrect == Spec => []TypeOK
<1>1. Init => Answers
  <2> SUFFICES ASSUME Init
               PROVE  Answers
    OBVIOUS
  <2>1. Limit(NoQuery) \in Nat
    BY LimitOfAQuery
  <2> QED BY <2>1, CountedInit, FS_EmptySet DEF Init, Answers, TypeOK
<1>2. Answers => TypeOK
  BY DEF Answers
<1> QED
  BY <1>1, <1>2, AnswersNext, PTL DEF Spec

-----------------------------------------------------------------------------
(* The sum over the buckets *)

\* The recursion that MapThenSumSet chooses a function for.
Some(s) == CHOOSE c \in s : TRUE

Sums(f, S) ==
    f = [s \in SUBSET S |->
           IF s = {} THEN 0 ELSE Some(s).count + f[s \ {Some(s)}]]

LEMMA TotalIsASum ==
  ASSUME NEW S
  PROVE  Total(S) = (CHOOSE f : Sums(f, S))[S]
  BY Zenon DEF Total, MapThenSumSet, MapThenFoldSet, Sums, Some

\* There is one such function at most: where two differed on a set of elements,
\* they would differ on a smaller one.
LEMMA SumsAgree ==
  ASSUME NEW S, IsFiniteSet(S), NEW f, Sums(f, S), NEW g, Sums(g, S)
  PROVE  f[S] = g[S]
<1> DEFINE Apart == {s \in SUBSET S : f[s] # g[s]}
<1>1. SUFFICES ASSUME Apart # {}
               PROVE  FALSE
  OBVIOUS
<1>2. PICK s \in Apart : \A t \in Apart : <<t, s>> \notin StrictSubsetOrdering(S)
  <2>1. IsWellFoundedOn(StrictSubsetOrdering(S), FiniteSubsetsOf(S))
    BY FS_StrictSubsetOrderingWellFounded
  <2>2. Apart \subseteq FiniteSubsetsOf(S)
    BY FS_Subset DEF FiniteSubsetsOf
  <2> HIDE DEF Apart
  <2> QED BY <1>1, <2>1, <2>2, WFMin
<1>3. CASE s = {}
  BY <1>2, <1>3 DEF Sums
<1>4. CASE s # {}
  <2> DEFINE t == s \ {Some(s)}
  <2>1. Some(s) \in s
    BY <1>4 DEF Some
  <2>2. t \in SUBSET S /\ t # s
    BY <1>2, <2>1
  <2>3. f[t] = g[t]
    <3>1. <<t, s>> \in StrictSubsetOrdering(S)
      BY <1>2, <2>2 DEF StrictSubsetOrdering
    <3> QED BY <1>2, <2>2, <3>1
  <2>4. f[s] = Some(s).count + f[t] /\ g[s] = Some(s).count + g[t]
    BY <1>2, <1>4 DEF Sums
  <2> QED BY <1>2, <2>3, <2>4
<1> QED BY <1>3, <1>4

\* Things that are put into groups, each into one, and groups that know how
\* many they hold: the groups' numbers add up to the number of things.
LEMMA GroupsAddUp ==
  ASSUME NEW M, IsFiniteSet(M), NEW C, IsFiniteSet(C),
         NEW group, \A m \in M : group[m] \in C,
         \A c \in C : c.count = Cardinality({m \in M : group[m] = c})
  PROVE  Total(C) = Cardinality(M)
<1> DEFINE In(s) == {m \in M : group[m] \in s}
           size  == [s \in SUBSET C |-> Cardinality(In(s))]
<1>1. ASSUME NEW s \in SUBSET C, s # {}
      PROVE  Cardinality(In(s)) = Some(s).count + Cardinality(In(s \ {Some(s)}))
  <2> DEFINE this == {m \in M : group[m] = Some(s)}
             rest == In(s \ {Some(s)})
  <2>1. Some(s) \in s
    BY <1>1 DEF Some
  <2>2. In(s) = this \cup rest /\ this \cap rest = {}
    BY <2>1
  <2>3. IsFiniteSet(this) /\ IsFiniteSet(rest)
    BY FS_Subset
  <2>4. Cardinality(this) \in Nat /\ Cardinality(rest) \in Nat
    BY <2>3, FS_CardinalityType
  <2>5. Some(s).count = Cardinality(this)
    BY <2>1
  <2> HIDE DEF this, rest, In
  <2>6. Cardinality(this \cup rest) = Cardinality(this) + Cardinality(rest) - Cardinality({})
    BY <2>2, <2>3, FS_Union
  <2>7. Cardinality(this \cup rest) = Cardinality(this) + Cardinality(rest)
    BY <2>4, <2>6, FS_EmptySet
  <2> QED BY <2>2, <2>5, <2>7 DEF rest
<1>2. Cardinality(In({})) = 0
  <2>1. In({}) = {}
    OBVIOUS
  <2> QED BY <2>1, FS_EmptySet
<1>3. Sums(size, C)
  <2>1. ASSUME NEW s \in SUBSET C
        PROVE  size[s] = IF s = {} THEN 0 ELSE Some(s).count + size[s \ {Some(s)}]
    BY <1>1, <1>2
  <2> QED BY <2>1 DEF Sums
<1>4. Sums(CHOOSE f : Sums(f, C), C)
  <2> HIDE DEF size
  <2> QED BY <1>3
<1>5. (CHOOSE f : Sums(f, C))[C] = size[C]
  <2> HIDE DEF size
  <2> QED BY <1>3, <1>4, SumsAgree
<1>6. In(C) = M
  OBVIOUS
<1> QED BY <1>5, <1>6, TotalIsASum

-----------------------------------------------------------------------------
(* The frequencies *)

\* The query that headline_topic_frequency is: no ticker narrows it.
Unticked(q) == [q EXCEPT !.ticker = NoTicker]

LEMMA UntickedFacts ==
  ASSUME NEW q \in Query \cup {NoQuery}
  PROVE  /\ Unticked(q).ticker = NoTicker
         /\ Unticked(q).source = q.source
         /\ Unticked(q).start = q.start
         /\ Unticked(q).end = q.end
  BY DEF Unticked, Query, NoQuery

\* The conditions and WHERE clauses of headline_topic_frequency select, in
\* either table, what those of headline_search do without a ticker.
LEMMA SameRows ==
  ASSUME NEW q \in Query \cup {NoQuery}
  PROVE  /\ CountAbcMatches(q) = AbcMatches(Unticked(q))
         /\ CountUSMatches(q) = USMatches(Unticked(q))
<1>1. CountAbcMatches(q) = AbcMatches(Unticked(q))
  BY UntickedFacts DEF CountAbcMatches, AbcMatches, AsksAbc, InAbcRange
<1>2. CountUSMatches(q) = USMatches(Unticked(q))
  BY UntickedFacts
     DEF CountUSMatches, USMatches, AsksUS, InUSSource, InUSRange, USSources
<1> QED BY <1>1, <1>2

\* Every row of a query is in one bucket: that of its days.
LEMMA BucketsAddUp ==
  ASSUME NEW S, IsFiniteSet(S), NEW q
  PROVE  Total(Grouped(S, q)) = Cardinality(S)
<1> DEFINE C == Grouped(S, q)
           its == [m \in S |->
                     [bucket |-> Bucket(m, q),
                      count |-> Cardinality({h \in S : Bucket(h, q) = Bucket(m, q)})]]
<1>1. \A m \in S : its[m] \in C
  BY DEF Grouped
<1>2. \A c \in C : \E m \in S : its[m] = c
  BY DEF Grouped
<1>3. IsFiniteSet(C)
  <2> HIDE DEF C
  <2>1. its \in Surjection(S, C)
    <3>1. its \in [S -> C]
      BY <1>1
    <3> HIDE DEF its
    <3> QED BY <1>2, <3>1 DEF Surjection
  <2> HIDE DEF its
  <2> QED BY <2>1, FS_Surjection
<1>4. ASSUME NEW c \in C
      PROVE  c.count = Cardinality({m \in S : its[m] = c})
  <2>1. PICK n \in S : its[n] = c
    BY <1>2
  <2>2. /\ c.bucket = Bucket(n, q)
        /\ c.count = Cardinality({h \in S : Bucket(h, q) = Bucket(n, q)})
    BY <2>1
  <2>3. \A m \in S : its[m] = c <=> Bucket(m, q) = Bucket(n, q)
    BY <2>1
  <2>4. {m \in S : its[m] = c} = {h \in S : Bucket(h, q) = Bucket(n, q)}
    BY <2>3
  <2> QED BY <2>2, <2>4
<1> HIDE DEF C, its
<1>5. Total(C) = Cardinality(S)
  BY <1>1, <1>3, <1>4, GroupsAddUp
<1> QED BY <1>5 DEF C

\* headline_topic_frequency, whose queries repeat the clauses of
\* headline_search, counts in either table each row that headline_search would
\* choose from, asked the same without a ticker, in one bucket, once, however
\* long the buckets are (tools.py, headline_topic_frequency).
THEOREM FrequenciesAgree == Spec => []FrequencyAgreesWithSearch
<1>1. TypeOK /\ Counted => FrequencyAgreesWithSearch
  <2> SUFFICES ASSUME TypeOK, Counted, at = "counted"
               PROVE  /\ Total(counts[1]) = Cardinality(AbcMatches(Unticked(query)))
                      /\ Total(counts[2]) = Cardinality(USMatches(Unticked(query)))
    BY Zenon DEF FrequencyAgreesWithSearch, Unticked
  <2> DEFINE A == CountAbcMatches(query)
             U == CountUSMatches(query)
  <2>1. IsFiniteSet(headlines) /\ query \in Query \cup {NoQuery}
    BY HeadlinesAssumption, FS_Subset DEF TypeOK
  <2>2. A \subseteq headlines /\ U \subseteq headlines
    BY DEF CountAbcMatches, CountUSMatches
  <2>3. IsFiniteSet(A) /\ IsFiniteSet(U)
    BY <2>1, <2>2, FS_Subset
  <2>4. A = AbcMatches(Unticked(query)) /\ U = USMatches(Unticked(query))
    BY <2>1, SameRows
  <2>5. counts[1] = Grouped(A, query) /\ counts[2] = Grouped(U, query)
    BY DEF Counted
  <2> HIDE DEF A, U
  <2>6. Total(Grouped(A, query)) = Cardinality(A) /\ Total(Grouped(U, query)) = Cardinality(U)
    BY <2>3, BucketsAddUp
  <2> QED BY <2>4, <2>5, <2>6
<1> QED
  BY <1>1, CountedInit, CountedNext, HeadlinesTypeCorrect, PTL DEF Spec
=============================================================================
