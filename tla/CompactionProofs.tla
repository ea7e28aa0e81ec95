-------------------------- MODULE CompactionProofs --------------------------
(***************************************************************************)
(* What the operators of Compaction return, for every conversation and     *)
(* every configuration: where the cut falls, what the compacted            *)
(* conversation is position by position, and that no compaction separates  *)
(* a tool result from the call it answers.                                 *)
(***************************************************************************)
EXTENDS Compaction, WellFoundedInduction, SequenceTheorems, TLAPS

-----------------------------------------------------------------------------
(* The cut and what it leaves *)

\* The walk-back loop stops: there is a first cut, going down from the given
\* one, that is 0 or whose tail answers only its own calls, and no cut the loop
\* passed over has such a tail.
LEMMA WalkBackStops ==
    ASSUME NEW ms, NEW cut \in Nat
    PROVE  /\ WalkBackSteps(ms, cut) \in 0..cut
           /\ \/ WalkBackSteps(ms, cut) = cut
              \/ PairSafe(ms, cut - WalkBackSteps(ms, cut))
           /\ \A j \in 0..(WalkBackSteps(ms, cut) - 1) : ~PairSafe(ms, cut - j)
<1> DEFINE Good(k) == k = cut \/ PairSafe(ms, cut - k)
           S == {k \in 0..cut : Good(k)}
<1>1. S \subseteq Nat /\ S # {}
  <2>1. cut \in S
    OBVIOUS
  <2> QED BY <2>1
<1> HIDE DEF Good
<1>2. PICK k \in S : \A j \in S : ~(<<j, k>> \in OpToRel(<, Nat))
  BY <1>1, NatLessThanWellFounded, WFMin
<1>3. \A j \in S : ~(j < k)
  BY <1>1, <1>2 DEF OpToRel
<1>4. k \in 0..cut /\ Good(k) /\ \A j \in 0..(k - 1) : ~Good(j)
  BY <1>3
<1>5. \A j \in 0..(k - 1) : ~PairSafe(ms, cut - j)
  BY <1>4 DEF Good
<1>6. \E i \in 0..cut : /\ i = cut \/ PairSafe(ms, cut - i)
                        /\ \A j \in 0..(i - 1) : ~PairSafe(ms, cut - j)
  BY <1>4, <1>5 DEF Good
<1> QED
  BY <1>6 DEF WalkBackSteps

\* The kept tail, position by position.
LEMMA FromProperties ==
    ASSUME NEW ms \in Seq(Message), NEW cut \in 0..Len(ms)
    PROVE  /\ From(ms, cut) \in Seq(Message)
           /\ Len(From(ms, cut)) = Len(ms) - cut
           /\ \A i \in 1..(Len(ms) - cut) : From(ms, cut)[i] = ms[cut + i]
<1>1. CASE cut = Len(ms)
  <2>1. From(ms, cut) = <<>>
    BY <1>1, SubSeqProperties, EmptySeq DEF From
  <2> QED BY <1>1, <2>1
<1>2. CASE cut < Len(ms)
  <2>1. cut + 1 \in 1..Len(ms) + 1 /\ Len(ms) \in cut..Len(ms)
    BY <1>2, LenProperties
  <2> QED
    BY <1>2, <2>1, SubSeqProperties, LenProperties DEF From
<1> QED BY <1>1, <1>2, LenProperties

\* The part that is summarised.
LEMMA BeforeProperties ==
    ASSUME NEW ms \in Seq(Message), NEW cut \in 0..Len(ms)
    PROVE  /\ Before(ms, cut) \in Seq(Message)
           /\ Len(Before(ms, cut)) = cut
           /\ \A i \in 1..cut : Before(ms, cut)[i] = ms[i]
BY SubSeqProperties, LenProperties DEF Before

\* Where a conversation longer than the preserved tail is cut: never past its
\* end, never later than asked for, and never between a result and its call.
LEMMA CutProperties ==
    ASSUME NEW ms \in Seq(Message), Len(ms) > PreserveRecent
    PROVE  /\ CutOf(ms) \in 0..Len(ms)
           /\ CutOf(ms) <= RawCut(ms)
           /\ CutOf(ms) = 0 \/ PairSafe(ms, CutOf(ms))
<1>0. Len(ms) \in Nat
  BY LenProperties
<1>1. /\ RawCut(ms) \in Nat /\ RawCut(ms) <= Len(ms)
      /\ RawCut(ms) < Len(ms) => RawCut(ms) > 0
  BY <1>0, ConfigAssumption DEF RawCut
<1>2. CASE RawCut(ms) = Len(ms)
  <2>1. CutOf(ms) = Len(ms)
    BY <1>1, <1>2 DEF CutOf, WalkBackForPairSafety
  <2>2. ToolResultIds(From(ms, Len(ms))) = {}
    <3>1. Len(From(ms, Len(ms))) = 0 /\ From(ms, Len(ms)) \in Seq(Message)
      BY FromProperties, LenProperties
    <3> QED BY <3>1, LenProperties DEF ToolResultIds
  <2> QED
    BY <1>1, <1>2, <2>1, <2>2, LenProperties DEF PairSafe, HasOrphanToolResults
<1>3. CASE RawCut(ms) < Len(ms)
  <2>1. CutOf(ms) = RawCut(ms) - WalkBackSteps(ms, RawCut(ms))
    BY <1>1, <1>3, LenProperties DEF CutOf, WalkBackForPairSafety
  <2>2. WalkBackSteps(ms, RawCut(ms)) \in 0..RawCut(ms)
    BY <1>1, WalkBackStops
  <2>3. \/ WalkBackSteps(ms, RawCut(ms)) = RawCut(ms)
        \/ PairSafe(ms, RawCut(ms) - WalkBackSteps(ms, RawCut(ms)))
    BY <1>1, WalkBackStops
  <2> QED
    BY <1>1, <2>1, <2>2, <2>3, LenProperties
<1> QED BY <1>1, <1>2, <1>3, LenProperties

\* The summary is a message like any other, without calls or results.
LEMMA SummaryType ==
    ASSUME NEW ms \in Seq(Message), Len(ms) > 0
    PROVE  /\ SummaryOf(ms) \in Message
           /\ SummaryOf(ms).uses = {}
           /\ SummaryOf(ms).answers = {}
<1>1. SummaryWeight + LineWeight * Len(ms) \in Nat
  BY ConfigAssumption, LenProperties
<1>2. \A i \in DOMAIN ms : /\ ms[i].opening \subseteq Topics
                           /\ ms[i].ending \subseteq Topics
  <2>1. \A i \in DOMAIN ms : ms[i] \in Message
    BY ElementOfSeq, LenProperties
  <2> HIDE DEF Topics, CallIds, Roles
  <2> QED BY <2>1 DEF Message
<1>3. PreambleTopic \in Topics
  BY DEF PreambleTopic, Topics
<1>4. RecentUserRequests(ms) \subseteq Topics
  BY <1>2 DEF RecentUserRequests
<1>5. MostRecentWork(ms) \subseteq Topics
  BY <1>2 DEF MostRecentWork
<1>6. Timeline(ms) \subseteq Topics
  BY <1>2 DEF Timeline
<1>7. ms[Len(ms)].opening \subseteq Topics
  BY <1>2, LenProperties
<1>8. {} \in SUBSET CallIds /\ "user" \in Roles
  BY DEF Roles
<1> HIDE DEF PreambleTopic, Topics, CallIds, Roles
<1> QED
  BY <1>1, <1>3, <1>4, <1>5, <1>6, <1>7, <1>8 DEF SummaryOf, Message

\* A compacted conversation, position by position: the summary, then the tail.
LEMMA SummaryAndTailProperties ==
    ASSUME NEW ms \in Seq(Message), Len(ms) > PreserveRecent, CutOf(ms) > 0
    PROVE  /\ SummaryAndTail(ms) \in Seq(Message)
           /\ Len(SummaryAndTail(ms)) = 1 + Len(ms) - CutOf(ms)
           /\ SummaryAndTail(ms)[1] = SummaryOf(Before(ms, CutOf(ms)))
           /\ SummaryAndTail(ms)[1].uses = {}
           /\ SummaryAndTail(ms)[1].answers = {}
           /\ \A i \in 2..(1 + Len(ms) - CutOf(ms)) :
                SummaryAndTail(ms)[i] = ms[CutOf(ms) + i - 1]
<1> DEFINE cut == CutOf(ms)
           sum == SummaryOf(Before(ms, cut))
           kept == From(ms, cut)
<1>0. Len(ms) \in Nat /\ DOMAIN ms = 1..Len(ms)
  BY LenProperties
<1>1. cut \in 1..Len(ms)
  BY <1>0, CutProperties
<1>2. sum \in Message /\ sum.uses = {} /\ sum.answers = {}
  <2>1. Before(ms, cut) \in Seq(Message) /\ Len(Before(ms, cut)) = cut
    BY <1>0, <1>1, BeforeProperties
  <2> HIDE DEF cut
  <2> QED BY <1>1, <2>1, SummaryType DEF sum
<1>3. /\ kept \in Seq(Message)
      /\ Len(kept) = Len(ms) - cut
      /\ \A i \in 1..(Len(ms) - cut) : kept[i] = ms[cut + i]
  <2>1. cut \in 0..Len(ms)
    BY <1>0, <1>1
  <2> HIDE DEF cut
  <2> QED BY <2>1, FromProperties DEF kept
<1>4. SummaryAndTail(ms) = <<sum>> \o kept
  BY DEF SummaryAndTail
<1>5. <<sum>> \in Seq(Message) /\ Len(<<sum>>) = 1 /\ <<sum>>[1] = sum
  BY <1>2
<1> HIDE DEF cut, sum, kept
<1>6. /\ SummaryAndTail(ms) \in Seq(Message)
      /\ Len(SummaryAndTail(ms)) = 1 + Len(kept)
      /\ SummaryAndTail(ms)[1] = sum
      /\ \A i \in 2..(1 + Len(kept)) : SummaryAndTail(ms)[i] = kept[i - 1]
  BY <1>3, <1>4, <1>5, ConcatProperties, LenProperties
<1>7. \A i \in 2..(1 + Len(ms) - cut) : SummaryAndTail(ms)[i] = ms[cut + i - 1]
  <2> TAKE i \in 2..(1 + Len(ms) - cut)
  <2>1. i - 1 \in 1..(Len(ms) - cut) /\ cut + (i - 1) = cut + i - 1
    BY <1>1, LenProperties
  <2>2. SummaryAndTail(ms)[i] = kept[i - 1]
    BY <1>1, <1>3, <1>6, LenProperties
  <2>3. kept[i - 1] = ms[cut + (i - 1)]
    BY <1>3, <2>1
  <2> QED BY <2>1, <2>2, <2>3
<1> QED
  BY <1>1, <1>2, <1>3, <1>6, <1>7, LenProperties DEF cut, sum

\* The walk-back does what the backstop doubts: the tail of a compaction
\* answers only calls it holds, so the orphan check can never fire.
THEOREM WalkBackLeavesNoOrphan ==
    ASSUME NEW ms \in Seq(Message), Len(ms) > PreserveRecent, CutOf(ms) > 0
    PROVE  ~HasOrphanToolResults(SummaryAndTail(ms))
<1> DEFINE cut == CutOf(ms)
           new == SummaryAndTail(ms)
           kept == From(ms, cut)
<1>0. Len(ms) \in Nat /\ DOMAIN ms = 1..Len(ms)
  BY LenProperties
<1>1. cut \in 1..Len(ms) /\ PairSafe(ms, cut)
  BY <1>0, CutProperties
<1>2. /\ new \in Seq(Message)
      /\ Len(new) = 1 + Len(ms) - cut
      /\ new[1].answers = {}
      /\ \A i \in 2..(1 + Len(ms) - cut) : new[i] = ms[cut + i - 1]
  BY SummaryAndTailProperties
<1>3. /\ kept \in Seq(Message)
      /\ Len(kept) = Len(ms) - cut
      /\ \A i \in 1..(Len(ms) - cut) : kept[i] = ms[cut + i]
  <2>1. cut \in 0..Len(ms)
    BY <1>0, <1>1
  <2> HIDE DEF cut
  <2> QED BY <2>1, FromProperties DEF kept
<1>4. \A id \in ToolResultIds(kept) : id \in ToolUseIds(kept)
  BY <1>1 DEF PairSafe, HasOrphanToolResults
<1> HIDE DEF cut, new, kept
<1>5. SUFFICES ASSUME NEW i \in DOMAIN new, NEW id \in new[i].answers
               PROVE  id \in ToolUseIds(new)
  BY DEF new, HasOrphanToolResults, ToolResultIds
<1>6. i \in 2..(1 + Len(ms) - cut)
  BY <1>1, <1>2, LenProperties
<1>7. i - 1 \in DOMAIN kept /\ new[i] = kept[i - 1]
  <2>1. i - 1 \in 1..(Len(ms) - cut) /\ cut + (i - 1) = cut + i - 1
    BY <1>0, <1>1, <1>6
  <2>2. DOMAIN kept = 1..Len(kept)
    BY <1>3, LenProperties
  <2> QED BY <1>2, <1>3, <1>6, <2>1, <2>2
<1>8. id \in ToolResultIds(kept)
  BY <1>5, <1>7 DEF ToolResultIds
<1>9. PICK j \in DOMAIN kept : id \in kept[j].uses
  BY <1>4, <1>8 DEF ToolUseIds
<1>10. j + 1 \in DOMAIN new /\ new[j + 1] = kept[j]
  <2>1. DOMAIN kept = 1..Len(kept) /\ DOMAIN new = 1..Len(new)
    BY <1>2, <1>3, LenProperties
  <2>2. j + 1 \in 2..(1 + Len(ms) - cut) /\ cut + (j + 1) - 1 = cut + j
    BY <1>0, <1>1, <1>3, <2>1
  <2>3. new[j + 1] = ms[cut + j] /\ kept[j] = ms[cut + j]
    BY <1>2, <1>3, <2>1, <2>2
  <2> QED BY <1>0, <1>1, <1>2, <2>1, <2>2, <2>3
<1> QED
  BY <1>9, <1>10 DEF ToolUseIds

\* Either nothing was compacted, or the result is the summary and the tail.
LEMMA CompactMessagesCases ==
    ASSUME NEW ms \in Seq(Message)
    PROVE  \/ /\ CompactMessages(ms).messages = ms
              /\ CompactMessages(ms).removed = 0
           \/ /\ Len(ms) > PreserveRecent
              /\ CutOf(ms) > 0
              /\ CompactMessages(ms).messages = SummaryAndTail(ms)
              /\ CompactMessages(ms).removed = CutOf(ms)
<1>1. CASE Len(ms) <= PreserveRecent \/ CutOf(ms) = 0
  BY <1>1 DEF CompactMessages, Uncompacted
<1>2. CASE ~(Len(ms) <= PreserveRecent \/ CutOf(ms) = 0)
  <2>1. Len(ms) \in Nat
    BY LenProperties
  <2>2. Len(ms) > PreserveRecent
    BY <1>2, <2>1, ConfigAssumption
  <2>3. CutOf(ms) > 0
    BY <1>2, <2>1, <2>2, CutProperties
  <2> QED
    BY <1>2, <2>2, <2>3 DEF CompactMessages, Uncompacted
<1> QED BY <1>1, <1>2

\* What a compaction returns is a conversation, and it is not empty.
LEMMA CompactMessagesType ==
    ASSUME NEW ms \in Seq(Message)
    PROVE  CompactMessages(ms).messages \in Seq(Message)
BY CompactMessagesCases, SummaryAndTailProperties

-----------------------------------------------------------------------------
(* Pairs of a tool call and its result *)

\* Paired, of any conversation.
PairedIn(ms) ==
    \A j \in DOMAIN ms : \A id \in ms[j].answers :
        \E i \in 1..(j - 1) : id \in ms[i].uses

\* A call id belongs to one message: without this a tail that holds a result
\* and some later call of the same id would look safe to the walk-back.
UniqueIn(ms) ==
    \A i, j \in DOMAIN ms : \A id \in ms[i].uses : id \in ms[j].uses => i = j

\* Compaction keeps pairs in order and ids unique: a kept result's call is in
\* the tail by the walk-back, and it is the very call that stood before the
\* result, because ids are unique.
LEMMA CompactionKeepsPairs ==
    ASSUME NEW ms \in Seq(Message), PairedIn(ms), UniqueIn(ms),
           Len(ms) > PreserveRecent, CutOf(ms) > 0
    PROVE  /\ PairedIn(SummaryAndTail(ms))
           /\ UniqueIn(SummaryAndTail(ms))
           /\ \A i \in DOMAIN SummaryAndTail(ms) :
                \A id \in SummaryAndTail(ms)[i].uses :
                    \E k \in DOMAIN ms : id \in ms[k].uses
<1> DEFINE cut == CutOf(ms)
           new == SummaryAndTail(ms)
<1>1. /\ Len(ms) \in Nat /\ DOMAIN ms = 1..Len(ms)
      /\ cut \in 1..Len(ms)
  <2>1. Len(ms) \in Nat /\ DOMAIN ms = 1..Len(ms)
    BY LenProperties
  <2> QED BY <2>1, CutProperties
<1>2. /\ new \in Seq(Message)
      /\ Len(new) = 1 + Len(ms) - cut
      /\ new[1].uses = {} /\ new[1].answers = {}
      /\ \A i \in 2..(1 + Len(ms) - cut) : new[i] = ms[cut + i - 1]
  BY SummaryAndTailProperties
<1>3. DOMAIN new = 1..(1 + Len(ms) - cut)
  BY <1>2, LenProperties
<1>4. ToolResultIds(new) \subseteq ToolUseIds(new)
  BY WalkBackLeavesNoOrphan DEF HasOrphanToolResults
<1> HIDE DEF cut, new
<1>5. ASSUME NEW i \in DOMAIN new, new[i].uses # {} \/ new[i].answers # {}
      PROVE  /\ i \in 2..(1 + Len(ms) - cut)
             /\ cut + i - 1 \in DOMAIN ms
             /\ new[i] = ms[cut + i - 1]
  <2>1. i \in 2..(1 + Len(ms) - cut)
    BY <1>1, <1>2, <1>3, <1>5
  <2> QED BY <1>1, <1>2, <2>1
<1>6. PairedIn(new)
  <2>1. SUFFICES ASSUME NEW j \in DOMAIN new, NEW id \in new[j].answers
                 PROVE  \E i \in 1..(j - 1) : id \in new[i].uses
    BY DEF PairedIn
  <2>2. /\ j \in 2..(1 + Len(ms) - cut) /\ cut + j - 1 \in DOMAIN ms
        /\ new[j] = ms[cut + j - 1]
    BY <1>5, <2>1
  <2>3. PICK k \in 1..((cut + j - 1) - 1) : id \in ms[k].uses
    <3>1. \A p \in DOMAIN ms : \A d \in ms[p].answers :
            \E q \in 1..(p - 1) : d \in ms[q].uses
      BY DEF PairedIn
    <3>2. id \in ms[cut + j - 1].answers
      BY <2>1, <2>2
    <3> QED BY <2>2, <3>1, <3>2
  <2>4. PICK i \in DOMAIN new : id \in new[i].uses
    BY <1>4, <2>1 DEF ToolResultIds, ToolUseIds
  <2>5. /\ i \in 2..(1 + Len(ms) - cut) /\ cut + i - 1 \in DOMAIN ms
        /\ new[i] = ms[cut + i - 1]
    BY <1>5, <2>4
  <2>6. k \in DOMAIN ms
    BY <1>1, <2>2, <2>3
  <2>7. k = cut + i - 1
    BY <2>3, <2>4, <2>5, <2>6 DEF UniqueIn
  <2>8. i \in 1..(j - 1)
    BY <1>1, <2>2, <2>3, <2>5, <2>7
  <2> QED BY <2>4, <2>8
<1>7. UniqueIn(new)
  <2>1. SUFFICES ASSUME NEW i \in DOMAIN new, NEW j \in DOMAIN new,
                        NEW id \in new[i].uses, id \in new[j].uses
                 PROVE  i = j
    BY DEF UniqueIn
  <2>2. /\ i \in 2..(1 + Len(ms) - cut) /\ cut + i - 1 \in DOMAIN ms
        /\ new[i] = ms[cut + i - 1]
    BY <1>5, <2>1
  <2>3. /\ j \in 2..(1 + Len(ms) - cut) /\ cut + j - 1 \in DOMAIN ms
        /\ new[j] = ms[cut + j - 1]
    BY <1>5, <2>1
  <2>4. cut + i - 1 = cut + j - 1
    BY <2>1, <2>2, <2>3 DEF UniqueIn
  <2> QED BY <1>1, <2>2, <2>3, <2>4
<1>8. \A i \in DOMAIN new : \A id \in new[i].uses :
        \E k \in DOMAIN ms : id \in ms[k].uses
  BY <1>5
<1> QED
  BY <1>6, <1>7, <1>8 DEF new

\* Appending a message whose calls are new and whose results answer calls
\* already made keeps both.
LEMMA AppendKeepsPairs ==
    ASSUME NEW ms \in Seq(Message), NEW m \in Message,
           PairedIn(ms), UniqueIn(ms),
           \A i \in DOMAIN ms : ms[i].uses \cap m.uses = {},
           \A id \in m.answers : \E i \in DOMAIN ms : id \in ms[i].uses
    PROVE  PairedIn(Append(ms, m)) /\ UniqueIn(Append(ms, m))
<1> DEFINE new == Append(ms, m)
<1>1. Len(ms) \in Nat /\ DOMAIN ms = 1..Len(ms)
  BY LenProperties
<1>2. /\ new \in Seq(Message) /\ Len(new) = Len(ms) + 1
      /\ \A i \in 1..Len(ms) : new[i] = ms[i]
      /\ new[Len(ms) + 1] = m
  BY AppendProperties
<1>3. DOMAIN new = 1..(Len(ms) + 1)
  BY <1>2, LenProperties
<1> HIDE DEF new
<1>4. PairedIn(new)
  <2>1. SUFFICES ASSUME NEW j \in DOMAIN new, NEW id \in new[j].answers
                 PROVE  \E i \in 1..(j - 1) : id \in new[i].uses
    BY DEF PairedIn
  <2>2. CASE j = Len(ms) + 1
    <3>1. PICK i \in DOMAIN ms : id \in ms[i].uses
      BY <1>2, <2>1, <2>2
    <3>2. i \in 1..(j - 1) /\ new[i] = ms[i]
      BY <1>1, <1>2, <2>2
    <3> QED BY <3>1, <3>2
  <2>3. CASE j \in 1..Len(ms)
    <3>1. PICK i \in 1..(j - 1) : id \in ms[i].uses
      BY <1>1, <1>2, <2>1, <2>3 DEF PairedIn
    <3>2. new[i] = ms[i]
      BY <1>1, <1>2, <2>3
    <3> QED BY <3>1, <3>2
  <2> QED BY <1>1, <1>3, <2>2, <2>3
<1>5. UniqueIn(new)
  <2>1. SUFFICES ASSUME NEW i \in DOMAIN new, NEW j \in DOMAIN new,
                        NEW id \in new[i].uses, id \in new[j].uses
                 PROVE  i = j
    BY DEF UniqueIn
  <2>2. CASE i \in 1..Len(ms) /\ j \in 1..Len(ms)
    BY <1>1, <1>2, <2>1, <2>2 DEF UniqueIn
  <2>3. CASE i = Len(ms) + 1 /\ j \in 1..Len(ms)
    BY <1>1, <1>2, <2>1, <2>3
  <2>4. CASE j = Len(ms) + 1 /\ i \in 1..Len(ms)
    BY <1>1, <1>2, <2>1, <2>4
  <2>5. CASE i = Len(ms) + 1 /\ j = Len(ms) + 1
    BY <2>5
  <2> QED BY <1>1, <1>3, <2>2, <2>3, <2>4, <2>5
<1> QED
  BY <1>4, <1>5 DEF new

\* Every call is answered by the message as many places after it as its place
\* in the turn says: n calls are followed at once by their n results in order.
CompleteIn(ms) ==
    \A i \in DOMAIN ms : \A id \in ms[i].uses :
        /\ i + id[2] \in DOMAIN ms
        /\ ms[i + id[2]].answers = {id}

\* Compaction keeps a complete conversation complete: it drops a prefix and
\* moves the rest by the same distance.
LEMMA CompactionKeepsComplete ==
    ASSUME NEW ms \in Seq(Message), CompleteIn(ms),
           Len(ms) > PreserveRecent, CutOf(ms) > 0
    PROVE  CompleteIn(SummaryAndTail(ms))
<1> DEFINE cut == CutOf(ms)
           new == SummaryAndTail(ms)
<1>1. /\ Len(ms) \in Nat /\ DOMAIN ms = 1..Len(ms)
      /\ cut \in 1..Len(ms)
  <2>1. Len(ms) \in Nat /\ DOMAIN ms = 1..Len(ms)
    BY LenProperties
  <2> QED BY <2>1, CutProperties
<1>2. /\ new \in Seq(Message)
      /\ Len(new) = 1 + Len(ms) - cut
      /\ new[1].uses = {}
      /\ \A i \in 2..(1 + Len(ms) - cut) : new[i] = ms[cut + i - 1]
  BY SummaryAndTailProperties
<1>3. DOMAIN new = 1..(1 + Len(ms) - cut)
  BY <1>2, LenProperties
<1> HIDE DEF cut, new
<1>4. SUFFICES ASSUME NEW i \in DOMAIN new, NEW id \in new[i].uses
               PROVE  i + id[2] \in DOMAIN new /\ new[i + id[2]].answers = {id}
  BY DEF new, CompleteIn
<1>5. /\ i \in 2..(1 + Len(ms) - cut) /\ cut + i - 1 \in DOMAIN ms
      /\ new[i] = ms[cut + i - 1]
  <2>1. i \in 2..(1 + Len(ms) - cut)
    BY <1>1, <1>2, <1>3, <1>4
  <2> QED BY <1>1, <1>2, <2>1
<1>6. id[2] \in Nat
  <2>1. ms[cut + i - 1] \in Message
    BY <1>1, <1>5, ElementOfSeq
  <2> QED BY <1>4, <1>5, <2>1 DEF Message, CallIds
<1>7. /\ (cut + i - 1) + id[2] \in DOMAIN ms
      /\ ms[(cut + i - 1) + id[2]].answers = {id}
  <2>1. \A p \in DOMAIN ms : \A d \in ms[p].uses :
          p + d[2] \in DOMAIN ms /\ ms[p + d[2]].answers = {d}
    BY DEF CompleteIn
  <2> QED BY <1>4, <1>5, <2>1
<1>8. /\ i + id[2] \in 2..(1 + Len(ms) - cut)
      /\ cut + (i + id[2]) - 1 = (cut + i - 1) + id[2]
  BY <1>1, <1>5, <1>6, <1>7
<1>9. new[i + id[2]] = ms[(cut + i - 1) + id[2]]
  BY <1>2, <1>8
<1> QED
  BY <1>3, <1>7, <1>8, <1>9

\* A turn whose last result is the last message is not split by a compaction
\* that keeps at least one message: its call must be in the tail, and with it
\* every message that follows.
LEMMA LastTurnIsKept ==
    ASSUME NEW ms \in Seq(Message), UniqueIn(ms), CompleteIn(ms),
           Len(ms) > PreserveRecent, CutOf(ms) > 0, PreserveRecent >= 1,
           NEW i \in DOMAIN ms, NEW id \in ms[i].uses, i + id[2] = Len(ms)
    PROVE  ms[i].uses \subseteq ToolResultIds(SummaryAndTail(ms))
<1> DEFINE cut == CutOf(ms)
           new == SummaryAndTail(ms)
<1>1. /\ Len(ms) \in Nat /\ DOMAIN ms = 1..Len(ms)
      /\ cut \in 1..(Len(ms) - 1) /\ PairSafe(ms, cut)
  <2>1. Len(ms) \in Nat /\ DOMAIN ms = 1..Len(ms)
    BY LenProperties
  <2>2. RawCut(ms) <= Len(ms) - 1 /\ RawCut(ms) \in Int
    BY <2>1, ConfigAssumption DEF RawCut
  <2> QED BY <2>1, <2>2, CutProperties
<1>2. /\ new \in Seq(Message)
      /\ Len(new) = 1 + Len(ms) - cut
      /\ \A p \in 2..(1 + Len(ms) - cut) : new[p] = ms[cut + p - 1]
  BY SummaryAndTailProperties
<1>3. DOMAIN new = 1..(1 + Len(ms) - cut)
  BY <1>2, LenProperties
<1>4. CompleteIn(new)
  BY CompactionKeepsComplete
<1>5. /\ From(ms, cut) \in Seq(Message)
      /\ Len(From(ms, cut)) = Len(ms) - cut
      /\ \A p \in 1..(Len(ms) - cut) : From(ms, cut)[p] = ms[cut + p]
  <2>1. cut \in 0..Len(ms)
    BY <1>1
  <2> HIDE DEF cut
  <2> QED BY <2>1, FromProperties
<1>6. DOMAIN From(ms, cut) = 1..(Len(ms) - cut)
  BY <1>5, LenProperties
<1> HIDE DEF cut, new
<1>7. id \in ToolResultIds(From(ms, cut))
  <2>1. ms[Len(ms)].answers = {id}
    BY DEF CompleteIn
  <2>2. /\ Len(ms) - cut \in 1..(Len(ms) - cut)
        /\ cut + (Len(ms) - cut) = Len(ms)
    BY <1>1
  <2>3. From(ms, cut)[Len(ms) - cut] = ms[Len(ms)]
    BY <1>5, <2>2
  <2> QED BY <1>6, <2>1, <2>2, <2>3 DEF ToolResultIds
<1>8. PICK p \in 1..(Len(ms) - cut) : id \in From(ms, cut)[p].uses
  BY <1>1, <1>6, <1>7 DEF PairSafe, HasOrphanToolResults, ToolUseIds
<1>9. cut + p = i
  <2>1. id \in ms[cut + p].uses /\ cut + p \in DOMAIN ms
    BY <1>1, <1>5, <1>8
  <2> QED BY <2>1 DEF UniqueIn
<1>10. p + 1 \in DOMAIN new /\ new[p + 1] = ms[i]
  <2>1. p + 1 \in 2..(1 + Len(ms) - cut) /\ cut + (p + 1) - 1 = i
    BY <1>1, <1>9
  <2> QED BY <1>1, <1>2, <1>3, <2>1
<1> QED
  BY <1>4, <1>10 DEF CompleteIn, ToolResultIds, new
-----------------------------------------------------------------------------
(* What a compacted conversation still shows *)

\* The ends of a message show nothing that the message does not show.
QuotesItself(ms) ==
    \A i \in DOMAIN ms : /\ ms[i].opening \subseteq ms[i].shows
                         /\ ms[i].ending \subseteq ms[i].shows

\* A summary invents nothing: but for its preamble it shows what some message
\* it stands for shows.
LEMMA SummaryQuotes ==
    ASSUME NEW ms \in Seq(Message), Len(ms) > 0, QuotesItself(ms)
    PROVE  /\ SummaryOf(ms).role = "user"
           /\ SummaryOf(ms).opening \subseteq SummaryOf(ms).shows
           /\ SummaryOf(ms).ending \subseteq SummaryOf(ms).shows
           /\ \A t \in SummaryOf(ms).shows :
                t = PreambleTopic \/ \E i \in DOMAIN ms : t \in ms[i].shows
<1> DEFINE shown == UNION {ms[i].shows : i \in DOMAIN ms}
<1>1. RecentUserRequests(ms) \subseteq shown
  BY DEF RecentUserRequests, QuotesItself
<1>2. MostRecentWork(ms) \subseteq shown
  BY DEF MostRecentWork, QuotesItself
<1>3. Timeline(ms) \subseteq shown
  BY DEF Timeline, QuotesItself
<1>4. ms[Len(ms)].opening \subseteq Timeline(ms)
  BY LenProperties DEF Timeline
<1> QED BY <1>1, <1>2, <1>3, <1>4 DEF SummaryOf

\* Neither does a compaction, and the summary is no tool result.
LEMMA CompactionQuotes ==
    ASSUME NEW ms \in Seq(Message), QuotesItself(ms),
           Len(ms) > PreserveRecent, CutOf(ms) > 0
    PROVE  /\ QuotesItself(SummaryAndTail(ms))
           /\ SummaryAndTail(ms)[1].role = "user"
           /\ \A i \in DOMAIN SummaryAndTail(ms) : \A t \in SummaryAndTail(ms)[i].shows :
                t = PreambleTopic \/ \E k \in DOMAIN ms : t \in ms[k].shows
<1> DEFINE cut == CutOf(ms)
           old == Before(ms, cut)
           new == SummaryAndTail(ms)
<1>1. Len(ms) \in Nat /\ DOMAIN ms = 1..Len(ms) /\ cut \in 1..Len(ms)
  BY LenProperties, CutProperties
<1>2. /\ old \in Seq(Message) /\ Len(old) = cut /\ DOMAIN old = 1..cut
      /\ \A i \in 1..cut : old[i] = ms[i]
  <2>1. cut \in 0..Len(ms)
    BY <1>1
  <2> HIDE DEF cut
  <2> QED BY <2>1, BeforeProperties, LenProperties DEF old
<1>3. /\ new \in Seq(Message) /\ DOMAIN new = 1..(1 + Len(ms) - cut)
      /\ new[1] = SummaryOf(old)
      /\ \A i \in 2..(1 + Len(ms) - cut) : new[i] = ms[cut + i - 1]
  BY SummaryAndTailProperties, LenProperties
<1> HIDE DEF cut, old, new
<1>4. QuotesItself(old)
  BY <1>1, <1>2 DEF QuotesItself
<1>5. /\ SummaryOf(old).role = "user"
      /\ SummaryOf(old).opening \subseteq SummaryOf(old).shows
      /\ SummaryOf(old).ending \subseteq SummaryOf(old).shows
      /\ \A t \in SummaryOf(old).shows :
            t = PreambleTopic \/ \E k \in DOMAIN ms : t \in ms[k].shows
  <2>1. \A i \in DOMAIN old : i \in DOMAIN ms /\ old[i] = ms[i]
    BY <1>1, <1>2
  <2>2. Len(old) > 0
    BY <1>1, <1>2
  <2> QED BY <1>2, <1>4, <2>1, <2>2, SummaryQuotes
<1>6. \A i \in DOMAIN new : i = 1 \/ \E k \in DOMAIN ms : new[i] = ms[k]
  <2> SUFFICES ASSUME NEW i \in DOMAIN new, i # 1
               PROVE  \E k \in DOMAIN ms : new[i] = ms[k]
    OBVIOUS
  <2>1. i \in 2..(1 + Len(ms) - cut) /\ cut + i - 1 \in 1..Len(ms)
    BY <1>1, <1>3
  <2> QED BY <1>1, <1>3, <2>1
<1>7. QuotesItself(new)
  BY <1>3, <1>5, <1>6 DEF QuotesItself
<1>8. \A i \in DOMAIN new : \A t \in new[i].shows :
        t = PreambleTopic \/ \E k \in DOMAIN ms : t \in ms[k].shows
  BY <1>3, <1>5, <1>6
<1> QED BY <1>3, <1>5, <1>7, <1>8 DEF new

\* What opens a message is still there after one compaction: the timeline
\* quotes it, or the message is in the tail.
LEMMA CompactionRepeatsOpenings ==
    ASSUME NEW ms \in Seq(Message), QuotesItself(ms),
           Len(ms) > PreserveRecent, CutOf(ms) > 0,
           NEW i \in DOMAIN ms, NEW t \in ms[i].opening
    PROVE  \E k \in DOMAIN SummaryAndTail(ms) : t \in SummaryAndTail(ms)[k].shows
<1> DEFINE cut == CutOf(ms)
           old == Before(ms, cut)
           new == SummaryAndTail(ms)
<1>1. Len(ms) \in Nat /\ DOMAIN ms = 1..Len(ms) /\ cut \in 1..Len(ms)
  BY LenProperties, CutProperties
<1>2. DOMAIN old = 1..cut /\ \A k \in 1..cut : old[k] = ms[k]
  <2>1. cut \in 0..Len(ms)
    BY <1>1
  <2> HIDE DEF cut
  <2> QED BY <2>1, BeforeProperties, LenProperties DEF old
<1>3. /\ DOMAIN new = 1..(1 + Len(ms) - cut)
      /\ new[1] = SummaryOf(old)
      /\ \A k \in 2..(1 + Len(ms) - cut) : new[k] = ms[cut + k - 1]
  BY SummaryAndTailProperties, LenProperties
<1> HIDE DEF cut, old, new
<1>4. CASE i <= cut
  <2>1. i \in DOMAIN old /\ old[i] = ms[i]
    BY <1>1, <1>2, <1>4
  <2>2. t \in SummaryOf(old).shows
    BY <2>1 DEF Timeline, SummaryOf
  <2> QED BY <1>1, <1>3, <2>2 DEF new
<1>5. CASE cut < i
  <2>1. PICK k \in 2..(1 + Len(ms) - cut) : cut + k - 1 = i
    <3>1. i - cut + 1 \in 2..(1 + Len(ms) - cut) /\ cut + (i - cut + 1) - 1 = i
      BY <1>1, <1>5
    <3> QED BY <3>1
  <2>2. new[k] = ms[cut + k - 1]
    BY <1>3
  <2>3. new[k] = ms[i]
    BY <2>1, <2>2
  <2>4. k \in DOMAIN new
    BY <1>1, <1>3, <2>1
  <2> QED BY <2>3, <2>4 DEF QuotesItself, new
<1> QED BY <1>1, <1>4, <1>5

-----------------------------------------------------------------------------
(* What a compaction takes and what it leaves *)

\* The walk-back gives up no more of the tail than it has to: every cut it
\* passed over would have separated a result from its call.
LEMMA WalkBackIsShortest ==
    ASSUME NEW ms \in Seq(Message), Len(ms) > PreserveRecent,
           NEW c \in (CutOf(ms) + 1)..RawCut(ms)
    PROVE  ~PairSafe(ms, c)
<1> DEFINE raw == RawCut(ms)
           steps == WalkBackSteps(ms, raw)
<1>1. Len(ms) \in Nat /\ raw \in 0..Len(ms)
  BY LenProperties, ConfigAssumption DEF RawCut
<1>2. CutOf(ms) \in 0..Len(ms) /\ CutOf(ms) <= raw
  BY CutProperties
<1>3. CASE raw <= 0 \/ raw >= Len(ms)
  <2>1. CutOf(ms) = raw
    BY <1>3 DEF CutOf, WalkBackForPairSafety
  <2> QED BY <1>1, <2>1
<1>4. CASE ~(raw <= 0 \/ raw >= Len(ms))
  <2>1. CutOf(ms) = raw - steps
    BY <1>4 DEF CutOf, WalkBackForPairSafety
  <2>2. /\ steps \in 0..raw
        /\ \A j \in 0..(steps - 1) : ~PairSafe(ms, raw - j)
    BY <1>1, WalkBackStops
  <2> HIDE DEF raw, steps
  <2>3. raw - c \in 0..(steps - 1) /\ raw - (raw - c) = c
    BY <1>1, <1>2, <2>1, <2>2 DEF raw
  <2> QED BY <2>2, <2>3
<1> QED BY <1>3, <1>4

\* What compact_messages returns, for every conversation and every setting: it
\* reports to have removed nothing and changed nothing, or it put one user
\* message in the place of the prefix it removed and left the rest word for
\* word, at least the preserve_recent_messages it was asked to keep, and no
\* message more than the pairs of calls and results make it keep.
THEOREM CompactionKeepsTheTail ==
    ASSUME NEW ms \in Seq(Message)
    PROVE  LET c == CompactMessages(ms)
           IN  \/ c.removed = 0 /\ c.messages = ms
               \/ /\ c.removed \in 1..Len(ms)
                  /\ Len(c.messages) = 1 + (Len(ms) - c.removed)
                  /\ c.messages[1].role = "user"
                  /\ c.messages[1].uses = {} /\ c.messages[1].answers = {}
                  /\ \A i \in 1..(Len(ms) - c.removed) :
                        c.messages[i + 1] = ms[c.removed + i]
                  /\ PreserveRecent \in Nat => Len(ms) - c.removed >= PreserveRecent
                  /\ \A d \in (c.removed + 1)..RawCut(ms) : ~PairSafe(ms, d)
<1>1. CASE /\ CompactMessages(ms).messages = ms
           /\ CompactMessages(ms).removed = 0
  BY <1>1
<1>2. CASE /\ Len(ms) > PreserveRecent
           /\ CutOf(ms) > 0
           /\ CompactMessages(ms).messages = SummaryAndTail(ms)
           /\ CompactMessages(ms).removed = CutOf(ms)
  <2> DEFINE cut == CutOf(ms)
             new == SummaryAndTail(ms)
  <2>1. Len(ms) \in Nat /\ cut \in 1..Len(ms) /\ cut <= RawCut(ms)
    BY <1>2, LenProperties, CutProperties
  <2>2. /\ Len(new) = 1 + Len(ms) - cut
        /\ new[1] = SummaryOf(Before(ms, cut))
        /\ new[1].uses = {} /\ new[1].answers = {}
        /\ \A i \in 2..(1 + Len(ms) - cut) : new[i] = ms[cut + i - 1]
    BY <1>2, SummaryAndTailProperties
  <2>3. new[1].role = "user"
    BY <2>2 DEF SummaryOf
  <2>4. PreserveRecent \in Nat => Len(ms) - cut >= PreserveRecent
    BY <2>1 DEF RawCut
  <2>5. \A d \in (cut + 1)..RawCut(ms) : ~PairSafe(ms, d)
    BY <1>2, WalkBackIsShortest
  <2> HIDE DEF cut, new
  <2>6. \A i \in 1..(Len(ms) - cut) : new[i + 1] = ms[cut + i]
    <3> TAKE i \in 1..(Len(ms) - cut)
    <3>1. i + 1 \in 2..(1 + Len(ms) - cut) /\ cut + (i + 1) - 1 = cut + i
      BY <2>1
    <3> QED BY <2>2, <3>1
  <2>7. Len(new) = 1 + (Len(ms) - cut)
    BY <2>1, <2>2
  <2> QED BY <1>2, <2>1, <2>2, <2>3, <2>4, <2>5, <2>6, <2>7 DEF cut, new
<1> QED BY <1>1, <1>2, CompactMessagesCases
=============================================================================
