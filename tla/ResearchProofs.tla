----------------------------- MODULE ResearchProofs -----------------------------
(***************************************************************************)
(* Theorems of MarketData, PaperFills and AlphaLearning for any symbols,   *)
(* days, horizons, plans, prices and bounds.                               *)
(*                                                                         *)
(* The alpha cycle: it goes on only with bars whose newest one was         *)
(* available when it began, and what it writes is dated by that bar and    *)
(* by texts that are no later.  A row speaks for an instant that is no     *)
(* midnight, and its key names a day that is neither over at the time of   *)
(* what it rests on nor begun after the instant it speaks for.  So the     *)
(* first bar at or after that instant is of a day after the key's, while   *)
(* everything any row of the key rests on is of the key's day or earlier,  *)
(* in whatever order bars are stored.  What has to be carried along is     *)
(* that the stored days have a last one and, from any instant on, a first  *)
(* one; both survive the arrival of a day anywhere among them.             *)
(***************************************************************************)
EXTENDS MCResearch, Induction, SequenceTheorems

Least(m, S) == m \in S /\ \A y \in S : m <= y
Greatest(m, S) == m \in S /\ \A y \in S : m >= y

\* The days of a set at or after an instant.
After(h, t) == {d \in h : Midnight(d) >= t}

\* A set of days has a last one and, from any instant on, a first one when it has one.
Dated(h) ==
    /\ h \subseteq Sessions
    /\ \E m \in h : Greatest(m, h)
    /\ \A t \in Int : After(h, t) # {} => \E m \in h : Least(m, After(h, t))

\* No clock shows a midnight.
NoMidnight(t) == \E n \in Int : t = 2 * n + 1

\* A bar is not available before its session begins.
HistoryFits(h) ==
    /\ h \in [Sessions -> Int]
    /\ Dated(StoredDays(h))
    /\ \A d \in StoredDays(h) : Midnight(d) <= h[d]

\* A row is dated neither before what it rests on nor after the instant it speaks for; the day
\* of its key is neither over for the one nor begun after the other.
Timely(k, row) ==
    /\ row.asOf \in Int /\ row.availableAt \in Int /\ row.horizon \in Nat
    /\ NoMidnight(row.asOf)
    /\ row.availableAt <= row.asOf
    /\ row.heard \subseteq Int /\ \A t \in row.heard : t <= row.availableAt
    /\ row.sessions \subseteq Int /\ \A d \in row.sessions : Midnight(d) <= row.availableAt
    /\ row.availableAt < Midnight(k[3] + 1) /\ Midnight(k[3]) <= row.asOf

\* A label's window lies after the day of its decision's key.
Measured(l) ==
    /\ l.key \in Keys /\ Timely(l.key, l.row)
    /\ l.start \in Sessions /\ l.start > l.key[3]
    /\ l.end \in Sessions /\ l.end > l.key[3]

\* Of what a cycle has read, the newest bars were available when it began.
CycleFits(a) ==
    /\ DOMAIN a = {"at", "asOf", "bars"}
    /\ a.at \in {"idle", "snapshot", "numeric", "llm", "meta"}
    /\ a.asOf \in Int /\ (a.at # "idle" => NoMidnight(a.asOf))
    /\ DOMAIN a.bars \subseteq Universe
    /\ \A s \in DOMAIN a.bars : HistoryFits(a.bars[s]) /\ AvailabilityOf(a.bars[s]) <= a.asOf
    /\ a.at \in {"numeric", "llm", "meta"} => DOMAIN a.bars = Universe

AlphaTypes ==
    /\ now \in Int /\ NoMidnight(now)
    /\ DOMAIN history = Listed /\ \A s \in Listed : HistoryFits(history[s])
    /\ texts \subseteq Int

DecisionsTimely ==
    /\ DOMAIN decisions = Keys
    /\ \A k \in Keys : decisions[k] = Unwritten \/ Timely(k, decisions[k])

\* The label under way is of a decision of the list that has none.
LearnerFits ==
    /\ DOMAIN learner = {"rows", "window"}
    /\ \A k \in DOMAIN learner.rows : k \in Keys /\ Timely(k, learner.rows[k])
    /\ learner.window # <<>> =>
          /\ learner.window[1] \in DOMAIN learner.rows
          /\ learner.window[2] \in Sessions /\ learner.window[2] > learner.window[1][3]
          /\ \A l \in labels : l.key # learner.window[1]

LabelsMeasured ==
    /\ \A l \in labels : Measured(l)
    /\ \A l, m \in labels : l.key = m.key => l = m

AlphaInv ==
    AlphaTypes /\ DecisionsTimely /\ LearnerFits /\ LabelsMeasured /\ CycleFits(alpha)

-----------------------------------------------------------------------------
(* Extremes and days. *)

LEMMA MaxIs ==
    ASSUME NEW S \in SUBSET Int, NEW m, Greatest(m, S)
    PROVE  Max(S) = m
<1>1. \A x \in S : (\A y \in S : x >= y) => x = m
  BY DEF Greatest
<1>2. Max(S) \in S /\ \A y \in S : Max(S) >= y
  BY DEF Max, Greatest
<1> QED BY <1>1, <1>2

LEMMA MinIs ==
    ASSUME NEW S \in SUBSET Int, NEW m, Least(m, S)
    PROVE  Min(S) = m
<1>1. \A x \in S : (\A y \in S : x <= y) => x = m
  BY DEF Least
<1>2. Min(S) \in S /\ \A y \in S : Min(S) <= y
  BY DEF Min, Least
<1> QED BY <1>1, <1>2

LEMMA SessionsAre ==
    /\ Sessions \subseteq Int /\ 1 \in Sessions
    /\ \A d \in Sessions : d >= 1
    /\ \A k \in Keys : k[2] \in Listed /\ k[2] \in Universe /\ k[3] \in Sessions
    /\ Unstored = 0
BY AlphaAssumption DEF Sessions, Keys, Listed, Unstored

LEMMA DayOfIs ==
    ASSUME NEW t \in Int
    PROVE  /\ DayOf(t) \in Int
           /\ Midnight(DayOf(t)) <= t /\ t < Midnight(DayOf(t) + 1)
BY DEF DayOf, Midnight

LEMMA DatedTypes ==
    ASSUME NEW h, Dated(h)
    PROVE  /\ h \subseteq Int /\ Max(h) \in h /\ \A y \in h : Max(h) >= y
           /\ \A t \in Int : After(h, t) # {} => Least(Min(After(h, t)), After(h, t))
<1>1. h \in SUBSET Int
  BY SessionsAre DEF Dated
<1>2. PICK m \in h : Greatest(m, h)
  BY DEF Dated
<1>3. Max(h) = m
  BY <1>1, <1>2, MaxIs
<1>4. ASSUME NEW t \in Int, After(h, t) # {}
      PROVE  Least(Min(After(h, t)), After(h, t))
  <2>1. PICK n \in h : Least(n, After(h, t))
    BY <1>4 DEF Dated
  <2>2. After(h, t) \in SUBSET Int
    BY <1>1 DEF After
  <2> QED BY <2>1, <2>2, MinIs
<1> QED BY <1>1, <1>2, <1>3, <1>4 DEF Greatest

\* A day is stored, before, between or after the others, or once more.
LEMMA DayStored ==
    ASSUME NEW h, Dated(h), NEW d \in Sessions
    PROVE  Dated(h \cup {d})
<1> DEFINE more == h \cup {d}
<1>1. h \subseteq Int /\ d \in Int /\ more \subseteq Sessions
  BY DatedTypes, SessionsAre DEF Dated
<1>2. \E m \in more : Greatest(m, more)
  <2>1. PICK m \in h : Greatest(m, h)
    BY DEF Dated
  <2>2. CASE d >= m
    <3>1. Greatest(d, more)
      BY <1>1, <2>1, <2>2 DEF Greatest
    <3> QED BY <3>1
  <2>3. CASE d < m
    <3>1. Greatest(m, more)
      BY <1>1, <2>1, <2>3 DEF Greatest
    <3> QED BY <3>1
  <2> QED BY <1>1, <2>1, <2>2, <2>3
<1>3. ASSUME NEW t \in Int, After(more, t) # {}
      PROVE  \E m \in more : Least(m, After(more, t))
  <2>1. CASE Midnight(d) < t
    <3>1. After(more, t) = After(h, t)
      BY <1>1, <2>1 DEF After, Midnight
    <3> QED BY <1>3, <3>1 DEF Dated
  <2>2. CASE Midnight(d) >= t
    <3>1. After(more, t) = After(h, t) \cup {d}
      BY <2>2 DEF After
    <3>2. CASE After(h, t) = {}
      <4>1. Least(d, After(more, t))
        BY <1>1, <3>1, <3>2 DEF Least
      <4> QED BY <4>1
    <3>3. CASE After(h, t) # {}
      <4>1. PICK m \in h : Least(m, After(h, t))
        BY <3>3 DEF Dated
      <4>2. After(h, t) \subseteq Int /\ m \in Int
        BY <1>1 DEF After
      <4>3. CASE d <= m
        <5>1. Least(d, After(more, t))
          BY <1>1, <3>1, <4>1, <4>2, <4>3 DEF Least
        <5> QED BY <5>1
      <4>4. CASE m < d
        <5>1. Least(m, After(more, t))
          BY <1>1, <3>1, <4>1, <4>2, <4>4 DEF Least
        <5> QED BY <5>1
      <4> QED BY <1>1, <4>2, <4>3, <4>4
    <3> QED BY <3>2, <3>3
  <2> QED BY <1>1, <2>1, <2>2 DEF Midnight
<1> QED BY <1>1, <1>2, <1>3 DEF Dated

\* The snapshot's date lies within or after every session it was made of.
LEMMA NewestDates ==
    ASSUME NEW h, HistoryFits(h)
    PROVE  /\ AvailabilityOf(h) \in Int
           /\ StoredDays(h) \subseteq Sessions
           /\ \A d \in StoredDays(h) : Midnight(d) <= AvailabilityOf(h)
<1> DEFINE days == StoredDays(h)
<1>1. /\ days \subseteq Int /\ Max(days) \in days
      /\ \A y \in days : Max(days) >= y
  BY DatedTypes DEF HistoryFits
<1>2. Max(days) \in Sessions /\ Midnight(Max(days)) <= h[Max(days)] /\ days \subseteq Sessions
  BY <1>1 DEF HistoryFits, Dated
<1>3. AvailabilityOf(h) = h[Max(days)] /\ h[Max(days)] \in Int
  BY <1>2 DEF AvailabilityOf, HistoryFits
<1> DEFINE m == Max(days)
<1>4. /\ m \in Int /\ Midnight(m) <= AvailabilityOf(h) /\ AvailabilityOf(h) \in Int
      /\ \A d \in days : d \in Int /\ m >= d
  BY <1>1, <1>2, <1>3
<1> HIDE DEF days, m
<1>5. \A d \in days : Midnight(d) <= AvailabilityOf(h)
  BY <1>4 DEF Midnight
<1> QED BY <1>2, <1>3, <1>5 DEF days

-----------------------------------------------------------------------------
(* The steps. *)

LEMMA AlphaStarts == AlphaInit => AlphaInv
<1> SUFFICES ASSUME AlphaInit PROVE AlphaInv
  OBVIOUS
<1> DEFINE first == [d \in Sessions |-> IF d = 1 THEN Evening(1) ELSE Unstored]
<1>1. HistoryFits(first)
  <2>1. first \in [Sessions -> Int] /\ Midnight(1) <= first[1] /\ StoredDays(first) = {1}
    BY SessionsAre DEF Evening, Midnight, StoredDays, Unstored
  <2>2. Dated({1})
    <3>1. {1} \subseteq Sessions /\ Greatest(1, {1})
      BY SessionsAre DEF Greatest
    <3>2. ASSUME NEW t \in Int, After({1}, t) # {}
          PROVE  Least(1, After({1}, t))
      BY <3>2 DEF Least, After
    <3> QED BY <3>1, <3>2 DEF Dated
  <2> QED BY <2>1, <2>2 DEF HistoryFits
<1>2. /\ now = Evening(1) /\ history = [s \in Listed |-> first] /\ texts = {}
      /\ decisions = [k \in Keys |-> Unwritten] /\ labels = {} /\ alpha = NoCycle
      /\ learner = NoLoop
  BY DEF AlphaInit
<1> HIDE DEF first
<1>3. now = 2 * 3 + 1
  BY <1>2 DEF Evening
<1>4. AlphaTypes
  BY <1>1, <1>2, <1>3 DEF AlphaTypes, NoMidnight
<1>5. CycleFits(alpha)
  BY <1>2 DEF CycleFits, NoCycle
<1>6. DecisionsTimely /\ LearnerFits /\ LabelsMeasured
  BY <1>2 DEF DecisionsTimely, LearnerFits, LabelsMeasured, NoLoop
<1> QED BY <1>4, <1>5, <1>6 DEF AlphaInv

\* An idle cycle fits.
LEMMA NoCycleFits == CycleFits(NoCycle)
BY DEF CycleFits, NoCycle

\* The clock shows mornings and evenings.
LEMMA HalfDayKeeps ==
    ASSUME AlphaInv, HalfDayPasses
    PROVE  AlphaInv'
<1>1. PICK n \in Int : now = 2 * n + 1
  BY DEF AlphaInv, AlphaTypes, NoMidnight
<1>2. now' = 2 * (n + 1) + 1 /\ n + 1 \in Int
  BY <1>1 DEF HalfDayPasses
<1>3. now' \in Int /\ NoMidnight(now')
  BY <1>2 DEF NoMidnight
<1> QED BY <1>3 DEF HalfDayPasses, AlphaInv, AlphaTypes, DecisionsTimely, LearnerFits, LabelsMeasured

LEMMA BarKeeps ==
    ASSUME AlphaInv, NEW s \in Listed, BarArrives(s)
    PROVE  AlphaInv'
<1>1. PICK d \in Sessions, delay \in Delays :
        history' = [history EXCEPT ![s][d] = Midnight(d) + delay]
  BY DEF BarArrives
<1> DEFINE h == history[s]
           more == [h EXCEPT ![d] = Midnight(d) + delay]
<1>2. /\ d \in Int /\ d >= 1 /\ delay \in Int /\ delay >= 0
      /\ HistoryFits(h) /\ Dated(StoredDays(h)) /\ h \in [Sessions -> Int]
  BY AlphaAssumption, SessionsAre DEF AlphaInv, AlphaTypes, HistoryFits
<1> HIDE DEF h
<1>3. more \in [Sessions -> Int] /\ more[d] = Midnight(d) + delay
      /\ \A x \in Sessions : x # d => more[x] = h[x]
  BY <1>2 DEF Midnight
<1> HIDE DEF more
<1>4. StoredDays(more) = StoredDays(h) \cup {d} /\ Midnight(d) <= more[d]
  <2>1. more[d] # Unstored /\ Midnight(d) <= more[d]
    BY <1>2, <1>3, SessionsAre DEF Midnight
  <2>2. ASSUME NEW x \in Sessions, x # d PROVE more[x] # Unstored <=> h[x] # Unstored
    BY <1>3, <2>2
  <2> QED BY <2>1, <2>2 DEF StoredDays
<1>5. Dated(StoredDays(more))
  BY <1>2, <1>4, DayStored
<1>6. \A x \in StoredDays(more) : Midnight(x) <= more[x]
  <2>1. ASSUME NEW x \in StoredDays(more), x # d PROVE Midnight(x) <= more[x]
    <3>1. x \in StoredDays(h) /\ x \in Sessions
      BY <1>4, <2>1 DEF StoredDays
    <3> QED BY <1>2, <1>3, <2>1, <3>1 DEF HistoryFits
  <2> QED BY <1>4, <2>1
<1>7. HistoryFits(more)
  BY <1>3, <1>5, <1>6 DEF HistoryFits
<1>8. DOMAIN history' = Listed /\ \A x \in Listed : history'[x] = IF x = s THEN more ELSE history[x]
  BY <1>1 DEF AlphaInv, AlphaTypes, more, h
<1>9. AlphaTypes'
  BY <1>7, <1>8 DEF BarArrives, AlphaInv, AlphaTypes
<1> QED BY <1>9 DEF BarArrives, AlphaInv, DecisionsTimely, LearnerFits, LabelsMeasured

\* A step that only moves the cycle.
LEMMA CycleMoves ==
    ASSUME AlphaInv, UNCHANGED <<market, decisions, labels, learner>>, CycleFits(alpha')
    PROVE  AlphaInv'
BY DEF AlphaInv, AlphaTypes, DecisionsTimely, LearnerFits, LabelsMeasured, market

LEMMA ReadBarsKeeps ==
    ASSUME AlphaInv, NEW s \in Universe, ReadBars(s)
    PROVE  AlphaInv'
<1> DEFINE h == history[s]
           read == [x \in DOMAIN alpha.bars \cup {s} |->
                      IF x = s THEN h ELSE alpha.bars[x]]
           onto == [alpha EXCEPT !.bars = read,
                                 !.at = IF DOMAIN read = Universe THEN "numeric" ELSE @]
<1>1. /\ alpha.at = "snapshot" /\ s \notin DOMAIN alpha.bars
      /\ alpha' = IF ~SnapshotFresh(alpha.asOf, AvailabilityOf(h)) THEN NoCycle ELSE onto
      /\ UNCHANGED <<market, decisions, labels, learner>>
  BY DEF ReadBars
<1>2. HistoryFits(h)
  BY DEF AlphaInv, AlphaTypes, Listed
<1>3. CASE ~SnapshotFresh(alpha.asOf, AvailabilityOf(h))
  BY <1>1, <1>3, NoCycleFits, CycleMoves
<1>4. CASE SnapshotFresh(alpha.asOf, AvailabilityOf(h))
  <2>1. alpha' = onto
    BY <1>1, <1>4
  <2>2. DOMAIN read = DOMAIN alpha.bars \cup {s}
        /\ \A x \in DOMAIN read : read[x] = IF x = s THEN h ELSE alpha.bars[x]
    OBVIOUS
  <2>3. AvailabilityOf(h) <= alpha.asOf
    BY <1>4 DEF SnapshotFresh
  <2> HIDE DEF read, h
  <2>4. /\ onto.asOf = alpha.asOf /\ onto.bars = read
        /\ onto.at = IF DOMAIN read = Universe THEN "numeric" ELSE alpha.at
        /\ DOMAIN onto = {"at", "asOf", "bars"}
    BY DEF AlphaInv, CycleFits
  <2> HIDE DEF onto
  <2>5. CycleFits(onto)
    BY <1>1, <1>2, <2>2, <2>3, <2>4 DEF AlphaInv, CycleFits
  <2> QED BY <1>1, <2>1, <2>5, CycleMoves
<1> QED BY <1>3, <1>4

\* Rows that are timely take the place of others.
LEMMA RowsSaved ==
    ASSUME AlphaInv, UNCHANGED <<market, labels, learner>>, CycleFits(alpha'),
           DOMAIN decisions' = Keys,
           \A k \in Keys : decisions'[k] = decisions[k] \/ Timely(k, decisions'[k])
    PROVE  AlphaInv'
BY DEF AlphaInv, AlphaTypes, DecisionsTimely, LearnerFits, LabelsMeasured, market

\* What the rows of a cycle are made of.
LEMMA CycleRows ==
    ASSUME AlphaInv, alpha.at \in {"numeric", "llm", "meta"}, NEW s \in Universe
    PROVE  /\ SnapshotAvailable(s) \in Int /\ SnapshotAvailable(s) <= alpha.asOf
           /\ alpha.asOf \in Int /\ NoMidnight(alpha.asOf)
           /\ Eligible(s) \subseteq Int
           /\ \A t \in Eligible(s) : t <= SnapshotAvailable(s)
           /\ FeatureAvailable(s) = SnapshotAvailable(s)
           /\ StoredDays(alpha.bars[s]) \subseteq Sessions
           /\ \A d \in StoredDays(alpha.bars[s]) : Midnight(d) <= SnapshotAvailable(s)
<1>1. /\ HistoryFits(alpha.bars[s]) /\ AvailabilityOf(alpha.bars[s]) <= alpha.asOf
      /\ alpha.asOf \in Int /\ NoMidnight(alpha.asOf) /\ texts \subseteq Int
  BY DEF AlphaInv, CycleFits, AlphaTypes
<1>2. /\ SnapshotAvailable(s) \in Int /\ SnapshotAvailable(s) <= alpha.asOf
      /\ StoredDays(alpha.bars[s]) \subseteq Sessions
      /\ \A d \in StoredDays(alpha.bars[s]) : Midnight(d) <= SnapshotAvailable(s)
  BY <1>1, NewestDates DEF SnapshotAvailable
<1>3. Eligible(s) \subseteq Int /\ \A t \in Eligible(s) : t <= SnapshotAvailable(s)
  BY <1>1 DEF Eligible
<1>4. Greatest(SnapshotAvailable(s), Eligible(s) \cup {SnapshotAvailable(s)})
  BY <1>2, <1>3 DEF Greatest
<1>5. FeatureAvailable(s) = SnapshotAvailable(s)
  BY <1>2, <1>3, <1>4, MaxIs DEF FeatureAvailable
<1> QED BY <1>1, <1>2, <1>3, <1>5

\* A row under the day of the instant it speaks for, or under the day it is dated by.
LEMMA RowTimely ==
    ASSUME AlphaInv, alpha.at \in {"numeric", "llm", "meta"}, NEW s \in Universe,
           NEW horizon \in Nat, NEW heard \in SUBSET Eligible(s), NEW k \in Keys,
           k[3] = DayOf(alpha.asOf) \/ k[3] = DayOf(SnapshotAvailable(s))
    PROVE  Timely(k, Row(s, SnapshotAvailable(s), horizon, heard))
<1>1. /\ SnapshotAvailable(s) \in Int /\ SnapshotAvailable(s) <= alpha.asOf
      /\ alpha.asOf \in Int /\ NoMidnight(alpha.asOf)
      /\ Eligible(s) \subseteq Int /\ \A t \in Eligible(s) : t <= SnapshotAvailable(s)
      /\ StoredDays(alpha.bars[s]) \subseteq Int
      /\ \A d \in StoredDays(alpha.bars[s]) : Midnight(d) <= SnapshotAvailable(s)
  BY CycleRows, SessionsAre
<1>2. SnapshotAvailable(s) < Midnight(k[3] + 1) /\ Midnight(k[3]) <= alpha.asOf
  <2>1. CASE k[3] = DayOf(alpha.asOf)
    <3>1. /\ DayOf(alpha.asOf) \in Int /\ Midnight(DayOf(alpha.asOf)) <= alpha.asOf
          /\ alpha.asOf < Midnight(DayOf(alpha.asOf) + 1)
      BY <1>1, DayOfIs
    <3> QED BY <1>1, <2>1, <3>1 DEF Midnight
  <2>2. CASE k[3] = DayOf(SnapshotAvailable(s))
    <3>1. /\ DayOf(SnapshotAvailable(s)) \in Int
          /\ Midnight(DayOf(SnapshotAvailable(s))) <= SnapshotAvailable(s)
          /\ SnapshotAvailable(s) < Midnight(DayOf(SnapshotAvailable(s)) + 1)
      BY <1>1, DayOfIs
    <3> QED BY <1>1, <2>2, <3>1 DEF Midnight
  <2> QED BY <2>1, <2>2
<1> QED BY <1>1, <1>2 DEF Row, Timely

\* The cycle goes on with what it has.
LEMMA CycleGoesOn ==
    ASSUME AlphaInv, alpha.at \in {"numeric", "llm", "meta"},
           NEW next \in {"llm", "meta"}, alpha' = [alpha EXCEPT !.at = next]
    PROVE  CycleFits(alpha')
BY DEF AlphaInv, CycleFits

LEMMA NumericKeeps ==
    ASSUME AlphaInv, SaveNumeric
    PROVE  AlphaInv'
<1>1. alpha.at = "numeric" /\ UNCHANGED <<market, labels, learner>>
      /\ alpha' = [alpha EXCEPT !.at = "llm"]
  BY DEF SaveNumeric
<1>2. CycleFits(alpha')
  BY <1>1, CycleGoesOn
<1> DEFINE rows == [s \in Universe |-> Row(s, SnapshotAvailable(s), MetaHorizon, {})]
<1>3. decisions' = [k \in Keys |-> IF k[1] = "numeric" /\ k[3] = AsOfDays[k[2]]
                                   THEN rows[k[2]] ELSE decisions[k]]
  BY DEF SaveNumeric, Upsert
<1>4. ASSUME NEW k \in Keys, k[3] = AsOfDays[k[2]] PROVE Timely(k, rows[k[2]])
  <2>1. MetaHorizon \in Nat /\ k[2] \in Universe /\ k[3] = DayOf(alpha.asOf)
    BY <1>4, SessionsAre, AlphaAssumption DEF AsOfDays
  <2>2. {} \in SUBSET Eligible(k[2])
    OBVIOUS
  <2> QED BY <1>1, <2>1, <2>2, RowTimely
<1> HIDE DEF rows
<1>5. \A k \in Keys : decisions'[k] = decisions[k] \/ Timely(k, decisions'[k])
  BY <1>3, <1>4
<1> QED BY <1>1, <1>2, <1>3, <1>5, RowsSaved

LEMMA SemanticKeeps ==
    ASSUME AlphaInv, SaveSemantic
    PROVE  AlphaInv'
<1>1. alpha.at = "llm" /\ UNCHANGED <<market, labels, learner>>
      /\ alpha' = [alpha EXCEPT !.at = "meta"]
  BY DEF SaveSemantic
<1>2. CycleFits(alpha')
  BY <1>1, CycleGoesOn
<1> DEFINE rows(h) == [s \in Universe |-> Row(s, FeatureAvailable(s), h, Eligible(s))]
           days == [s \in Universe |-> DayOf(FeatureAvailable(s))]
<1>3. PICK h \in LlmHorizons :
        decisions' = [k \in Keys |-> IF k[1] = "llm" /\ k[3] = days[k[2]]
                                     THEN rows(h)[k[2]] ELSE decisions[k]]
  BY DEF SaveSemantic, Upsert
<1>4. ASSUME NEW k \in Keys, k[3] = days[k[2]] PROVE Timely(k, rows(h)[k[2]])
  <2>1. h \in Nat /\ k[2] \in Universe
    BY AlphaAssumption, SessionsAre
  <2>2. FeatureAvailable(k[2]) = SnapshotAvailable(k[2])
    BY <1>1, <2>1, CycleRows
  <2>3. k[3] = DayOf(SnapshotAvailable(k[2])) /\ Eligible(k[2]) \in SUBSET Eligible(k[2])
    BY <1>4, <2>1, <2>2
  <2> QED BY <1>1, <2>1, <2>2, <2>3, RowTimely
<1> HIDE DEF rows, days
<1>5. \A k \in Keys : decisions'[k] = decisions[k] \/ Timely(k, decisions'[k])
  BY <1>3, <1>4
<1> QED BY <1>1, <1>2, <1>3, <1>5, RowsSaved

LEMMA MetaKeeps ==
    ASSUME AlphaInv, SaveMeta
    PROVE  AlphaInv'
<1>1. alpha.at = "meta" /\ UNCHANGED <<market, labels, learner>> /\ alpha' = NoCycle
  BY DEF SaveMeta
<1>2. CycleFits(alpha')
  BY <1>1, NoCycleFits
<1> DEFINE rows == [s \in Universe |-> Row(s, SnapshotAvailable(s), MetaHorizon, Eligible(s))]
<1>3. decisions' = [k \in Keys |-> IF k[1] = "meta" /\ k[3] = AsOfDays[k[2]]
                                   THEN rows[k[2]] ELSE decisions[k]]
  BY DEF SaveMeta, Upsert
<1>4. ASSUME NEW k \in Keys, k[3] = AsOfDays[k[2]] PROVE Timely(k, rows[k[2]])
  <2>1. MetaHorizon \in Nat /\ k[2] \in Universe /\ k[3] = DayOf(alpha.asOf)
    BY <1>4, SessionsAre, AlphaAssumption DEF AsOfDays
  <2>2. Eligible(k[2]) \in SUBSET Eligible(k[2])
    OBVIOUS
  <2> QED BY <1>1, <2>1, <2>2, RowTimely
<1> HIDE DEF rows
<1>5. \A k \in Keys : decisions'[k] = decisions[k] \/ Timely(k, decisions'[k])
  BY <1>3, <1>4
<1> QED BY <1>1, <1>2, <1>3, <1>5, RowsSaved

\* The first bar at or after the instant a row speaks for, or after its horizon, is of a day
\* after the one of its key.
LEMMA WindowAfterKey ==
    ASSUME AlphaInv, NEW k \in Keys, NEW row, Timely(k, row), NEW ahead \in Nat,
           AtOrAfter(k[2], LabelStart(row) + ahead) # {}
    PROVE  /\ Min(AtOrAfter(k[2], LabelStart(row) + ahead)) \in Sessions
           /\ Min(AtOrAfter(k[2], LabelStart(row) + ahead)) > k[3]
<1> DEFINE h == StoredDays(history[k[2]])
           t == row.asOf + ahead
           m == Min(After(h, t))
<1>1. Dated(h) /\ k[3] \in Int
  BY SessionsAre DEF AlphaInv, AlphaTypes, HistoryFits
<1>2. LabelStart(row) = row.asOf
  <2>1. /\ Greatest(row.asOf, {row.asOf, row.availableAt})
        /\ {row.asOf, row.availableAt} \in SUBSET Int
    BY DEF Greatest, Timely
  <2> QED BY <2>1, MaxIs DEF LabelStart
<1>3. t \in Int /\ row.asOf \in Int /\ t >= row.asOf
      /\ Midnight(k[3]) <= row.asOf
  BY DEF Timely
<1>4. AtOrAfter(k[2], LabelStart(row) + ahead) = After(h, t)
  BY <1>2 DEF AtOrAfter, After
<1> HIDE DEF h, t
<1>5. Least(m, After(h, t))
  BY <1>1, <1>3, <1>4, DatedTypes
<1> HIDE DEF m
<1>6. m \in Sessions /\ m \in Int /\ Midnight(m) >= t
  BY <1>1, <1>5, SessionsAre DEF Least, After, Dated
<1>7. PICK n \in Int : row.asOf = 2 * n + 1
  BY DEF Timely, NoMidnight
<1>8. m > k[3]
  BY <1>1, <1>3, <1>6, <1>7 DEF Midnight
<1> QED BY <1>4, <1>6, <1>8 DEF m

\* Without a decision the list is still a list of decisions.
LEMMA WithoutFits ==
    ASSUME AlphaInv, NEW k
    PROVE  /\ DOMAIN Without(k) = {"rows", "window"} /\ Without(k).window = <<>>
           /\ DOMAIN Without(k).rows = DOMAIN learner.rows \ {k}
           /\ \A x \in DOMAIN learner.rows \ {k} : Without(k).rows[x] = learner.rows[x]
BY DEF Without, NoLoop

LEMMA StartKeeps ==
    ASSUME AlphaInv, NEW k \in DOMAIN learner.rows, ReadLabelStart(k)
    PROVE  AlphaInv'
<1> DEFINE row == learner.rows[k]
           days == AtOrAfter(k[2], LabelStart(row))
           onto == [learner EXCEPT !.window = <<k, Min(days)>>]
<1>1. /\ UNCHANGED <<market, decisions, labels, alpha, ran>>
      /\ learner' = IF days = {} \/ \E l \in labels : l.key = k THEN Without(k) ELSE onto
  BY DEF ReadLabelStart
<1>2. k \in Keys /\ Timely(k, row)
  BY DEF AlphaInv, LearnerFits
<1>3. CASE days = {} \/ \E l \in labels : l.key = k
  <2>1. learner' = Without(k)
    BY <1>1, <1>3
  <2>2. LearnerFits'
    BY <2>1, WithoutFits DEF AlphaInv, LearnerFits
  <2> QED BY <1>1, <2>2 DEF AlphaInv, AlphaTypes, DecisionsTimely, LabelsMeasured, market
<1>4. CASE days # {} /\ \A l \in labels : l.key # k
  <2>1. learner' = onto
    BY <1>1, <1>4
  <2>2. Min(days) \in Sessions /\ Min(days) > k[3]
    <3>1. LabelStart(row) + 0 = LabelStart(row)
      <4>1. /\ Greatest(row.asOf, {row.asOf, row.availableAt})
            /\ {row.asOf, row.availableAt} \in SUBSET Int
        BY <1>2 DEF Greatest, Timely
      <4>2. LabelStart(row) = row.asOf /\ row.asOf \in Int
        BY <1>2, <4>1, MaxIs DEF LabelStart, Timely
      <4> QED BY <4>2
    <3>2. 0 \in Nat /\ AtOrAfter(k[2], LabelStart(row) + 0) # {}
      BY <1>4, <3>1
    <3> HIDE DEF row
    <3>3. Min(AtOrAfter(k[2], LabelStart(row) + 0)) \in Sessions
          /\ Min(AtOrAfter(k[2], LabelStart(row) + 0)) > k[3]
      BY <1>2, <3>2, WindowAfterKey
    <3> QED BY <3>1, <3>3
  <2> HIDE DEF days
  <2>3. /\ DOMAIN onto = {"rows", "window"} /\ onto.rows = learner.rows
        /\ onto.window[1] = k /\ onto.window[2] = Min(days)
    BY DEF AlphaInv, LearnerFits
  <2> HIDE DEF onto
  <2>4. LearnerFits'
    BY <1>1, <1>4, <2>1, <2>2, <2>3 DEF AlphaInv, LearnerFits
  <2> QED BY <1>1, <2>4 DEF AlphaInv, AlphaTypes, DecisionsTimely, LabelsMeasured, market
<1> QED BY <1>3, <1>4

\* A label is measured, or its window is not over yet.
LEMMA LabelKeeps ==
    ASSUME AlphaInv, SaveLabel
    PROVE  AlphaInv'
<1> DEFINE k == learner.window[1]
           row == learner.rows[k]
           days == AtOrAfter(k[2], LabelStart(row) + row.horizon)
           l == [key |-> k, row |-> row, start |-> learner.window[2], end |-> Min(days)]
<1>1. /\ labels' = labels \/ (labels' = labels \cup {l} /\ days # {})
      /\ learner' = Without(k) /\ learner.window # <<>>
      /\ UNCHANGED <<market, decisions, alpha, ran>>
  BY DEF SaveLabel
<1>2. /\ k \in Keys /\ Timely(k, row)
      /\ learner.window[2] \in Sessions /\ learner.window[2] > k[3]
      /\ \A m \in labels : m.key # k
  BY <1>1 DEF AlphaInv, LearnerFits
<1>3. row.horizon \in Nat
  BY <1>2 DEF Timely
<1> HIDE DEF row, k
<1>4. ASSUME days # {} PROVE Measured(l)
  BY <1>2, <1>3, <1>4, WindowAfterKey DEF Measured
<1>5. l.key = k
  OBVIOUS
<1> HIDE DEF l
<1>6. LabelsMeasured'
  BY <1>1, <1>2, <1>4, <1>5 DEF AlphaInv, LabelsMeasured
<1>7. LearnerFits'
  BY <1>1, WithoutFits DEF AlphaInv, LearnerFits
<1> QED BY <1>1, <1>6, <1>7 DEF AlphaInv, AlphaTypes, DecisionsTimely, market

LEMMA AlphaNextKeeps ==
    ASSUME AlphaInv, AlphaNext
    PROVE  AlphaInv'
<1>1. CASE HalfDayPasses
  BY <1>1, HalfDayKeeps
<1>2. CASE \E s \in Listed : BarArrives(s)
  BY <1>2, BarKeeps
<1>3. CASE \E s \in Universe : ReadBars(s)
  BY <1>3, ReadBarsKeeps
<1>4. CASE TextArchived
  <2>1. texts' \subseteq Int
    BY <1>4 DEF TextArchived
  <2> QED BY <1>4, <2>1 DEF TextArchived, AlphaInv, AlphaTypes, DecisionsTimely,
            LearnerFits, LabelsMeasured
<1>5. CASE BeginAlphaCycle
  <2>1. alpha' = [NoCycle EXCEPT !.at = "snapshot", !.asOf = now]
        /\ UNCHANGED <<market, decisions, labels, learner>>
    BY <1>5 DEF BeginAlphaCycle
  <2>2. CycleFits(alpha')
    BY <2>1 DEF CycleFits, NoCycle, AlphaInv, AlphaTypes
  <2> QED BY <2>1, <2>2, CycleMoves
<1>6. CASE SaveNumeric
  BY <1>6, NumericKeeps
<1>7. CASE SaveSemantic
  BY <1>7, SemanticKeeps
<1>8. CASE SaveMeta
  BY <1>8, MetaKeeps
<1>9. CASE AlphaCycleStops
  BY <1>9, NoCycleFits, CycleMoves DEF AlphaCycleStops
<1>10. CASE BeginLabelling
  <2> DEFINE rows == [k \in {k \in Keys : decisions[k] # Unwritten} |-> decisions[k]]
  <2>1. learner' = [NoLoop EXCEPT !.rows = rows]
        /\ UNCHANGED <<market, decisions, labels, alpha, ran>>
    BY <1>10 DEF BeginLabelling
  <2>2. \A k \in DOMAIN rows : k \in Keys /\ Timely(k, rows[k])
    BY DEF AlphaInv, DecisionsTimely
  <2> HIDE DEF rows
  <2>3. DOMAIN learner' = {"rows", "window"} /\ learner'.rows = rows /\ learner'.window = <<>>
    BY <2>1 DEF NoLoop
  <2>4. LearnerFits'
    BY <2>2, <2>3 DEF LearnerFits
  <2> QED BY <2>1, <2>4 DEF AlphaInv, AlphaTypes, DecisionsTimely, LabelsMeasured, market
<1>11. CASE \E k \in DOMAIN learner.rows : ReadLabelStart(k)
  BY <1>11, StartKeeps
<1>12. CASE SaveLabel
  BY <1>12, LabelKeeps
<1> QED BY <1>1, <1>2, <1>3, <1>4, <1>5, <1>6, <1>7, <1>8, <1>9, <1>10, <1>11, <1>12
        DEF AlphaNext

-----------------------------------------------------------------------------
(* The theorems. *)

\* The invariant: what a cycle holds, what decisions and labels are made of.
THEOREM AlphaInvariance == AlphaSpec => []AlphaInv
<1>1. AlphaInv /\ [AlphaNext]_alphaVars => AlphaInv'
  <2>1. ASSUME AlphaInv, UNCHANGED alphaVars PROVE AlphaInv'
    BY <2>1 DEF alphaVars, market, AlphaInv, AlphaTypes, DecisionsTimely, LearnerFits,
                LabelsMeasured
  <2> QED BY <2>1, AlphaNextKeeps
<1> QED BY AlphaStarts, <1>1, PTL DEF AlphaSpec

\* No decision is dated before a text it heard became available or before the session of a
\* bar it read, or after the instant it speaks for (the alpha services' availableAt and asOf).
THEOREM DecisionsPointInTime == AlphaSpec => []PointInTime
<1>1. AlphaInv => PointInTime
  BY DEF AlphaInv, DecisionsTimely, PointInTime, Timely
<1> QED BY AlphaInvariance, <1>1, PTL

\* A decision has one label, whose window opens and closes after everything that any row
\* stored under the decision's key rests on, in whatever order bars are stored (the learning
\* loop's first bars at or after an instant).
THEOREM LabelsMeasureOutcomes == AlphaSpec => []LabelsLookForward
<1>1. ASSUME AlphaInv PROVE LabelsLookForward
  <2> SUFFICES ASSUME NEW l \in labels
               PROVE  /\ \A m \in labels : m.key = l.key => m = l
                      /\ \A row \in {l.row, decisions[l.key]} :
                            /\ \A d \in row.sessions : d < l.start /\ d < l.end
                            /\ \A t \in row.heard : t < Midnight(l.start) /\ t < Midnight(l.end)
    BY DEF LabelsLookForward
  <2>1. Measured(l) /\ \A m \in labels : m.key = l.key => m = l
    BY <1>1 DEF AlphaInv, LabelsMeasured
  <2>2. /\ l.key \in Keys /\ l.key[3] \in Int
        /\ l.start \in Int /\ l.start > l.key[3] /\ l.end \in Int /\ l.end > l.key[3]
    BY <2>1, SessionsAre DEF Measured
  <2>3. ASSUME NEW row, Timely(l.key, row)
        PROVE  /\ \A d \in row.sessions : d < l.start /\ d < l.end
               /\ \A t \in row.heard : t < Midnight(l.start) /\ t < Midnight(l.end)
    <3>1. row.availableAt \in Int /\ row.availableAt < Midnight(l.key[3] + 1)
      BY <2>3 DEF Timely
    <3>2. ASSUME NEW d \in row.sessions PROVE d < l.start /\ d < l.end
      <4>1. d \in Int /\ Midnight(d) <= row.availableAt
        BY <2>3 DEF Timely
      <4> QED BY <2>2, <3>1, <4>1 DEF Midnight
    <3>3. ASSUME NEW t \in row.heard PROVE t < Midnight(l.start) /\ t < Midnight(l.end)
      <4>1. t \in Int /\ t <= row.availableAt
        BY <2>3 DEF Timely
      <4> QED BY <2>2, <3>1, <4>1 DEF Midnight
    <3> QED BY <3>2, <3>3
  <2>4. decisions[l.key] = Unwritten \/ Timely(l.key, decisions[l.key])
    BY <1>1, <2>2 DEF AlphaInv, DecisionsTimely
  <2>5. Unwritten.sessions = {} /\ Unwritten.heard = {}
    BY DEF Unwritten
  <2>6. Timely(l.key, l.row)
    BY <2>1 DEF Measured
  <2> QED BY <2>1, <2>3, <2>4, <2>5, <2>6
<1> QED BY AlphaInvariance, <1>1, PTL

-----------------------------------------------------------------------------
(***************************************************************************)
(* Market data.  An import holds bars that were available when it began,   *)
(* and the clock does not go back; a stored bar is overwritten and never   *)
(* removed, so the days an import stored stay stored.  The poll's own      *)
(* record of what is done has to be carried along with the import it is in *)
(* the middle of: the import is of the symbol at the head of the list, and *)
(* each day of its batch is either left to save or stored by now.          *)
(***************************************************************************)

ImportFits(i, t) ==
    /\ DOMAIN i = {"symbol", "batch", "left", "known", "busy"}
    /\ i.symbol \in Symbols /\ i.busy \in BOOLEAN
    /\ i.left \subseteq Days /\ i.known \subseteq Days
    /\ \A d \in i.left : i.batch[d] \in Bar /\ i.batch[d].available <= t

\* Days the provider answered with are all stored.
Kept(b, s, days) == days # {} /\ days \subseteq Days /\ \A d \in days : b[s][d] # NoBar

\* The lists a poll works through.
Todos == {<<Asset, Benchmark>>, <<Benchmark>>, <<>>}

Polls == [todo: Todos, done: SUBSET Symbols, failed: SUBSET Symbols, on: BOOLEAN,
          since: Nat, answered: [Symbols -> SUBSET Days]]

\* What the poll is in the middle of, given the bars.
PollFits(p, i, b) ==
    /\ p \in Polls
    /\ ~ p.on => ~ i.busy
    /\ i.busy => /\ p.todo # <<>> /\ Head(p.todo) = i.symbol
                 /\ DOMAIN i.batch # {} /\ DOMAIN i.batch \subseteq Days
                 /\ \A d \in DOMAIN i.batch : d \in i.left \/ b[i.symbol][d] # NoBar
    /\ \A s \in p.done : Kept(b, s, p.answered[s])

RunFits(r, b) ==
    /\ r.status \in {"none", "skipped", "succeeded", "partial", "failed"}
    /\ \A s \in r.imported : s \in Symbols /\ Kept(b, s, r.answered[s])
    /\ r.status = "succeeded" => Symbols = r.imported

ResearchFits(r) == r.days \subseteq Days /\ (r.days # {} => r.available <= r.at)

BarsFit(b, t) ==
    /\ b \in [Symbols -> [Days -> Bar \cup {NoBar}]]
    /\ \A s \in Symbols, d \in Days : b[s][d].available <= t

MarketInv ==
    /\ time \in 0..LastTime
    /\ BarsFit(bars, time)
    /\ DOMAIN import = Feeders /\ \A a \in Feeders : ImportFits(import[a], time)
    /\ PollFits(poll, import["poll"], bars)
    /\ ingesting = poll.on /\ poll.since <= time
    /\ RunFits(lastIngestion, bars)
    /\ ResearchFits(research)

LEMMA DaysFinite == IsFiniteSet(Days) /\ Days \subseteq Nat \ {0} /\ Days # {}
<1>1. IsFiniteSet(Days) /\ Days = 1..Cardinality(Days) /\ Days # {}
  BY MarketAssumption
<1>2. Cardinality(Days) \in Nat
  BY <1>1, FS_CardinalityType
<1>3. \A n \in Nat : 1..n \subseteq Nat \ {0}
  OBVIOUS
<1> QED BY <1>1, <1>2, <1>3

LEMMA LastTimeIsLater == LastTime \in Nat
<1>1. Days \subseteq Int
  BY DaysFinite
<1>2. \E d \in Days : \A e \in Days : e <= d
  BY <1>1, DaysFinite, LargestNumber
<1>3. \E d \in Days : \A e \in Days : d >= e
  BY <1>1, <1>2
<1>4. Max(Days) \in Days
  BY <1>3 DEF Max
<1>5. \A d \in Days : 2 * d + 1 \in Nat
  BY DaysFinite
<1> QED BY <1>4, <1>5 DEF LastTime, Available

LEMMA TodosShrink ==
    \A t \in Todos : t # <<>> => Head(t) \in Symbols /\ Tail(t) \in Todos
<1>1. Head(<<Asset, Benchmark>>) = Asset /\ Tail(<<Asset, Benchmark>>) = <<Benchmark>>
  OBVIOUS
<1>2. Head(<<Benchmark>>) = Benchmark /\ Tail(<<Benchmark>>) = <<>>
  OBVIOUS
<1> QED BY <1>1, <1>2 DEF Todos, Symbols

\* A poll that did nothing yet, or none.
LEMMA FreshPoll ==
    ASSUME NEW t \in Todos, NEW on \in BOOLEAN, NEW n \in Nat, NEW i, ~ i.busy, NEW b
    PROVE  PollFits([NoPoll EXCEPT !.todo = t, !.on = on, !.since = n], i, b)
<1> DEFINE p == [NoPoll EXCEPT !.todo = t, !.on = on, !.since = n]
<1>1. p \in Polls /\ p.done = {}
  BY DEF NoPoll, Polls
<1> HIDE DEF p
<1>2. PollFits(p, i, b)
  BY <1>1 DEF PollFits
<1> QED BY <1>2 DEF p

LEMMA NoPollFits ==
    /\ \A i, b : ~ i.busy => PollFits(NoPoll, i, b)
    /\ NoPoll.since = 0 /\ NoPoll.on = FALSE
<1>1. NoPoll \in Polls /\ NoPoll.done = {} /\ NoPoll.on = FALSE /\ NoPoll.since = 0
  BY DEF NoPoll, Polls, Todos
<1>2. \A i, b : ~ i.busy => PollFits(NoPoll, i, b)
  <2> TAKE i, b
  <2> HAVE ~ i.busy
  <2> HIDE DEF NoPoll
  <2> QED BY <1>1 DEF PollFits
<1> QED BY <1>1, <1>2

LEMMA MarketStarts == MarketInit => MarketInv
<1> SUFFICES ASSUME MarketInit PROVE MarketInv
  OBVIOUS
<1>1. BarsFit(bars, time)
  BY DEF MarketInit, BarsFit, NoBar
<1>2. DOMAIN import = Feeders /\ \A a \in Feeders : ImportFits(import[a], time)
  BY DEF MarketInit, ImportFits, Quiet, Symbols
<1>3. PollFits(poll, import["poll"], bars) /\ ingesting = poll.on /\ poll.since <= time
  <2>1. ~ import["poll"].busy /\ poll = NoPoll /\ time = 0 /\ ingesting = FALSE
    BY DEF MarketInit, Quiet, Feeders
  <2>2. PollFits(NoPoll, import["poll"], bars)
    <3> DEFINE i == import["poll"]
    <3>1. ~ i.busy
      BY <2>1
    <3> HIDE DEF i
    <3>2. PollFits(NoPoll, i, bars)
      BY <3>1, NoPollFits
    <3> QED BY <3>2 DEF i
  <2>3. NoPoll.on = FALSE /\ NoPoll.since = 0
    BY NoPollFits
  <2>4. PollFits(poll, import["poll"], bars)
    BY <2>1, <2>2, Zenon
  <2>5. ingesting = poll.on
    BY <2>1, <2>3, Zenon
  <2>6. poll.since <= time
    BY <2>1, <2>3
  <2> QED BY <2>4, <2>5, <2>6
<1>4. RunFits(lastIngestion, bars) /\ ResearchFits(research)
  BY DEF MarketInit, RunFits, NoIngestion, ResearchFits, NoResearch, Symbols
<1> QED BY <1>1, <1>2, <1>3, <1>4, LastTimeIsLater DEF MarketInv, MarketInit

\* Time alone spoils nothing.
LEMMA ClockKeeps ==
    ASSUME MarketInv, Tick24
    PROVE  MarketInv'
<1>1. time \in Int /\ time' = time + 1 /\ time' \in 0..LastTime
  BY LastTimeIsLater DEF MarketInv, Tick24
<1>2. \A x : x \in Int /\ x <= time => x <= time'
  BY <1>1
<1>3. BarsFit(bars, time')
  <2>1. \A s \in Symbols, d \in Days : bars[s][d].available \in Int
    BY DEF MarketInv, BarsFit, Bar, NoBar
  <2> QED BY <1>2, <2>1 DEF MarketInv, BarsFit
<1>4. \A a \in Feeders : ImportFits(import[a], time')
  <2>1. \A a \in Feeders, d \in Days : d \in import[a].left =>
            import[a].batch[d].available \in Int /\ import[a].batch[d].available <= time
    BY DEF MarketInv, ImportFits, Bar
  <2> QED BY <1>2, <2>1 DEF MarketInv, ImportFits
<1>5. poll.since \in Int /\ poll.since <= time
  BY DEF MarketInv, PollFits, Polls
<1> QED BY <1>1, <1>3, <1>4, <1>5 DEF MarketInv, Tick24

\* An import begins with bars that are available.
LEMMA StartFits ==
    ASSUME MarketInv, NEW a \in Feeders, NEW s \in Symbols, NEW batch,
           DOMAIN batch \subseteq Days, \A d \in DOMAIN batch : batch[d] \in Bar,
           ValidBatch(batch), StartImport(a, s, batch)
    PROVE  /\ DOMAIN import' = Feeders /\ \A b \in Feeders : ImportFits(import'[b], time)
           /\ \A b \in Feeders : b # a => import'[b] = import[b]
           /\ import'[a].busy /\ import'[a].symbol = s /\ import'[a].left = DOMAIN batch
           /\ import'[a].batch = batch
<1> DEFINE i == [symbol |-> s, batch |-> batch, left |-> DOMAIN batch, known |-> Stored(s),
                 busy |-> TRUE]
<1>1. ImportFits(i, time)
  BY DEF ImportFits, ValidBatch, Stored
<1>2. /\ DOMAIN import' = Feeders /\ import'[a] = i
      /\ \A b \in Feeders : b # a => import'[b] = import[b]
  BY DEF StartImport, MarketInv
<1>3. /\ import'[a].busy /\ import'[a].symbol = s /\ import'[a].left = DOMAIN batch
      /\ import'[a].batch = batch
  BY <1>2
<1>4. \A b \in Feeders : ImportFits(import'[b], time)
  <2> HIDE DEF i
  <2> QED BY <1>1, <1>2 DEF MarketInv
<1> QED BY <1>2, <1>3, <1>4

\* An import ends, and the poll goes on with its next symbol.
LEMMA FinishFits ==
    ASSUME MarketInv, NEW a \in Feeders, NEW ok \in BOOLEAN, FinishImport(a, ok),
           a = "poll" => /\ poll.todo # <<>>
                         /\ ok => Kept(bars, Head(poll.todo), DOMAIN import[a].batch)
    PROVE  /\ DOMAIN import' = Feeders /\ \A b \in Feeders : ImportFits(import'[b], time)
           /\ PollFits(poll', import'["poll"], bars) /\ poll'.on = poll.on /\ poll'.since = poll.since
<1>1. DOMAIN import' = Feeders /\ \A b \in Feeders : ImportFits(import'[b], time)
  BY DEF FinishImport, MarketInv, ImportFits, Quiet, Symbols
<1>2. CASE a # "poll"
  <2>1. poll' = poll /\ import'["poll"] = import["poll"]
    BY <1>2 DEF FinishImport, MarketInv, Feeders
  <2> QED BY <1>1, <2>1 DEF MarketInv
<1>3. CASE a = "poll"
  <2>1. ~ import'["poll"].busy
    BY <1>3 DEF FinishImport, MarketInv, Quiet
  <2>2. Head(poll.todo) \in Symbols /\ Tail(poll.todo) \in Todos
    BY <1>3, TodosShrink DEF MarketInv, PollFits, Polls
  <2> DEFINE s == Head(poll.todo)
             days == DOMAIN import["poll"].batch
  <2>3. /\ poll \in Polls /\ \A r \in poll.done : Kept(bars, r, poll.answered[r])
        /\ ok => Kept(bars, s, days) /\ days \in SUBSET Days
    BY <1>3 DEF MarketInv, PollFits, Kept
  <2>4. poll' = [poll EXCEPT !.todo = Tail(@),
                    !.done = IF ok THEN @ \cup {s} ELSE @,
                    !.answered[s] = IF ok THEN days ELSE @,
                    !.failed = IF ok THEN @ ELSE @ \cup {s}]
    BY <1>3 DEF FinishImport
  <2> HIDE DEF s, days
  <2>5. /\ poll'.on = poll.on /\ poll'.since = poll.since /\ poll' \in Polls
        /\ poll'.done = IF ok THEN poll.done \cup {s} ELSE poll.done
        /\ \A r \in Symbols : poll'.answered[r] =
               IF ok /\ r = s THEN days ELSE poll.answered[r]
    BY <2>2, <2>3, <2>4 DEF Polls, s
  <2>6. \A r \in poll'.done : Kept(bars, r, poll'.answered[r])
    BY <2>2, <2>3, <2>5 DEF Polls
  <2> QED BY <1>1, <2>1, <2>5, <2>6 DEF PollFits
<1> QED BY <1>2, <1>3

\* The bars may only become more.
LEMMA BarsGrow ==
    ASSUME NEW b, NEW c, \A s \in Symbols, d \in Days : b[s][d] # NoBar => c[s][d] # NoBar
    PROVE  \A s \in Symbols : \A days : Kept(b, s, days) => Kept(c, s, days)
BY DEF Kept

LEMMA SaveBarKeeps ==
    ASSUME MarketInv, NEW a \in Feeders, SaveBar(a)
    PROVE  MarketInv'
<1> DEFINE i == import[a]
           d == Min(i.left)
           s == i.symbol
<1>1. ImportFits(i, time) /\ i.busy /\ i.left # {}
  BY DEF MarketInv, SaveBar
<1>2. d \in i.left
  <2>0. i.left \subseteq Days
    BY <1>1 DEF ImportFits
  <2>1. i.left \subseteq Int /\ IsFiniteSet(i.left)
    <3> HIDE DEF i
    <3>1. IsFiniteSet(i.left)
      BY <2>0, DaysFinite, FS_Subset
    <3>2. \A x \in Days : x \in Int
      BY DaysFinite
    <3> QED BY <2>0, <3>1, <3>2
  <2>2. \E x \in i.left : \A y \in i.left : x <= y
    BY <1>1, <2>1, SmallestNumber
  <2> QED BY <2>2 DEF Min
<1>3. CASE Collision(a) /\ UNCHANGED bars
  <2>1. a = "poll" => poll.todo # <<>>
    BY <1>1 DEF MarketInv, PollFits
  <2>2. /\ DOMAIN import' = Feeders /\ \A b \in Feeders : ImportFits(import'[b], time)
        /\ PollFits(poll', import'["poll"], bars) /\ poll'.on = poll.on /\ poll'.since = poll.since
    BY <1>3, <2>1, FinishFits DEF Collision
  <2> QED BY <1>3, <2>2 DEF MarketInv, SaveBar
<1>4. CASE /\ bars' = [bars EXCEPT ![s][d] = Overwritten(@, i.batch[d])]
           /\ import' = [import EXCEPT ![a].left = @ \ {d}]
           /\ UNCHANGED poll
  <2> DEFINE new == Overwritten(bars[s][d], i.batch[d])
  <2>1. s \in Symbols /\ d \in Days /\ i.batch[d] \in Bar /\ i.batch[d].available <= time
    BY <1>1, <1>2 DEF ImportFits
  <2>2. BarsFit(bars, time)
    BY DEF MarketInv
  <2>3. new \in Bar /\ new # NoBar /\ new.available <= time
    <3>1. bars[s][d].adjusted \in Nat
      BY <2>1, <2>2 DEF BarsFit, Bar, NoBar
    <3> HIDE DEF s, d
    <3> QED BY <2>1, <3>1 DEF Overwritten, Bar, NoBar
  <2>4. /\ bars' \in [Symbols -> [Days -> Bar \cup {NoBar}]]
        /\ bars'[s][d] = new
        /\ \A r \in Symbols, e \in Days : r # s \/ e # d => bars'[r][e] = bars[r][e]
    <3>1. bars' = [bars EXCEPT ![s][d] = new]
      BY <1>4
    <3>2. bars \in [Symbols -> [Days -> Bar \cup {NoBar}]]
      BY <2>2 DEF BarsFit
    <3> HIDE DEF new, s, d
    <3> QED BY <2>1, <2>3, <3>1, <3>2
  <2>5. BarsFit(bars', time) /\ bars'[s][d] # NoBar
    <3> HIDE DEF new, s, d
    <3> QED BY <2>1, <2>2, <2>3, <2>4 DEF BarsFit
  <2>5a. \A r \in Symbols, e \in Days : bars[r][e] # NoBar => bars'[r][e] # NoBar
    <3> HIDE DEF new, s, d
    <3> QED BY <2>4, <2>5
  <2>6. \A r \in Symbols : \A days : Kept(bars, r, days) => Kept(bars', r, days)
    BY <2>5a, BarsGrow
  <2>7. /\ DOMAIN import' = Feeders
        /\ \A b \in Feeders : b # a => import'[b] = import[b]
        /\ import'[a] = [i EXCEPT !.left = @ \ {d}]
    BY <1>4 DEF MarketInv
  <2>8. /\ import'[a].symbol = s /\ import'[a].busy = i.busy
        /\ import'[a].batch = i.batch /\ import'[a].left = i.left \ {d}
        /\ ImportFits(import'[a], time)
    <3> HIDE DEF i, s, d
    <3> QED BY <1>1, <2>7 DEF ImportFits, s
  <2>9. \A b \in Feeders : ImportFits(import'[b], time)
    BY <2>7, <2>8 DEF MarketInv
  <2>10. PollFits(poll', import'["poll"], bars')
    <3> DEFINE held == import["poll"]
               goes == import'["poll"]
    <3>1. PollFits(poll, held, bars) /\ poll' = poll
      BY <1>4 DEF MarketInv
    <3>2. /\ goes.busy = held.busy /\ goes.symbol = held.symbol /\ goes.batch = held.batch
          /\ held.symbol \in Symbols
          /\ goes.left = held.left \/ (a = "poll" /\ goes.left = held.left \ {d} /\ held.symbol = s)
      <4>1. CASE a = "poll"
        BY <1>1, <2>8, <4>1 DEF ImportFits
      <4>2. CASE a # "poll"
        BY <2>7, <4>2 DEF MarketInv, ImportFits, Feeders
      <4> QED BY <4>1, <4>2
    <3> HIDE DEF goes, held, s, d
    <3>3. ASSUME goes.busy, NEW e \in DOMAIN goes.batch
          PROVE  e \in goes.left \/ bars'[goes.symbol][e] # NoBar
      <4>1. e \in Days /\ (e \in held.left \/ bars[held.symbol][e] # NoBar)
        BY <3>1, <3>2, <3>3 DEF PollFits
      <4>2. CASE bars[held.symbol][e] # NoBar
        BY <2>5a, <3>2, <4>1, <4>2
      <4>3. CASE e \in held.left
        BY <2>5, <3>2, <4>3
      <4> QED BY <4>1, <4>2, <4>3
    <3>4. \A r \in poll.done : r \in Symbols
      BY <3>1 DEF PollFits, Polls
    <3> QED BY <2>6, <3>1, <3>2, <3>3, <3>4 DEF PollFits, goes
  <2>11. RunFits(lastIngestion, bars')
    BY <2>6 DEF MarketInv, RunFits
  <2> QED BY <1>4, <2>5, <2>7, <2>9, <2>10, <2>11 DEF MarketInv, SaveBar
<1> QED BY <1>3, <1>4 DEF SaveBar

LEMMA ImportDoneKeeps ==
    ASSUME MarketInv, NEW a \in Feeders, ImportDone(a)
    PROVE  MarketInv'
<1>1. a = "poll" => poll.todo # <<>> /\ Kept(bars, Head(poll.todo), DOMAIN import[a].batch)
  BY DEF MarketInv, PollFits, ImportDone, Kept
<1>2. FinishImport(a, TRUE)
  BY DEF ImportDone
<1>3. /\ DOMAIN import' = Feeders /\ \A b \in Feeders : ImportFits(import'[b], time)
      /\ PollFits(poll', import'["poll"], bars) /\ poll'.on = poll.on /\ poll'.since = poll.since
  BY <1>1, <1>2, FinishFits
<1> QED BY <1>3 DEF MarketInv, ImportDone

LEMMA UploadKeeps ==
    ASSUME MarketInv, UploadRequest
    PROVE  MarketInv'
<1>1. PICK u \in Uploads : ValidBatch(u.bars) /\ StartImport("upload", u.symbol, u.bars)
  BY DEF UploadRequest
<1>2. /\ u.symbol \in Symbols /\ DOMAIN u.bars \subseteq Days
      /\ \A d \in DOMAIN u.bars : u.bars[d] \in Bar
  BY MarketAssumption
<1>3. /\ DOMAIN import' = Feeders /\ \A b \in Feeders : ImportFits(import'[b], time)
      /\ \A b \in Feeders : b # "upload" => import'[b] = import[b]
  <2>1. "upload" \in Feeders
    BY DEF Feeders
  <2> QED BY <1>1, <1>2, <2>1, StartFits
<1>4. import'["poll"] = import["poll"]
  BY <1>3 DEF Feeders
<1> QED BY <1>3, <1>4 DEF MarketInv, UploadRequest

LEMMA PollBegins ==
    ASSUME MarketInv, NEW force \in BOOLEAN, PollUnlessRunning(force),
           UNCHANGED <<time, bars, import, research>>
    PROVE  MarketInv'
<1>1. CASE Skip
  BY <1>1 DEF Skip, MarketInv, RunFits, NoIngestion
<1>2. CASE ~ ingesting /\ BeginPoll
  <2>1. ~ import["poll"].busy
    BY <1>2 DEF MarketInv, PollFits
  <2>2. PollFits(poll', import["poll"], bars) /\ poll'.on = ingesting' /\ poll'.since <= time
    <3>1. time \in Nat
      BY LastTimeIsLater DEF MarketInv
    <3>2. /\ poll' = [NoPoll EXCEPT !.todo = <<Asset, Benchmark>>, !.on = TRUE, !.since = time]
          /\ ingesting' = TRUE /\ <<Asset, Benchmark>> \in Todos
      BY <1>2 DEF BeginPoll, Todos
    <3>3. poll'.on = TRUE /\ poll'.since = time
      BY <3>2 DEF NoPoll
    <3>4. PollFits(poll', import["poll"], bars)
      BY <2>1, <3>1, <3>2, FreshPoll
    <3> QED BY <3>1, <3>2, <3>3, <3>4
  <2> QED BY <1>2, <2>2 DEF MarketInv, BeginPoll
<1> QED BY <1>1, <1>2 DEF PollUnlessRunning

LEMMA FetchKeeps ==
    ASSUME MarketInv, FetchAnswered \/ FetchFailed
    PROVE  MarketInv'
<1>1. /\ poll.on /\ ~ import["poll"].busy /\ poll.todo # <<>> /\ "poll" \in Feeders
      /\ UNCHANGED <<time, bars, ingesting, lastIngestion, research>>
  BY DEF FetchAnswered, FetchFailed, Fetching, Feeders
<1>1a. Head(poll.todo) \in Symbols
  BY <1>1, TodosShrink DEF MarketInv, PollFits, Polls
<1>2. CASE FinishImport("poll", FALSE)
  <2>1. /\ DOMAIN import' = Feeders /\ \A b \in Feeders : ImportFits(import'[b], time)
        /\ PollFits(poll', import'["poll"], bars) /\ poll'.on = poll.on /\ poll'.since = poll.since
    BY <1>1, <1>2, FinishFits
  <2> QED BY <1>1, <2>1 DEF MarketInv
<1> DEFINE s == Head(poll.todo)
           batch == Fetched(s)
<1>3. CASE DOMAIN batch # {} /\ ValidBatch(batch) /\ StartImport("poll", s, batch) /\ UNCHANGED poll
  <2>1. DOMAIN batch \subseteq Days /\ \A d \in DOMAIN batch : batch[d] \in Bar
    <3>1. \A d \in DOMAIN Feed[s] : d \in Days /\ Feed[s][d] \in Nat \ {0}
      BY <1>1a, MarketAssumption
    <3>2. \A d \in Days : Available(d) \in Nat
      BY DaysFinite DEF Available
    <3> HIDE DEF s
    <3> QED BY <3>1, <3>2 DEF Fetched, Bar
  <2>2. /\ DOMAIN import' = Feeders /\ \A b \in Feeders : ImportFits(import'[b], time)
        /\ import'["poll"].busy /\ import'["poll"].symbol = s
        /\ import'["poll"].left = DOMAIN batch /\ import'["poll"].batch = batch
    <3> HIDE DEF s, batch
    <3> QED BY <1>1, <1>1a, <1>3, <2>1, StartFits DEF s
  <2>3. PollFits(poll', import'["poll"], bars)
    <3> HIDE DEF batch
    <3> QED BY <1>1, <1>3, <2>1, <2>2 DEF MarketInv, PollFits
  <2> QED BY <1>1, <1>3, <2>2, <2>3 DEF MarketInv
<1> QED BY <1>2, <1>3 DEF FetchAnswered, FetchFailed

LEMMA PollEndsKeeps ==
    ASSUME MarketInv, PollEnds
    PROVE  MarketInv'
<1>0. time \in Nat
  BY LastTimeIsLater DEF MarketInv
<1>1. RunFits(lastIngestion', bars)
  BY DEF PollEnds, MarketInv, PollFits, Polls, RunFits, StatusOf
<1>2. PollFits(poll', import["poll"], bars) /\ ingesting' = poll'.on /\ poll'.since <= time
  <2>1. poll' = NoPoll /\ ~ import["poll"].busy /\ ingesting' = FALSE
    BY DEF PollEnds, FlagAfter
  <2>2. PollFits(NoPoll, import["poll"], bars)
    <3> DEFINE i == import["poll"]
    <3>1. ~ i.busy
      BY <2>1
    <3> HIDE DEF i
    <3>2. PollFits(NoPoll, i, bars)
      BY <3>1, NoPollFits
    <3> QED BY <3>2 DEF i
  <2>3. NoPoll.on = FALSE /\ NoPoll.since = 0
    BY NoPollFits
  <2>4. PollFits(poll', import["poll"], bars)
    BY <2>1, <2>2, Zenon
  <2>5. ingesting' = poll'.on
    BY <2>1, <2>3, Zenon
  <2>6. poll'.since <= time
    BY <1>0, <2>1, <2>3
  <2> QED BY <2>4, <2>5, <2>6
<1> QED BY <1>1, <1>2 DEF MarketInv, PollEnds

LEMMA RestartKeeps ==
    ASSUME MarketInv, Restart
    PROVE  MarketInv'
<1>1. DOMAIN import' = Feeders /\ \A b \in Feeders : ImportFits(import'[b], time)
  BY DEF Restart, ImportFits, Quiet, Symbols
<1>0. time \in Nat
  BY LastTimeIsLater DEF MarketInv
<1>2. PollFits(poll', import'["poll"], bars) /\ ingesting' = poll'.on /\ poll'.since <= time
  <2>1. poll' = NoPoll /\ ~ import'["poll"].busy /\ ingesting' = FALSE
    BY DEF Restart, Quiet, Feeders
  <2>2. PollFits(NoPoll, import'["poll"], bars)
    <3> DEFINE i == import'["poll"]
    <3>1. ~ i.busy
      BY <2>1
    <3> HIDE DEF i
    <3>2. PollFits(NoPoll, i, bars)
      BY <3>1, NoPollFits
    <3> QED BY <3>2 DEF i
  <2>3. NoPoll.on = FALSE /\ NoPoll.since = 0
    BY NoPollFits
  <2>4. PollFits(poll', import'["poll"], bars)
    BY <2>1, <2>2, Zenon
  <2>5. ingesting' = poll'.on
    BY <2>1, <2>3, Zenon
  <2>6. poll'.since <= time
    BY <1>0, <2>1, <2>3
  <2> QED BY <2>4, <2>5, <2>6
<1> QED BY <1>1, <1>2 DEF MarketInv, Restart

LEMMA AlignedDays == IsFiniteSet(Aligned) /\ Aligned \subseteq Days
BY DaysFinite, FS_Subset DEF Aligned, Stored

LEMMA ResearchKeeps ==
    ASSUME MarketInv, BaselineResearch
    PROVE  MarketInv'
<1> DEFINE times == {bars[s][d].available : s \in Symbols, d \in Aligned}
<1>1. Aligned # {}
  <2>1. Cardinality({}) = 0 /\ ~ (0 >= MinBars)
    <3>1. MinBars \in Nat /\ Lookback \in Nat /\ MinBars > Lookback
      BY MarketAssumption
    <3> QED BY <3>1, FS_EmptySet
  <2> QED BY <2>1 DEF BaselineResearch
<1>2. times \subseteq Int /\ times # {} /\ \A t \in times : t <= time
  <2>1. \A s \in Symbols, d \in Aligned :
            bars[s][d].available \in Int /\ bars[s][d].available <= time
    BY AlignedDays DEF MarketInv, BarsFit, Bar, NoBar
  <2>2. Asset \in Symbols
    BY DEF Symbols
  <2>3. \A t \in times : t \in Int /\ t <= time
    BY <2>1
  <2>4. PICK d \in Aligned : TRUE
    BY <1>1
  <2>5. bars[Asset][d].available \in times
    BY <2>2, <2>4
  <2> HIDE DEF times
  <2> QED BY <2>3, <2>5
<1>3. IsFiniteSet(times)
  <2> DEFINE f == [x \in Symbols \X Aligned |-> bars[x[1]][x[2]].available]
  <2>1. IsFiniteSet(Symbols \X Aligned)
    <3>1. IsFiniteSet(Symbols)
      <4>1. IsFiniteSet({Asset}) /\ IsFiniteSet({Benchmark})
        BY FS_Singleton
      <4>2. Symbols = {Asset} \cup {Benchmark}
        BY DEF Symbols
      <4> QED BY <4>1, <4>2, FS_Union
    <3> QED BY <3>1, AlignedDays, FS_Product
  <2>2. IsFiniteSet({f[x] : x \in Symbols \X Aligned})
    <3> HIDE DEF f
    <3> QED BY <2>1, FiniteValues
  <2>3. times \subseteq {f[x] : x \in Symbols \X Aligned}
    <3> SUFFICES ASSUME NEW s \in Symbols, NEW d \in Aligned
                 PROVE  bars[s][d].available \in {f[x] : x \in Symbols \X Aligned}
      OBVIOUS
    <3>1. <<s, d>> \in Symbols \X Aligned /\ f[<<s, d>>] = bars[s][d].available
      OBVIOUS
    <3> HIDE DEF f
    <3> QED BY <3>1
  <2> HIDE DEF f, times
  <2> QED BY <2>2, <2>3, FS_Subset
<1>4. Max(times) \in times
  <2> HIDE DEF times
  <2>1. \E x \in times : \A y \in times : y <= x
    BY <1>2, <1>3, LargestNumber
  <2> QED BY <1>2, <2>1 DEF Max
<1>5. ResearchFits(research')
  <2>1. research'.days = Aligned /\ research'.available = Max(times) /\ research'.at = time
    BY DEF BaselineResearch, AvailableFrom
  <2> QED BY <1>2, <1>4, <2>1, AlignedDays DEF ResearchFits
<1> QED BY <1>5 DEF MarketInv, BaselineResearch

LEMMA MarketStep == MarketInv /\ [MarketNext]_marketVars => MarketInv'
<1> SUFFICES ASSUME MarketInv, [MarketNext]_marketVars PROVE MarketInv'
  OBVIOUS
<1>1. CASE UNCHANGED marketVars
  BY <1>1 DEF MarketInv, marketVars
<1>2. CASE ManualPoll
  BY <1>2, PollBegins DEF ManualPoll
<1>3. CASE CronIngest
  BY <1>3, PollBegins DEF CronIngest
<1> QED BY <1>1, <1>2, <1>3, ClockKeeps, UploadKeeps, SaveBarKeeps, ImportDoneKeeps, FetchKeeps,
           PollEndsKeeps, RestartKeeps, ResearchKeeps DEF MarketNext

THEOREM MarketInvariance == MarketSpec => []MarketInv
BY MarketStarts, MarketStep, PTL DEF MarketSpec

\* The ledger holds nothing from the future, a research run rests on nothing that was not
\* available when it was made, and every day the provider answered with of a symbol that an
\* ingestion run counts as imported is stored (LedgerRecord), however imports, polls, requests
\* and restarts interleave.
THEOREM LedgerSound == MarketSpec => []LedgerRecord
<1>1. MarketInv => LedgerRecord
  <2> SUFFICES ASSUME MarketInv PROVE LedgerRecord
    OBVIOUS
  <2>1. NothingFromTheFuture
    BY DEF MarketInv, BarsFit, ResearchFits, NothingFromTheFuture, Stored
  <2>2. ImportedIsStored
    BY DEF MarketInv, RunFits, Kept, ImportedIsStored, Stored
  <2> QED BY <2>1, <2>2 DEF LedgerRecord
<1> QED BY <1>1, MarketInvariance, PTL

-----------------------------------------------------------------------------
(***************************************************************************)
(* Fills.  A plan is executed when the cash covers all its buys and every  *)
(* position all its sells, so after its first i orders the cash covers the *)
(* buys, and every position the sells, that are still to come.  Cash plus  *)
(* positions plus costs stay what they were, order by order, and so do the *)
(* realized and the unrealized gains plus costs.  A position that leaves   *)
(* the portfolio at value 0 takes its basis out of the unrealized gains,   *)
(* which is what `dropped' counts.                                         *)
(***************************************************************************)

Position == [value: Int, quantity: Nat, basis: Nat, realized: Int]
FillState == [cash: Int, costs: Int, booked: Int, positions: [Traded -> Position]]

IsOrder(o) ==
    /\ o.symbol \in Traded /\ o.side \in Sides
    /\ o.notional \in Nat \ {0} /\ o.price \in Nat \ {0} /\ o.notional % o.price = 0

LEMMA PlanOrders ==
    ASSUME NEW plan \in OrderPlans
    PROVE  Len(plan) \in Nat /\ DOMAIN plan = 1..Len(plan) /\ \A i \in DOMAIN plan : IsOrder(plan[i])
<1>1. plan \in Seq({plan[i] : i \in DOMAIN plan})
  BY PaperFillsAssumption
<1>2. Len(plan) \in Nat /\ DOMAIN plan = 1..Len(plan)
  <2> DEFINE A == {plan[i] : i \in DOMAIN plan}
  <2>1. plan \in Seq(A)
    BY <1>1
  <2> HIDE DEF A
  <2> QED BY <2>1, LenProperties
<1>3. \A i \in DOMAIN plan : plan[i].symbol \in Traded
  BY DEF Traded
<1> QED BY <1>2, <1>3, PaperFillsAssumption DEF IsOrder

-----------------------------------------------------------------------------
(* Arithmetic. *)

LEMMA DivBounds ==
    \A a \in Nat, d \in Nat \ {0} :
        (a \div d) \in Nat /\ d * (a \div d) <= a /\ a < d * (a \div d) + d
OBVIOUS

LEMMA TimesLess == \A d \in Nat \ {0}, x, y \in Int : d * x < d * y => x < y
OBVIOUS

LEMMA TimesGrows == \A b, k, q \in Nat : k <= q => b * k <= b * q /\ b * k \in Nat
OBVIOUS

\* The costs of an order are no more than its amount.
LEMMA CostOf ==
    ASSUME NEW o, o.notional \in Nat \ {0}
    PROVE  ExecutionCost(o) \in Nat /\ ExecutionCost(o) <= o.notional
<1> DEFINE n == o.notional
           x == (2 * n + 1000) \div 2000
           y == (2 * n + 2000) \div 4000
<1>1. /\ x \in Nat /\ 2000 * x <= 2 * n + 1000
      /\ y \in Nat /\ 4000 * y <= 2 * n + 2000
  OBVIOUS
<1>2. x + y <= n
  <2>1. CASE n < 500
    <3>1. x < 1 /\ y < 1
      BY <1>1, <2>1
    <3> QED BY <1>1, <3>1
  <2>2. CASE n >= 500
    BY <1>1, <2>2
  <2> QED BY <2>1, <2>2
<1>3. ExecutionCost(o) = x + y
  BY DEF ExecutionCost, Fee, Slippage, Rounded
<1> QED BY <1>1, <1>2, <1>3

\* The basis that goes with a part of the quantity is a part of the basis.
LEMMA PartOfBasis ==
    ASSUME NEW b \in Nat, NEW q \in Nat \ {0}, NEW k \in Nat, k <= q
    PROVE  Rounded(b * k, q) \in Nat /\ Rounded(b * k, q) <= b
<1> DEFINE a == 2 * (b * k) + q
           d == 2 * q
           r == a \div d
<1>1. a \in Nat /\ d \in Nat \ {0}
  BY TimesGrows
<1>2. r \in Nat /\ d * r <= a /\ a < d * r + d
  <2> HIDE DEF a, d
  <2> QED BY <1>1, DivBounds
<1>3. b * k <= b * q /\ b * q \in Nat
  BY TimesGrows
<1>4. d * (b + 1) = 2 * (b * q) + d /\ d * (r + 1) = d * r + d /\ d * b = 2 * (b * q)
  <2> HIDE DEF r
  <2>1. \A x, y \in Nat : (2 * y) * (x + 1) = 2 * (x * y) + 2 * y
    OBVIOUS
  <2>2. \A x, y \in Nat : y * (x + 1) = y * x + y
    OBVIOUS
  <2>3. \A x, y \in Nat : (2 * y) * x = 2 * (x * y)
    OBVIOUS
  <2> QED BY <1>1, <1>2, <2>1, <2>2, <2>3
<1>5. r <= b
  <2>1. d * r < d * (b + 1)
    <3>1. a < 2 * (b * q) + d
      <4> DEFINE u == b * k
                 v == b * q
      <4>1. u \in Nat /\ v \in Nat /\ u <= v
        BY <1>3, TimesGrows
      <4>2. 2 * u + q < 2 * v + 2 * q
        <5> HIDE DEF u, v
        <5> QED BY <4>1
      <4> QED BY <4>2
    <3>2. d * r \in Nat
      <4> HIDE DEF r, d
      <4> QED BY <1>1, <1>2
    <3>3. d * (b + 1) = 2 * (b * q) + d
      BY <1>4
    <3> HIDE DEF a, d, r
    <3>4. d * (b + 1) \in Int
      BY <1>1
    <3> QED BY <1>1, <1>2, <3>1, <3>2, <3>3, <3>4
  <2> HIDE DEF r, d
  <2>2. r < b + 1
    BY <1>1, <1>2, <2>1, TimesLess
  <2> QED BY <1>2, <2>2
<1>6. Rounded(b * k, q) = r
  BY DEF Rounded
<1> QED BY <1>2, <1>5, <1>6

-----------------------------------------------------------------------------
(* One order. *)

LEMMA BuyLeaves ==
    ASSUME NEW p \in Position, NEW o, IsOrder(o)
    PROVE  /\ Bought(p, o) \in Position
           /\ Bought(p, o).value = p.value + o.notional
           /\ Bought(p, o).quantity = p.quantity + o.notional \div o.price
           /\ Bought(p, o).basis = p.basis + o.notional + ExecutionCost(o)
           /\ Bought(p, o).realized = p.realized
<1>1. ExecutionCost(o) \in Nat /\ o.notional \div o.price \in Nat
  BY CostOf, DivBounds DEF IsOrder
<1> QED BY <1>1 DEF Bought, BasisAfterBuy, Position, IsOrder

LEMMA SoldBasisFits ==
    ASSUME NEW p \in Position, NEW k \in Nat, k <= p.quantity
    PROVE  SoldBasis(p, k) \in Nat /\ SoldBasis(p, k) <= p.basis
<1>1. CASE p.quantity = 0
  BY <1>1 DEF SoldBasis, Position
<1>2. CASE p.quantity # 0
  <2>1. p.basis \in Nat /\ p.quantity \in Nat \ {0}
    BY <1>2 DEF Position
  <2> QED BY <1>2, <2>1, PartOfBasis DEF SoldBasis
<1> QED BY <1>1, <1>2

LEMMA SellLeaves ==
    ASSUME NEW p \in Position, NEW o, IsOrder(o)
    PROVE  \E k \in Nat :
              /\ k = IF o.notional \div o.price <= p.quantity THEN o.notional \div o.price
                     ELSE p.quantity
              /\ k <= p.quantity
              /\ Sold(p, o) \in Position
              /\ Sold(p, o).value = p.value - o.notional
              /\ Sold(p, o).quantity = p.quantity - k
              /\ Sold(p, o).basis = p.basis - SoldBasis(p, k)
              /\ Sold(p, o).realized =
                    p.realized + (o.notional - ExecutionCost(o) - SoldBasis(p, k))
<1> DEFINE m == o.notional \div o.price
           k == IF m <= p.quantity THEN m ELSE p.quantity
<1>1. /\ ExecutionCost(o) \in Nat /\ m \in Nat /\ o.notional \in Nat
      /\ p.value \in Int /\ p.quantity \in Nat /\ p.basis \in Nat /\ p.realized \in Int
  BY CostOf, DivBounds DEF IsOrder, Position
<1> HIDE DEF m
<1>2. k \in Nat /\ k <= p.quantity /\ Min({m, p.quantity}) = k
  BY <1>1, MinOfTwo
<1> HIDE DEF k
<1>3. SoldBasis(p, k) \in Nat /\ SoldBasis(p, k) <= p.basis
  BY <1>2, SoldBasisFits
<1>4. Max({0, p.basis - SoldBasis(p, k)}) = p.basis - SoldBasis(p, k)
  <2>1. 0 <= p.basis - SoldBasis(p, k) /\ p.basis - SoldBasis(p, k) \in Int /\ 0 \in Int
    BY <1>1, <1>3
  <2> QED BY <2>1, MaxOfTwo
<1>5. Sold(p, o) = [value |-> p.value - o.notional,
                    quantity |-> p.quantity - k,
                    basis |-> p.basis - SoldBasis(p, k),
                    realized |-> p.realized + (o.notional - ExecutionCost(o) - SoldBasis(p, k))]
  <2>1. Sold(p, o) = [value |-> p.value - o.notional,
                    quantity |-> p.quantity - k,
                    basis |-> Max({0, p.basis - SoldBasis(p, k)}),
                    realized |-> p.realized + RealizedBySell(p, o, k)]
    BY <1>2 DEF Sold, m
  <2> QED BY <1>4, <2>1 DEF RealizedBySell
<1>6. Sold(p, o) \in Position
  BY <1>1, <1>2, <1>3, <1>5 DEF Position
<1> QED BY <1>2, <1>5, <1>6 DEF k, m

FilledPosition(p, o) == IF o.side = "BUY" THEN Bought(p, o) ELSE Sold(p, o)

LEMMA FillLeaves ==
    ASSUME NEW st \in FillState, NEW o, IsOrder(o)
    PROVE  /\ Fill(st, o) \in FillState
           /\ Fill(st, o).cash = IF o.side = "BUY" THEN st.cash - o.notional - ExecutionCost(o)
                                 ELSE st.cash + o.notional - ExecutionCost(o)
           /\ Fill(st, o).costs = st.costs + ExecutionCost(o)
           /\ Fill(st, o).positions[o.symbol] = FilledPosition(st.positions[o.symbol], o)
           /\ Fill(st, o).booked = st.booked + FilledPosition(st.positions[o.symbol], o).realized
                                     - st.positions[o.symbol].realized
           /\ \A s \in Traded : s # o.symbol => Fill(st, o).positions[s] = st.positions[s]
<1> DEFINE before == st.positions[o.symbol]
           after == FilledPosition(before, o)
           paid == IF o.side = "BUY" THEN o.notional ELSE - o.notional
           c == ExecutionCost(o)
<1>1. /\ o.symbol \in Traded /\ o.notional \in Nat /\ c \in Nat
      /\ before \in Position /\ st.cash \in Int /\ st.costs \in Int /\ st.booked \in Int
      /\ st.positions \in [Traded -> Position]
  BY CostOf DEF IsOrder, FillState
<1>2. after \in Position
  BY <1>1, BuyLeaves, SellLeaves DEF FilledPosition
<1>3. Fill(st, o) = [st EXCEPT !.cash = @ - paid - c, !.costs = @ + c,
                               !.booked = @ + after.realized - before.realized,
                               !.positions[o.symbol] = after]
  BY DEF Fill, FilledPosition
<1>4. after.realized \in Int /\ before.realized \in Int /\ paid \in Int
  BY <1>1, <1>2 DEF Position
<1> HIDE DEF after, before, paid, c
<1>a. [st.positions EXCEPT ![o.symbol] = after] \in [Traded -> Position]
  BY <1>1, <1>2
<1>b. /\ st.cash - paid - c \in Int /\ st.costs + c \in Int
       /\ st.booked + after.realized - before.realized \in Int
  BY <1>1, <1>4
<1>c. Fill(st, o) = [cash |-> st.cash - paid - c, costs |-> st.costs + c,
                      booked |-> st.booked + after.realized - before.realized,
                      positions |-> [st.positions EXCEPT ![o.symbol] = after]]
  BY <1>3 DEF FillState
<1>5. /\ Fill(st, o).cash = st.cash - paid - c
      /\ Fill(st, o).costs = st.costs + c
      /\ Fill(st, o).booked = st.booked + after.realized - before.realized
      /\ Fill(st, o).positions = [st.positions EXCEPT ![o.symbol] = after]
      /\ Fill(st, o) \in FillState
  BY <1>a, <1>b, <1>c DEF FillState
<1>6. /\ Fill(st, o).positions[o.symbol] = after
      /\ \A s \in Traded : s # o.symbol => Fill(st, o).positions[s] = st.positions[s]
  BY <1>1, <1>5
<1>7. Fill(st, o).cash = IF o.side = "BUY" THEN st.cash - o.notional - c
                         ELSE st.cash + o.notional - c
  BY <1>1, <1>5 DEF paid
<1> QED BY <1>5, <1>6, <1>7 DEF after, before, c

\* What any fill keeps: cash, positions and costs together.
LEMMA FillBalances ==
    ASSUME NEW st \in FillState, NEW o, IsOrder(o)
    PROVE  \A t : t = Fill(st, o) =>
               /\ t.positions[o.symbol].value =
                      IF o.side = "BUY" THEN st.positions[o.symbol].value + o.notional
                      ELSE st.positions[o.symbol].value - o.notional
               /\ t.cash + t.positions[o.symbol].value + t.costs =
                      st.cash + st.positions[o.symbol].value + st.costs
               /\ t.booked + (t.positions[o.symbol].value - t.positions[o.symbol].basis) + t.costs =
                      st.booked + (st.positions[o.symbol].value - st.positions[o.symbol].basis) + st.costs
<1> TAKE t
<1> HAVE t = Fill(st, o)
<1> DEFINE before == st.positions[o.symbol]
           after == FilledPosition(before, o)
           c == ExecutionCost(o)
<1>1. /\ o.notional \in Nat /\ c \in Nat /\ before \in Position /\ o.side \in Sides
      /\ st.cash \in Int /\ st.costs \in Int /\ st.booked \in Int
  BY CostOf DEF IsOrder, FillState
<1>2. /\ t.cash = IF o.side = "BUY" THEN st.cash - o.notional - c ELSE st.cash + o.notional - c
      /\ t.costs = st.costs + c
      /\ t.positions[o.symbol] = after
      /\ t.booked = st.booked + after.realized - before.realized
  BY FillLeaves
<1>3. CASE o.side = "BUY"
  <2>1. /\ after.value = before.value + o.notional
        /\ after.basis = before.basis + o.notional + c
        /\ after.realized = before.realized
    BY <1>1, <1>3, BuyLeaves DEF FilledPosition
  <2> HIDE DEF after, before, c
  <2> QED BY <1>1, <1>2, <1>3, <2>1 DEF Position, before
<1>4. CASE o.side # "BUY"
  <2>1. PICK k \in Nat :
          /\ k <= before.quantity
          /\ after.value = before.value - o.notional
          /\ after.basis = before.basis - SoldBasis(before, k)
          /\ after.realized = before.realized + (o.notional - c - SoldBasis(before, k))
    BY <1>1, <1>4, SellLeaves DEF FilledPosition
  <2>2. SoldBasis(before, k) \in Nat
    BY <1>1, <2>1, SoldBasisFits
  <2> HIDE DEF after, before, c
  <2> QED BY <1>1, <1>2, <1>4, <2>1, <2>2 DEF Position, before
<1> QED BY <1>3, <1>4

-----------------------------------------------------------------------------
(* The orders of a plan, one after the other. *)

FillStart == [cash |-> book.cash, costs |-> 0, booked |-> 0,
              positions |-> [s \in Traded |-> Recounted(book.positions[s])]]

LEMMA FillsRun ==
    ASSUME NEW plan, Len(plan) \in Nat
    PROVE  /\ Fills(plan)[0] = FillStart
           /\ \A i \in 0..Len(plan) :
                 i < Len(plan) => Fills(plan)[i + 1] = Fill(Fills(plan)[i], plan[i + 1])
<1> DEFINE n == Len(plan)
           IsRun(g, k) == g = [i \in 0..k |-> IF i = 0 THEN FillStart ELSE Fill(g[i - 1], plan[i])]
           X == {k \in 0..n : \E g : IsRun(g, k)}
<1>1. 0 \in X
  <2> DEFINE g == [i \in 0..0 |-> FillStart]
  <2>1. g = [i \in 0..0 |-> IF i = 0 THEN FillStart ELSE Fill(g[i - 1], plan[i])]
    OBVIOUS
  <2>2. IsRun(g, 0) /\ 0 \in 0..n
    BY <2>1
  <2> HIDE DEF g, IsRun
  <2> QED BY <2>2
<1>2. ASSUME NEW k \in 0..n, k \in X, k < n PROVE k + 1 \in X
  <2>1. PICK g : IsRun(g, k)
    BY <1>2
  <2> DEFINE next == Fill(g[k], plan[k + 1])
             h == [i \in 0..(k + 1) |-> IF i = k + 1 THEN next ELSE g[i]]
  <2>2. ASSUME NEW i \in 0..(k + 1)
        PROVE  h[i] = IF i = 0 THEN FillStart ELSE Fill(h[i - 1], plan[i])
    <3>1. CASE i = k + 1
      <4>1. i # 0 /\ i - 1 = k /\ h[i - 1] = g[k] /\ h[i] = next
        BY <3>1
      <4> QED BY <3>1, <4>1
    <3>2. CASE i # k + 1
      <4>1. i \in 0..k /\ h[i] = g[i] /\ (i # 0 => i - 1 \in 0..k /\ h[i - 1] = g[i - 1])
        BY <3>2
      <4>2. g[i] = IF i = 0 THEN FillStart ELSE Fill(g[i - 1], plan[i])
        BY <2>1, <4>1
      <4> QED BY <4>1, <4>2
    <3> QED BY <3>1, <3>2
  <2>3. IsRun(h, k + 1)
    <3>1. h = [i \in 0..(k + 1) |-> h[i]]
      OBVIOUS
    <3> HIDE DEF h
    <3> QED BY <2>2, <3>1
  <2> QED BY <1>2, <2>3
<1>3. n \in X
  <2> HIDE DEF X
  <2>1. \A k \in 0..n : k \in X
    BY <1>1, <1>2, PrefixInduction
  <2> QED BY <2>1
<1>4. Fills(plan) = CHOOSE g : IsRun(g, n)
  BY DEF Fills, FillStart
<1>5. IsRun(Fills(plan), n)
  BY <1>3, <1>4
<1> QED BY <1>5

\* Amounts by order and, of the plan, the orders after the first i.
BuyDue(plan) == [j \in DOMAIN plan |-> plan[j].notional + ExecutionCost(plan[j])]
SellDue(plan) == [j \in DOMAIN plan |-> plan[j].notional]
BuysAfter(plan, i) == {j \in OrdersOf(plan, "BUY") : j > i}
SellsAfter(plan, s, i) == {j \in {k \in OrdersOf(plan, "SELL") : plan[k].symbol = s} : j > i}

LEMMA DueFits ==
    ASSUME NEW plan \in OrderPlans, NEW S \in SUBSET DOMAIN plan
    PROVE  /\ IsFiniteSet(S)
           /\ \A j \in S : BuyDue(plan)[j] \in Nat /\ SellDue(plan)[j] \in Nat
           /\ SumFunctionOnSet(BuyDue(plan), S) \in Nat
           /\ SumFunctionOnSet(SellDue(plan), S) \in Nat
           /\ \A j \in S :
                 /\ SumFunctionOnSet(BuyDue(plan), S) =
                        BuyDue(plan)[j] + SumFunctionOnSet(BuyDue(plan), S \ {j})
                 /\ SumFunctionOnSet(SellDue(plan), S) =
                        SellDue(plan)[j] + SumFunctionOnSet(SellDue(plan), S \ {j})
<1> DEFINE b == BuyDue(plan)
           s == SellDue(plan)
<1>1. IsFiniteSet(S)
  BY PlanOrders, FS_Interval, FS_Subset
<1>2. \A j \in S : b[j] \in Nat /\ s[j] \in Nat
  <2> SUFFICES ASSUME NEW j \in S PROVE b[j] \in Nat /\ s[j] \in Nat
    OBVIOUS
  <2>1. plan[j].notional \in Nat \ {0} /\ ExecutionCost(plan[j]) \in Nat
    BY PlanOrders, CostOf DEF IsOrder
  <2>2. b[j] = plan[j].notional + ExecutionCost(plan[j]) /\ s[j] = plan[j].notional
    BY DEF BuyDue, SellDue
  <2> QED BY <2>1, <2>2
<1> HIDE DEF b, s
<1>3. \A j \in S : b[j] \in Int /\ s[j] \in Int
  BY <1>2
<1>4. /\ SumFunctionOnSet(b, S) \in Nat /\ SumFunctionOnSet(s, S) \in Nat
      /\ \A j \in S : /\ SumFunctionOnSet(b, S) = b[j] + SumFunctionOnSet(b, S \ {j})
                      /\ SumFunctionOnSet(s, S) = s[j] + SumFunctionOnSet(s, S \ {j})
  BY <1>1, <1>2, <1>3, SumNat, SumRemove
<1> QED BY <1>1, <1>2, <1>4 DEF b, s

\* The sum over the positions when one of them changes.
LEMMA PositionsSum ==
    ASSUME NEW f \in [Traded -> Int], NEW g \in [Traded -> Int], NEW s \in Traded,
           \A r \in Traded : r # s => f[r] = g[r]
    PROVE  /\ SumFunctionOnSet(f, Traded) \in Int /\ SumFunctionOnSet(g, Traded) \in Int
           /\ SumFunctionOnSet(g, Traded) = SumFunctionOnSet(f, Traded) - f[s] + g[s]
<1>1. IsFiniteSet(Traded)
  BY PaperFillsAssumption
<1>2. \A r \in Traded : f[r] \in Int /\ g[r] \in Int
  OBVIOUS
<1>3. SumFunctionOnSet(f, Traded) \in Int /\ SumFunctionOnSet(g, Traded) \in Int
  BY <1>1, <1>2, SumInt
<1>4. SumFunctionOnSet(g, Traded) = SumFunctionOnSet(f, Traded) - f[s] + g[s]
  BY <1>1, <1>2, SumUpdate
<1> QED BY <1>3, <1>4

ValuesOf(positions) == [s \in Traded |-> positions[s].value]
GainsOf(positions) == [s \in Traded |-> positions[s].value - positions[s].basis]

\* After the first i orders: what is still to come is covered, and nothing was lost.
FillsFit(plan, i) ==
    LET st == Fills(plan)[i]
    IN  /\ st \in FillState
        /\ st.cash >= SumFunctionOnSet(BuyDue(plan), BuysAfter(plan, i))
        /\ \A s \in Traded :
              st.positions[s].value >= SumFunctionOnSet(SellDue(plan), SellsAfter(plan, s, i))
        /\ st.cash + SumFunctionOnSet(ValuesOf(st.positions), Traded) + st.costs =
              book.cash + SumFunctionOnSet(ValuesOf(book.positions), Traded)
        /\ st.booked + SumFunctionOnSet(GainsOf(st.positions), Traded) + st.costs =
              SumFunctionOnSet(GainsOf(book.positions), Traded)

\* What holds of a portfolio between plans.
BookFits ==
    /\ book \in [cash: Int, equity: Int, positions: [Traded -> Position]]
    /\ book.cash >= 0 /\ \A s \in Traded : book.positions[s].value >= 0
    /\ book.equity = book.cash + SumFunctionOnSet(ValuesOf(book.positions), Traded)
    /\ booked \in Int /\ dropped \in Nat /\ executed \in 0..MaxExecuted
    /\ \A s \in Traded : book.positions[s].value = 0 => book.positions[s] = Flat

LEMMA SumsOfPositions ==
    ASSUME NEW positions \in [Traded -> Position]
    PROVE  /\ ValuesOf(positions) \in [Traded -> Int] /\ GainsOf(positions) \in [Traded -> Int]
           /\ SumFunctionOnSet(ValuesOf(positions), Traded) \in Int
           /\ SumFunctionOnSet(GainsOf(positions), Traded) \in Int
<1>1. IsFiniteSet(Traded)
  BY PaperFillsAssumption
<1>2. \A s \in Traded : positions[s] \in Position
  OBVIOUS
<1>3. \A s \in Traded : positions[s].value \in Int /\ positions[s].value - positions[s].basis \in Int
  BY <1>2 DEF Position
<1>4. ValuesOf(positions) \in [Traded -> Int] /\ GainsOf(positions) \in [Traded -> Int]
  BY <1>3 DEF ValuesOf, GainsOf
<1>5. \A s \in Traded : ValuesOf(positions)[s] \in Int /\ GainsOf(positions)[s] \in Int
  BY <1>4
<1> QED BY <1>1, <1>4, <1>5, SumInt

\* Counting a position anew changes neither what it is worth nor what it cost.
LEMMA RecountKeeps ==
    ASSUME NEW p \in Position, p.value >= 0
    PROVE  /\ Recounted(p) \in Position
           /\ Recounted(p).value = p.value /\ Recounted(p).basis = p.basis
<1>1. p.value \in Nat /\ p.quantity \in Nat
  BY DEF Position
<1>2. (IF p.quantity > 0 THEN p.quantity ELSE p.value) \in Nat
  BY <1>1
<1> QED BY <1>2 DEF Recounted, Position

LEMMA StartOfFills ==
    ASSUME BookFits
    PROVE  /\ FillStart \in FillState
           /\ \A s \in Traded : FillStart.positions[s].value = book.positions[s].value
           /\ ValuesOf(FillStart.positions) = ValuesOf(book.positions)
           /\ GainsOf(FillStart.positions) = GainsOf(book.positions)
<1> DEFINE start == [s \in Traded |-> Recounted(book.positions[s])]
<1>1. \A s \in Traded : book.positions[s] \in Position /\ book.positions[s].value >= 0
  BY DEF BookFits
<1>2. \A s \in Traded :
          /\ start[s] \in Position
          /\ start[s].value = book.positions[s].value
          /\ start[s].basis = book.positions[s].basis
  BY <1>1, RecountKeeps
<1>3. start \in [Traded -> Position] /\ book.cash \in Int
  BY <1>2 DEF BookFits
<1>4. FillStart.positions = start /\ FillStart.cash = book.cash
      /\ FillStart.costs = 0 /\ FillStart.booked = 0
      /\ FillStart = [cash |-> book.cash, costs |-> 0, booked |-> 0, positions |-> start]
  BY DEF FillStart
<1> HIDE DEF start
<1>5. FillStart \in FillState
  BY <1>3, <1>4 DEF FillState
<1>6. ValuesOf(start) = ValuesOf(book.positions) /\ GainsOf(start) = GainsOf(book.positions)
  BY <1>2 DEF ValuesOf, GainsOf
<1> QED BY <1>2, <1>4, <1>5, <1>6

LEMMA FillsStart ==
    ASSUME BookFits, NEW plan \in OrderPlans, Covered(plan)
    PROVE  FillsFit(plan, 0)
<1>1. Fills(plan)[0] = FillStart /\ FillStart \in FillState
  BY PlanOrders, FillsRun, StartOfFills
<1>2. BuysAfter(plan, 0) = OrdersOf(plan, "BUY")
  BY PlanOrders DEF BuysAfter, OrdersOf
<1>3. \A s \in Traded : SellsAfter(plan, s, 0) = {j \in OrdersOf(plan, "SELL") : plan[j].symbol = s}
  BY PlanOrders DEF SellsAfter, OrdersOf
<1>4. book.cash >= SumFunctionOnSet(BuyDue(plan), BuysAfter(plan, 0))
  BY <1>2 DEF Covered, BuyRequirement, BuyDue
<1>5. \A s \in Traded :
          book.positions[s].value >= SumFunctionOnSet(SellDue(plan), SellsAfter(plan, s, 0))
  BY <1>3 DEF Covered, SellRequirement, SellDue
<1>6. FillStart.cash = book.cash /\ FillStart.costs = 0 /\ FillStart.booked = 0
  BY DEF FillStart
<1>7. /\ book.cash \in Int
      /\ SumFunctionOnSet(ValuesOf(book.positions), Traded) \in Int
      /\ SumFunctionOnSet(GainsOf(book.positions), Traded) \in Int
  BY SumsOfPositions DEF BookFits
<1>8. \A c, v, g \in Int : c + v + 0 = c + v /\ 0 + g + 0 = g
  OBVIOUS
<1> QED BY <1>1, <1>4, <1>5, <1>6, <1>7, <1>8, StartOfFills DEF FillsFit

LEMMA FillsGoOn ==
    ASSUME NEW plan \in OrderPlans, NEW i \in 0..Len(plan), i < Len(plan), FillsFit(plan, i)
    PROVE  FillsFit(plan, i + 1)
<1> DEFINE st == Fills(plan)[i]
           o == plan[i + 1]
           t == Fills(plan)[i + 1]
           c == ExecutionCost(o)
           w == o.symbol
<1>1. /\ Len(plan) \in Nat /\ DOMAIN plan = 1..Len(plan) /\ i \in Nat
      /\ i + 1 \in DOMAIN plan /\ IsOrder(o)
  BY PlanOrders
<1>2. t = Fill(st, o) /\ st \in FillState
  BY <1>1, FillsRun DEF FillsFit
<1>3. /\ o.notional \in Nat /\ c \in Nat /\ c <= o.notional /\ w \in Traded /\ o.side \in {"BUY", "SELL"}
  BY <1>1, CostOf DEF IsOrder, Sides
<1>4. /\ t \in FillState
      /\ t.cash = IF o.side = "BUY" THEN st.cash - o.notional - c ELSE st.cash + o.notional - c
      /\ t.positions[w].value = IF o.side = "BUY" THEN st.positions[w].value + o.notional
                                ELSE st.positions[w].value - o.notional
      /\ t.cash + t.positions[w].value + t.costs = st.cash + st.positions[w].value + st.costs
      /\ t.booked + (t.positions[w].value - t.positions[w].basis) + t.costs =
            st.booked + (st.positions[w].value - st.positions[w].basis) + st.costs
      /\ \A s \in Traded : s # w => t.positions[s] = st.positions[s]
  <2> HIDE DEF t, st, o
  <2>1. /\ t \in FillState
        /\ t.cash = IF o.side = "BUY" THEN st.cash - o.notional - ExecutionCost(o)
                    ELSE st.cash + o.notional - ExecutionCost(o)
        /\ \A s \in Traded : s # o.symbol => t.positions[s] = st.positions[s]
    BY <1>1, <1>2, FillLeaves
  <2>2. /\ t.positions[o.symbol].value =
              IF o.side = "BUY" THEN st.positions[o.symbol].value + o.notional
              ELSE st.positions[o.symbol].value - o.notional
        /\ t.cash + t.positions[o.symbol].value + t.costs =
              st.cash + st.positions[o.symbol].value + st.costs
        /\ t.booked + (t.positions[o.symbol].value - t.positions[o.symbol].basis) + t.costs =
              st.booked + (st.positions[o.symbol].value - st.positions[o.symbol].basis) + st.costs
    BY <1>1, <1>2, FillBalances
  <2> QED BY <2>1, <2>2
<1>5. /\ st.cash \in Int /\ st.costs \in Int /\ st.booked \in Int /\ st.positions \in [Traded -> Position]
      /\ t.cash \in Int /\ t.costs \in Int /\ t.booked \in Int /\ t.positions \in [Traded -> Position]
  BY <1>2, <1>4 DEF FillState
<1>6. \A s \in Traded : st.positions[s].value \in Int /\ t.positions[s].value \in Int
                        /\ st.positions[s].basis \in Int /\ t.positions[s].basis \in Int
  <2>1. \A s \in Traded : st.positions[s] \in Position /\ t.positions[s] \in Position
    BY <1>5
  <2> HIDE DEF st, t
  <2> QED BY <2>1 DEF Position
<1> HIDE DEF c
<1>7. t.cash >= SumFunctionOnSet(BuyDue(plan), BuysAfter(plan, i + 1))
  <2> DEFINE S == BuysAfter(plan, i)
             R == BuysAfter(plan, i + 1)
  <2>1. S \in SUBSET DOMAIN plan /\ R \in SUBSET DOMAIN plan
    BY DEF BuysAfter, OrdersOf
  <2>2. st.cash >= SumFunctionOnSet(BuyDue(plan), S) /\ SumFunctionOnSet(BuyDue(plan), R) \in Nat
    BY <2>1, DueFits DEF FillsFit
  <2>3. CASE o.side = "BUY"
    <3>1. i + 1 \in S /\ R = S \ {i + 1}
      BY <1>1, <2>3 DEF BuysAfter, OrdersOf
    <3>2. BuyDue(plan)[i + 1] = o.notional + c
      BY <1>1 DEF BuyDue, c
    <3>3. SumFunctionOnSet(BuyDue(plan), S) = (o.notional + c) + SumFunctionOnSet(BuyDue(plan), R)
      BY <2>1, <3>1, <3>2, DueFits
    <3>4. t.cash = st.cash - o.notional - c
      BY <1>4, <2>3
    <3>5. \A x, y, m, k, a \in Int, b \in Nat :
              x >= a /\ a = (m + k) + b /\ y = x - m - k => y >= b
      OBVIOUS
    <3>6. o.notional \in Int /\ c \in Int /\ SumFunctionOnSet(BuyDue(plan), S) \in Int
      BY <1>3, <2>1, DueFits
    <3> HIDE DEF t, st, o, w
    <3> QED BY <1>5, <2>2, <3>3, <3>4, <3>5, <3>6
  <2>4. CASE o.side = "SELL"
    <3>1. R = S
      BY <1>1, <2>4 DEF BuysAfter, OrdersOf
    <3>2. t.cash = st.cash + o.notional - c
      BY <1>4, <2>4
    <3>3. \A x, y, b \in Int, m, k \in Nat : x >= b /\ k <= m /\ y = x + m - k => y >= b
      OBVIOUS
    <3>4. SumFunctionOnSet(BuyDue(plan), S) \in Int
      BY <2>1, DueFits
    <3> HIDE DEF t, st, o, w
    <3> QED BY <1>3, <1>5, <2>2, <3>1, <3>2, <3>3, <3>4
  <2> QED BY <1>3, <2>3, <2>4
<1>8. \A s \in Traded :
          t.positions[s].value >= SumFunctionOnSet(SellDue(plan), SellsAfter(plan, s, i + 1))
  <2> SUFFICES ASSUME NEW s \in Traded
               PROVE t.positions[s].value >= SumFunctionOnSet(SellDue(plan), SellsAfter(plan, s, i + 1))
    OBVIOUS
  <2> DEFINE S == SellsAfter(plan, s, i)
             R == SellsAfter(plan, s, i + 1)
  <2>1. S \in SUBSET DOMAIN plan /\ R \in SUBSET DOMAIN plan
    BY DEF SellsAfter, OrdersOf
  <2>2. /\ st.positions[s].value >= SumFunctionOnSet(SellDue(plan), S)
        /\ SumFunctionOnSet(SellDue(plan), R) \in Nat
    BY <2>1, DueFits DEF FillsFit
  <2>3. CASE o.side = "SELL" /\ s = w
    <3>1. i + 1 \in S /\ R = S \ {i + 1}
      BY <1>1, <2>3 DEF SellsAfter, OrdersOf
    <3>2. SellDue(plan)[i + 1] = o.notional
      BY <1>1 DEF SellDue
    <3>3. SumFunctionOnSet(SellDue(plan), S) = o.notional + SumFunctionOnSet(SellDue(plan), R)
      BY <2>1, <3>1, <3>2, DueFits
    <3>4. t.positions[s].value = st.positions[s].value - o.notional
      BY <1>4, <2>3
    <3>5. \A x, y, m, a \in Int, b \in Nat : x >= a /\ a = m + b /\ y = x - m => y >= b
      OBVIOUS
    <3>6. /\ o.notional \in Int /\ SumFunctionOnSet(SellDue(plan), S) \in Int
          /\ st.positions[s].value \in Int /\ t.positions[s].value \in Int
      BY <1>3, <1>6, <2>1, DueFits
    <3> HIDE DEF t, st, o, w
    <3> QED BY <2>2, <3>3, <3>4, <3>5, <3>6
  <2>4. CASE o.side = "BUY" \/ s # w
    <3>1. R = S
      BY <1>1, <2>4 DEF SellsAfter, OrdersOf
    <3>2. t.positions[s].value >= st.positions[s].value
      <4> HIDE DEF t, st, o
      <4>1. CASE s # w
        <5>1. t.positions[s] = st.positions[s] /\ st.positions[s].value \in Int
          BY <1>4, <1>6, <4>1
        <5>2. \A x \in Int : x >= x
          OBVIOUS
        <5> QED BY <5>1, <5>2
      <4>2. CASE s = w /\ o.side = "BUY"
        <5>1. t.positions[s].value = st.positions[s].value + o.notional /\ st.positions[s].value \in Int
          BY <1>4, <1>6, <4>2
        <5>2. \A x \in Int, y \in Nat : x + y >= x
          OBVIOUS
        <5> QED BY <1>3, <5>1, <5>2
      <4> QED BY <2>4, <4>1, <4>2
    <3>3. \A x, y, z \in Int : y >= x /\ x >= z => y >= z
      OBVIOUS
    <3>4. /\ SumFunctionOnSet(SellDue(plan), S) \in Int
          /\ st.positions[s].value \in Int /\ t.positions[s].value \in Int
      BY <1>6, <2>1, DueFits
    <3> HIDE DEF t, st, o, w
    <3> QED BY <2>2, <3>1, <3>2, <3>3, <3>4
  <2> QED BY <1>3, <2>3, <2>4
<1>9. /\ SumFunctionOnSet(ValuesOf(t.positions), Traded) =
              SumFunctionOnSet(ValuesOf(st.positions), Traded)
                  - st.positions[w].value + t.positions[w].value
       /\ SumFunctionOnSet(GainsOf(t.positions), Traded) =
              SumFunctionOnSet(GainsOf(st.positions), Traded)
                  - (st.positions[w].value - st.positions[w].basis)
                  + (t.positions[w].value - t.positions[w].basis)
       /\ SumFunctionOnSet(ValuesOf(t.positions), Traded) \in Int
       /\ SumFunctionOnSet(ValuesOf(st.positions), Traded) \in Int
       /\ SumFunctionOnSet(GainsOf(t.positions), Traded) \in Int
       /\ SumFunctionOnSet(GainsOf(st.positions), Traded) \in Int
  <2> HIDE DEF t, st, o, w
  <2>1. /\ ValuesOf(t.positions) \in [Traded -> Int] /\ GainsOf(t.positions) \in [Traded -> Int]
        /\ ValuesOf(st.positions) \in [Traded -> Int] /\ GainsOf(st.positions) \in [Traded -> Int]
    BY <1>5, SumsOfPositions
  <2>2. \A s \in Traded : s # w => /\ ValuesOf(st.positions)[s] = ValuesOf(t.positions)[s]
                                   /\ GainsOf(st.positions)[s] = GainsOf(t.positions)[s]
    BY <1>4 DEF ValuesOf, GainsOf
  <2>3. /\ ValuesOf(t.positions)[w] = t.positions[w].value
        /\ ValuesOf(st.positions)[w] = st.positions[w].value
        /\ GainsOf(t.positions)[w] = t.positions[w].value - t.positions[w].basis
        /\ GainsOf(st.positions)[w] = st.positions[w].value - st.positions[w].basis
    BY <1>3 DEF ValuesOf, GainsOf
  <2>4. /\ SumFunctionOnSet(ValuesOf(t.positions), Traded) =
              SumFunctionOnSet(ValuesOf(st.positions), Traded)
                  - ValuesOf(st.positions)[w] + ValuesOf(t.positions)[w]
        /\ SumFunctionOnSet(ValuesOf(t.positions), Traded) \in Int
        /\ SumFunctionOnSet(ValuesOf(st.positions), Traded) \in Int
    BY <1>3, <2>1, <2>2, PositionsSum
  <2>5. /\ SumFunctionOnSet(GainsOf(t.positions), Traded) =
              SumFunctionOnSet(GainsOf(st.positions), Traded)
                  - GainsOf(st.positions)[w] + GainsOf(t.positions)[w]
        /\ SumFunctionOnSet(GainsOf(t.positions), Traded) \in Int
        /\ SumFunctionOnSet(GainsOf(st.positions), Traded) \in Int
    BY <1>3, <2>1, <2>2, PositionsSum
  <2> QED BY <2>3, <2>4, <2>5
<1>10. /\ t.cash + SumFunctionOnSet(ValuesOf(t.positions), Traded) + t.costs =
              st.cash + SumFunctionOnSet(ValuesOf(st.positions), Traded) + st.costs
       /\ t.booked + SumFunctionOnSet(GainsOf(t.positions), Traded) + t.costs =
              st.booked + SumFunctionOnSet(GainsOf(st.positions), Traded) + st.costs
  <2> DEFINE V == SumFunctionOnSet(ValuesOf(t.positions), Traded)
             U == SumFunctionOnSet(ValuesOf(st.positions), Traded)
             G == SumFunctionOnSet(GainsOf(t.positions), Traded)
             H == SumFunctionOnSet(GainsOf(st.positions), Traded)
  <2>1. /\ V = U - st.positions[w].value + t.positions[w].value /\ V \in Int /\ U \in Int
        /\ G = H - (st.positions[w].value - st.positions[w].basis)
                 + (t.positions[w].value - t.positions[w].basis) /\ G \in Int /\ H \in Int
    BY <1>9
  <2> HIDE DEF V, U, G, H, t, st, o, w
  <2>a. /\ t.cash + t.positions[w].value + t.costs = st.cash + st.positions[w].value + st.costs
        /\ t.booked + (t.positions[w].value - t.positions[w].basis) + t.costs =
              st.booked + (st.positions[w].value - st.positions[w].basis) + st.costs
    BY <1>4
  <2>b. /\ st.cash \in Int /\ st.costs \in Int /\ st.booked \in Int
        /\ t.cash \in Int /\ t.costs \in Int /\ t.booked \in Int
        /\ st.positions[w].value \in Int /\ t.positions[w].value \in Int
        /\ st.positions[w].basis \in Int /\ t.positions[w].basis \in Int
    BY <1>3, <1>5, <1>6
  <2> DEFINE x == st.positions[w].value
             y == t.positions[w].value
             p == st.positions[w].value - st.positions[w].basis
             q == t.positions[w].value - t.positions[w].basis
             cash0 == st.cash
             cash1 == t.cash
             costs0 == st.costs
             costs1 == t.costs
             booked0 == st.booked
             booked1 == t.booked
  <2>2. x \in Int /\ y \in Int /\ p \in Int /\ q \in Int
    <3>1. st.positions[w].value - st.positions[w].basis \in Int
      BY <2>b
    <3>2. t.positions[w].value - t.positions[w].basis \in Int
      BY <2>b
    <3> QED BY <2>b, <3>1, <3>2, Zenon
  <2>3. /\ cash0 \in Int /\ cash1 \in Int /\ costs0 \in Int /\ costs1 \in Int
        /\ booked0 \in Int /\ booked1 \in Int
    BY <2>b
  <2>4. /\ V = U - x + y /\ G = H - p + q /\ V \in Int /\ U \in Int /\ G \in Int /\ H \in Int
        /\ cash1 + y + costs1 = cash0 + x + costs0
        /\ booked1 + q + costs1 = booked0 + p + costs0
    BY <2>1, <2>a
  <2> HIDE DEF x, y, p, q, cash0, cash1, costs0, costs1, booked0, booked1
  <2>5. cash1 + V + costs1 = cash0 + U + costs0
    BY <2>2, <2>3, <2>4
  <2>6. booked1 + G + costs1 = booked0 + H + costs0
    BY <2>2, <2>3, <2>4
  <2> QED BY <2>5, <2>6 DEF V, U, G, H, cash0, cash1, costs0, costs1, booked0, booked1
<1> HIDE DEF t, st
<1> QED BY <1>4, <1>7, <1>8, <1>10 DEF FillsFit, t, st

LEMMA FillsFitAll ==
    ASSUME BookFits, NEW plan \in OrderPlans, Covered(plan)
    PROVE  \A i \in 0..Len(plan) : FillsFit(plan, i)
<1> DEFINE X == {i \in 0..Len(plan) : FillsFit(plan, i)}
<1>1. Len(plan) \in Nat
  BY PlanOrders
<1>2. 0 \in X
  BY <1>1, FillsStart
<1>3. ASSUME NEW i \in 0..Len(plan), i \in X, i < Len(plan) PROVE i + 1 \in X
  <2>1. FillsFit(plan, i + 1)
    BY <1>3, FillsGoOn
  <2> QED BY <1>1, <1>3, <2>1
<1>4. \A i \in 0..Len(plan) : i \in X
  <2> HIDE DEF X
  <2> QED BY <1>1, <1>2, <1>3, PrefixInduction
<1> QED BY <1>4

\* A portfolio whose positions without value are dropped is worth the same.
LEMMA DroppedFits ==
    ASSUME NEW positions \in [Traded -> Position]
    PROVE  /\ WithoutEmpty(positions) \in [Traded -> Position]
           /\ \A s \in Traded :
                 /\ WithoutEmpty(positions)[s].value = positions[s].value
                 /\ positions[s].value = 0 => WithoutEmpty(positions)[s] = Flat
                 /\ positions[s].value # 0 => WithoutEmpty(positions)[s] = positions[s]
           /\ ValuesOf(WithoutEmpty(positions)) = ValuesOf(positions)
<1>1. Flat \in Position /\ Flat.value = 0
  BY DEF Flat, Position
<1>2. WithoutEmpty(positions) \in [Traded -> Position]
  BY <1>1 DEF WithoutEmpty
<1>3. \A s \in Traded :
          /\ WithoutEmpty(positions)[s].value = positions[s].value
          /\ positions[s].value = 0 => WithoutEmpty(positions)[s] = Flat
          /\ positions[s].value # 0 => WithoutEmpty(positions)[s] = positions[s]
  BY <1>1 DEF WithoutEmpty
<1> QED BY <1>2, <1>3 DEF ValuesOf

\* The unrealized gains grow by the basis of the positions that are dropped.
LEMMA DroppedBasis ==
    ASSUME NEW positions \in [Traded -> Position]
    PROVE  /\ BasisOfEmpty(positions) \in Nat
           /\ SumFunctionOnSet(GainsOf(WithoutEmpty(positions)), Traded) =
                  SumFunctionOnSet(GainsOf(positions), Traded) + BasisOfEmpty(positions)
<1> DEFINE Empty == {s \in Traded : positions[s].value = 0}
           basis == [s \in Traded |-> positions[s].basis]
           lost == [s \in Traded |-> IF s \in Empty THEN positions[s].basis ELSE 0]
           kept == GainsOf(WithoutEmpty(positions))
           gains == GainsOf(positions)
<1>1. IsFiniteSet(Traded) /\ Empty \in SUBSET Traded /\ IsFiniteSet(Empty)
  BY PaperFillsAssumption, FS_Subset
<1>2. \A s \in Traded : positions[s].value \in Int /\ positions[s].basis \in Nat
  <2>1. \A s \in Traded : positions[s] \in Position
    OBVIOUS
  <2> QED BY <2>1 DEF Position
<1>3. ASSUME NEW s \in Traded
      PROVE  gains[s] \in Int /\ lost[s] \in Int /\ kept[s] = gains[s] + lost[s]
  <2>1. /\ gains[s] = positions[s].value - positions[s].basis
        /\ kept[s] = WithoutEmpty(positions)[s].value - WithoutEmpty(positions)[s].basis
    BY DEF GainsOf
  <2>2. CASE positions[s].value = 0
    <3>1. WithoutEmpty(positions)[s].value = 0 /\ WithoutEmpty(positions)[s].basis = 0
      BY <2>2, DroppedFits DEF Flat
    <3>2. lost[s] = positions[s].basis
      BY <2>2
    <3>3. \A v, b \in Int : v = 0 => v - b \in Int /\ 0 - 0 = (v - b) + b
      OBVIOUS
    <3>4. kept[s] = 0 - 0
      BY <2>1, <3>1
    <3> HIDE DEF kept, gains, lost
    <3> QED BY <1>2, <2>1, <2>2, <3>2, <3>3, <3>4
  <2>3. CASE positions[s].value # 0
    <3>1. WithoutEmpty(positions)[s] = positions[s] /\ lost[s] = 0
      BY <2>3, DroppedFits
    <3>2. \A v, b \in Int : v - b \in Int /\ v - b = (v - b) + 0
      OBVIOUS
    <3> HIDE DEF kept, gains, lost
    <3> QED BY <1>2, <2>1, <3>1, <3>2
  <2> QED BY <2>2, <2>3
<1>4. \A s \in Empty : basis[s] \in Nat /\ lost[s] = basis[s]
  BY <1>2
<1>5. \A s \in Traded \ Empty : lost[s] = 0
  OBVIOUS
<1>6. BasisOfEmpty(positions) = SumFunctionOnSet(basis, Empty)
  BY DEF BasisOfEmpty
<1> HIDE DEF Empty, basis, lost, kept, gains
<1>7. SumFunctionOnSet(kept, Traded) = SumFunctionOnSet(gains, Traded) + SumFunctionOnSet(lost, Traded)
  BY <1>1, <1>3, SumPlus
<1>8. SumFunctionOnSet(lost, Empty) = SumFunctionOnSet(lost, Traded)
  BY <1>1, <1>3, <1>5, SumSupport
<1>9. SumFunctionOnSet(lost, Empty) = SumFunctionOnSet(basis, Empty)
  BY <1>1, <1>4, SumSame
<1>10. SumFunctionOnSet(basis, Empty) \in Nat
  BY <1>1, <1>4, SumNat
<1> QED BY <1>6, <1>7, <1>8, <1>9, <1>10 DEF kept, gains

LEMMA ExecuteLeaves ==
    ASSUME BookFits, NEW plan \in OrderPlans, ExecutePlan(plan)
    PROVE  LET end == Fills(plan)[Len(plan)]
           IN  /\ FillsFit(plan, Len(plan)) /\ end \in FillState
               /\ book'.cash = end.cash /\ book'.equity = book.equity - end.costs
               /\ book'.positions = WithoutEmpty(end.positions)
               /\ book' \in [cash: Int, equity: Int, positions: [Traded -> Position]]
               /\ booked' = booked + end.booked
               /\ dropped' = dropped + BasisOfEmpty(end.positions)
               /\ executed' \in 0..MaxExecuted
<1> DEFINE end == Fills(plan)[Len(plan)]
<1>1. FillsFit(plan, Len(plan))
  <2>1. Len(plan) \in 0..Len(plan)
    BY PlanOrders
  <2> QED BY <2>1, FillsFitAll DEF ExecutePlan
<1>2. end \in FillState
  BY <1>1 DEF FillsFit
<1>3. /\ book' = [cash |-> end.cash, equity |-> book.equity - end.costs,
                  positions |-> WithoutEmpty(end.positions)]
      /\ booked' = booked + end.booked
      /\ dropped' = dropped + BasisOfEmpty(end.positions)
      /\ executed < MaxExecuted /\ executed' = executed + 1
  BY DEF ExecutePlan, EquityAfter
<1> HIDE DEF end
<1>4. /\ end.cash \in Int /\ end.costs \in Int /\ end.positions \in [Traded -> Position]
      /\ book.equity \in Int
  BY <1>2 DEF FillState, BookFits
<1>5. WithoutEmpty(end.positions) \in [Traded -> Position] /\ book.equity - end.costs \in Int
  BY <1>4, DroppedFits
<1>6. executed' \in 0..MaxExecuted
  <2>1. executed \in 0..MaxExecuted /\ MaxExecuted \in Nat
    BY PaperFillsAssumption DEF BookFits
  <2> QED BY <1>3, <2>1
<1> QED BY <1>1, <1>2, <1>3, <1>4, <1>5, <1>6 DEF end

LEMMA NothingAfterAll ==
    ASSUME NEW plan \in OrderPlans
    PROVE  /\ BuysAfter(plan, Len(plan)) = {}
           /\ \A s \in Traded : SellsAfter(plan, s, Len(plan)) = {}
BY PlanOrders DEF BuysAfter, SellsAfter, OrdersOf

LEMMA BookStep == BookFits /\ [PaperFillsNext]_fillsVars => BookFits'
<1> SUFFICES ASSUME BookFits, [PaperFillsNext]_fillsVars PROVE BookFits'
  OBVIOUS
<1>1. CASE UNCHANGED fillsVars
  BY <1>1 DEF fillsVars, BookFits
<1>2. ASSUME NEW plan \in OrderPlans, ExecutePlan(plan) PROVE BookFits'
  <2> DEFINE end == Fills(plan)[Len(plan)]
  <2>1. /\ FillsFit(plan, Len(plan)) /\ end \in FillState
        /\ book'.cash = end.cash /\ book'.equity = book.equity - end.costs
        /\ book'.positions = WithoutEmpty(end.positions)
        /\ book' \in [cash: Int, equity: Int, positions: [Traded -> Position]]
        /\ booked' = booked + end.booked
        /\ dropped' = dropped + BasisOfEmpty(end.positions)
        /\ executed' \in 0..MaxExecuted
    BY <1>2, ExecuteLeaves
  <2>2. end.cash >= 0 /\ \A s \in Traded : end.positions[s].value >= 0
    BY <2>1, NothingAfterAll, SumEmpty DEF FillsFit
  <2>3. end.cash + SumFunctionOnSet(ValuesOf(end.positions), Traded) + end.costs =
            book.cash + SumFunctionOnSet(ValuesOf(book.positions), Traded)
    BY <2>1 DEF FillsFit
  <2> HIDE DEF end
  <2>4. /\ end.cash \in Int /\ end.costs \in Int /\ end.booked \in Int
        /\ end.positions \in [Traded -> Position]
    BY <2>1 DEF FillState
  <2>5. /\ ValuesOf(book'.positions) = ValuesOf(end.positions)
        /\ \A s \in Traded : book'.positions[s].value >= 0
        /\ \A s \in Traded : book'.positions[s].value = 0 => book'.positions[s] = Flat
    BY <2>1, <2>2, <2>4, DroppedFits
  <2>6. book'.equity = book'.cash + SumFunctionOnSet(ValuesOf(book'.positions), Traded)
    <3> DEFINE V == SumFunctionOnSet(ValuesOf(end.positions), Traded)
               U == SumFunctionOnSet(ValuesOf(book.positions), Traded)
               cash0 == book.cash
               cash1 == end.cash
               equity0 == book.equity
               costs == end.costs
    <3>1. V \in Int /\ U \in Int /\ cash0 \in Int /\ equity0 \in Int
      BY <2>4, SumsOfPositions DEF BookFits
    <3>2. cash1 \in Int /\ costs \in Int
      BY <2>4
    <3>3. equity0 = cash0 + U
      BY DEF BookFits
    <3>4. cash1 + V + costs = cash0 + U
      BY <2>3
    <3> HIDE DEF V, U, cash0, cash1, equity0, costs
    <3>5. equity0 - costs = cash1 + V
      BY <3>1, <3>2, <3>3, <3>4
    <3> QED BY <2>1, <2>5, <3>5 DEF V, cash1, equity0, costs
  <2>7. booked' \in Int /\ dropped' \in Nat
    <3>1. BasisOfEmpty(end.positions) \in Nat
      BY <2>4, DroppedBasis
    <3> QED BY <2>1, <2>4, <3>1 DEF BookFits
  <2> QED BY <2>1, <2>2, <2>5, <2>6, <2>7 DEF BookFits
<1> QED BY <1>1, <1>2 DEF PaperFillsNext

LEMMA FlatBook ==
    ASSUME PaperFillsInit
    PROVE  /\ BookFits
           /\ SumFunctionOnSet(GainsOf(book.positions), Traded) = 0
           /\ book.equity = OpeningCash /\ booked = 0 /\ dropped = 0
<1> DEFINE flat == [s \in Traded |-> Flat]
<1>1. book.positions = flat /\ book.cash = OpeningCash /\ book.equity = OpeningCash
      /\ booked = 0 /\ dropped = 0 /\ executed = 0
  BY DEF PaperFillsInit
<1>2. Flat \in Position /\ Flat.value = 0 /\ Flat.basis = 0
  BY DEF Flat, Position
<1>3. flat \in [Traded -> Position] /\ \A s \in Traded : flat[s] = Flat
  BY <1>2
<1> HIDE DEF flat
<1>4. book \in [cash: Int, equity: Int, positions: [Traded -> Position]]
  BY <1>1, <1>3, PaperFillsAssumption DEF PaperFillsInit, flat
<1>5. /\ SumFunctionOnSet(ValuesOf(flat), Traded) = 0
      /\ SumFunctionOnSet(GainsOf(flat), Traded) = 0
  <2>1. \A s \in Traded : ValuesOf(flat)[s] = 0 /\ GainsOf(flat)[s] = 0
    BY <1>2, <1>3 DEF ValuesOf, GainsOf
  <2>2. IsFiniteSet(Traded) /\ 0 \in Int /\ {} \in SUBSET Traded
    BY PaperFillsAssumption
  <2>3. /\ SumFunctionOnSet(ValuesOf(flat), {}) = SumFunctionOnSet(ValuesOf(flat), Traded)
        /\ SumFunctionOnSet(GainsOf(flat), {}) = SumFunctionOnSet(GainsOf(flat), Traded)
    BY <2>1, <2>2, SumSupport
  <2> QED BY <2>3, SumEmpty
<1>6. OpeningCash \in Nat /\ MaxExecuted \in Nat
  BY PaperFillsAssumption
<1>7. OpeningCash = OpeningCash + 0 /\ OpeningCash >= 0 /\ 0 \in 0..MaxExecuted
  BY <1>6
<1> QED BY <1>1, <1>2, <1>3, <1>4, <1>5, <1>7 DEF BookFits

THEOREM BookInvariance == PaperFillsSpec => []BookFits
BY FlatBook, BookStep, PTL DEF PaperFillsSpec

\* Neither the cash nor a position falls below zero, whatever plans of however many orders
\* are executed in whatever order (PlanNeverShort).
THEOREM NeverShort == PaperFillsSpec => []PlanNeverShort
<1>1. BookFits => PlanNeverShort
  BY DEF BookFits, PlanNeverShort
<1> QED BY <1>1, BookInvariance, PTL

-----------------------------------------------------------------------------
(* What was gained. *)

GainsBooked ==
    book.equity - OpeningCash =
        booked + SumFunctionOnSet(GainsOf(book.positions), Traded) - dropped

LEMMA GainsStep == BookFits /\ GainsBooked /\ [PaperFillsNext]_fillsVars => GainsBooked'
<1> SUFFICES ASSUME BookFits, GainsBooked, [PaperFillsNext]_fillsVars PROVE GainsBooked'
  OBVIOUS
<1>1. CASE UNCHANGED fillsVars
  BY <1>1 DEF fillsVars, GainsBooked
<1>2. ASSUME NEW plan \in OrderPlans, ExecutePlan(plan) PROVE GainsBooked'
  <2> DEFINE end == Fills(plan)[Len(plan)]
  <2>1. /\ FillsFit(plan, Len(plan)) /\ end \in FillState
        /\ book'.equity = book.equity - end.costs
        /\ book'.positions = WithoutEmpty(end.positions)
        /\ booked' = booked + end.booked
        /\ dropped' = dropped + BasisOfEmpty(end.positions)
    BY <1>2, ExecuteLeaves
  <2>2. end.booked + SumFunctionOnSet(GainsOf(end.positions), Traded) + end.costs =
            SumFunctionOnSet(GainsOf(book.positions), Traded)
    BY <2>1 DEF FillsFit
  <2> HIDE DEF end
  <2>3. /\ end.costs \in Int /\ end.booked \in Int /\ end.positions \in [Traded -> Position]
    BY <2>1 DEF FillState
  <2> DEFINE G == SumFunctionOnSet(GainsOf(end.positions), Traded)
             H == SumFunctionOnSet(GainsOf(book.positions), Traded)
             K == SumFunctionOnSet(GainsOf(book'.positions), Traded)
             out == BasisOfEmpty(end.positions)
             equity0 == book.equity
             costs == end.costs
             more == end.booked
  <2>4. out \in Nat /\ K = G + out
    BY <2>1, <2>3, DroppedBasis
  <2>5. /\ G \in Int /\ H \in Int /\ equity0 \in Int /\ booked \in Int /\ dropped \in Int
        /\ OpeningCash \in Int
    BY <2>3, SumsOfPositions, PaperFillsAssumption DEF BookFits
  <2>6. costs \in Int /\ more \in Int
    BY <2>3
  <2>7. equity0 - OpeningCash = booked + H - dropped
    BY DEF GainsBooked
  <2>8. more + G + costs = H
    BY <2>2
  <2> HIDE DEF G, H, K, out, equity0, costs, more
  <2>9. equity0 - costs - OpeningCash = (booked + more) + K - (dropped + out)
    BY <2>4, <2>5, <2>6, <2>7, <2>8
  <2>10. book'.equity - OpeningCash = booked' + K - dropped'
    BY <2>1, <2>9 DEF out, equity0, costs, more
  <2> QED BY <2>10 DEF GainsBooked, K
<1> QED BY <1>1, <1>2 DEF PaperFillsNext

LEMMA GainsInit == PaperFillsInit => GainsBooked
<1> SUFFICES ASSUME PaperFillsInit PROVE GainsBooked
  OBVIOUS
<1>1. /\ SumFunctionOnSet(GainsOf(book.positions), Traded) = 0
      /\ book.equity = OpeningCash /\ booked = 0 /\ dropped = 0
  BY FlatBook
<1>2. OpeningCash - OpeningCash = 0 + 0 - 0
  BY PaperFillsAssumption
<1> QED BY <1>1, <1>2 DEF GainsBooked

LEMMA GainsOfOpen ==
    ASSUME BookFits
    PROVE  SumFunctionOnSet(GainsOf(book.positions), Open(book)) =
               SumFunctionOnSet(GainsOf(book.positions), Traded)
<1>1. GainsOf(book.positions) \in [Traded -> Int]
  BY SumsOfPositions DEF BookFits
<1>2. \A s \in Traded : s \notin Open(book) => GainsOf(book.positions)[s] = 0
  <2> SUFFICES ASSUME NEW s \in Traded, s \notin Open(book)
               PROVE  GainsOf(book.positions)[s] = 0
    OBVIOUS
  <2>1. book.positions[s] = Flat
    BY DEF BookFits, Open
  <2> QED BY <2>1 DEF GainsOf, Flat
<1>3. Open(book) \in SUBSET Traded /\ IsFiniteSet(Traded)
  BY PaperFillsAssumption DEF Open
<1>4. \A s \in Traded : GainsOf(book.positions)[s] \in Int
  BY <1>1
<1> HIDE DEF Open
<1> QED BY <1>2, <1>3, <1>4, SumSupport

\* The equity, carried on by subtracting costs, is cash plus positions, and what it gained or
\* lost since the seed is realized in a ledger or unrealized in an open position, but for the
\* basis of positions that left the portfolio at value 0 (PnlAccounted), to the cent, whatever
\* is bought and sold at whatever prices.
THEOREM PnlAgrees == PaperFillsSpec => []PnlAccounted
<1>1. PaperFillsInit => BookFits /\ GainsBooked
  BY FlatBook, GainsInit
<1>2. BookFits /\ GainsBooked /\ [PaperFillsNext]_fillsVars => (BookFits /\ GainsBooked)'
  BY BookStep, GainsStep
<1>3. BookFits /\ GainsBooked => PnlAccounted
  <2> SUFFICES ASSUME BookFits, GainsBooked PROVE PnlAccounted
    OBVIOUS
  <2>1. SumFunctionOnSet(GainsOf(book.positions), Open(book)) =
            SumFunctionOnSet(GainsOf(book.positions), Traded)
    BY GainsOfOpen
  <2> QED BY <2>1 DEF BookFits, GainsBooked, PnlAccounted, ValuesOf, GainsOf
<1> QED BY <1>1, <1>2, <1>3, PTL DEF PaperFillsSpec

-----------------------------------------------------------------------------
(***************************************************************************)
(* Types.  MarketInv and BookFits carry the types of their components; the *)
(* types of a cycle follow from what it holds: bars that were stored, and  *)
(* its own beginning.                                                      *)
(***************************************************************************)

LEMMA MarketTypes == MarketInv => MarketTypeOK
<1> SUFFICES ASSUME MarketInv PROVE MarketTypeOK
  OBVIOUS
<1>1. \A a \in Feeders : import[a].left \subseteq Days /\ import[a].known \subseteq Days
  BY DEF MarketInv, ImportFits
<1>2. poll.on \in BOOLEAN /\ poll.done \subseteq Symbols /\ poll.failed \subseteq Symbols
      /\ poll.since \in 0..time
  <2>1. poll \in Polls /\ poll.since <= time /\ time \in Nat
    BY LastTimeIsLater DEF MarketInv, PollFits
  <2> QED BY <2>1 DEF Polls
<1>3. /\ bars \in [Symbols -> [Days -> Bar \cup {NoBar}]]
      /\ lastIngestion.status \in {"none", "skipped", "succeeded", "partial", "failed"}
      /\ research.days \subseteq Days
      /\ time \in 0..LastTime /\ ingesting = poll.on
  BY DEF MarketInv, BarsFit, RunFits, ResearchFits
<1> QED BY <1>1, <1>2, <1>3 DEF MarketTypeOK

LEMMA BookTypes == BookFits => PaperFillsTypeOK
BY DEF BookFits, PaperFillsTypeOK, Position

\* What a cycle holds, and what it saves, is made of stored bars.
CycleTypes(a) ==
    /\ a.asOf \in Instants
    /\ \A s \in DOMAIN a.bars : a.bars[s] \in [Sessions -> Instants]
Archived ==
    /\ now \in Instants /\ texts \subseteq Instants
    /\ history \in [Listed -> [Sessions -> Instants]]
RowTypes == \A k \in Keys : decisions[k] \in Rows \cup {Unwritten}
AlphaFits == AlphaInv /\ CycleTypes(alpha) /\ Archived /\ RowTypes /\ ran \in 0..MaxCycles

LEMMA InstantsAre ==
    /\ \A d \in Sessions : Evening(d) \in Instants
    /\ \A d \in Sessions, n \in Nat, t \in Instants : Midnight(d) + n <= t => Midnight(d) + n \in Instants
    /\ Instants \subseteq Int /\ Sessions \subseteq Int
    /\ 1 \in Sessions /\ 0 \in Instants
BY AlphaAssumption DEF Sessions, Instants, Evening, Midnight

LEMMA IdleTypes == CycleTypes(NoCycle)
BY InstantsAre DEF CycleTypes, NoCycle

LEMMA AlphaTyped == AlphaFits => AlphaTypeOK
<1> SUFFICES ASSUME AlphaFits PROVE AlphaTypeOK
  OBVIOUS
<1>1. \A l \in labels : l.key \in Keys /\ l.start \in Sessions /\ l.end \in Sessions
  BY DEF AlphaFits, AlphaInv, LabelsMeasured, Measured
<1>2. \A k \in DOMAIN learner.rows : k \in Keys
  BY DEF AlphaFits, AlphaInv, LearnerFits
<1>3. DOMAIN decisions = Keys /\ alpha.at \in {"idle", "snapshot", "numeric", "llm", "meta"}
  BY DEF AlphaFits, AlphaInv, DecisionsTimely, CycleFits
<1> QED BY <1>1, <1>2, <1>3 DEF AlphaFits, AlphaTypeOK, Archived, RowTypes

LEMMA AlphaTypesStart == AlphaInit => AlphaFits
<1> SUFFICES ASSUME AlphaInit PROVE AlphaFits
  OBVIOUS
<1>1. Evening(1) \in Instants /\ 0 \in Instants /\ 0 \in 0..MaxCycles
  BY InstantsAre, AlphaAssumption
<1>2. history \in [Listed -> [Sessions -> Instants]]
  BY <1>1 DEF AlphaInit, Unstored
<1> QED BY <1>1, <1>2, AlphaStarts, IdleTypes DEF AlphaInit, AlphaFits, Archived, RowTypes

\* What the rows of a cycle are made of.
LEMMA RowsTyped ==
    ASSUME AlphaFits, alpha.at \in {"numeric", "llm", "meta"}, NEW s \in Universe,
           NEW h \in Nat, NEW read \in SUBSET Instants
    PROVE  /\ SnapshotAvailable(s) \in Instants /\ Eligible(s) \in SUBSET Instants
           /\ FeatureAvailable(s) \in Instants
           /\ Row(s, SnapshotAvailable(s), h, read) \in Rows
<1>1. /\ alpha.asOf \in Instants /\ alpha.bars[s] \in [Sessions -> Instants]
      /\ HistoryFits(alpha.bars[s])
  BY DEF AlphaFits, AlphaInv, CycleFits, CycleTypes
<1> DEFINE days == StoredDays(alpha.bars[s])
<1>2. days \subseteq Sessions /\ Max(days) \in days
  BY <1>1, DatedTypes DEF HistoryFits, Dated
<1>3. SnapshotAvailable(s) \in Instants
  BY <1>1, <1>2 DEF SnapshotAvailable, AvailabilityOf
<1>4. Eligible(s) \in SUBSET Instants
  BY DEF AlphaFits, Archived, Eligible
<1>5. FeatureAvailable(s) \in Instants
  BY <1>3, CycleRows DEF AlphaFits
<1>6. Row(s, SnapshotAvailable(s), h, read) \in Rows
  BY <1>1, <1>2, <1>3 DEF Row, Rows
<1> QED BY <1>3, <1>4, <1>5, <1>6

LEMMA NumericTyped == AlphaFits /\ SaveNumeric => RowTypes'
<1> SUFFICES ASSUME AlphaFits, SaveNumeric PROVE RowTypes'
  OBVIOUS
<1> DEFINE rows == [s \in Universe |-> Row(s, SnapshotAvailable(s), MetaHorizon, {})]
<1>1. /\ alpha.at = "numeric"
      /\ decisions' = [k \in Keys |-> IF k[1] = "numeric" /\ k[3] = AsOfDays[k[2]]
                                      THEN rows[k[2]] ELSE decisions[k]]
  BY DEF SaveNumeric, Upsert
<1>2. ASSUME NEW s \in Universe PROVE rows[s] \in Rows
  BY <1>1, RowsTyped, AlphaAssumption
<1> HIDE DEF rows
<1> QED BY <1>1, <1>2 DEF RowTypes, AlphaFits, Keys

LEMMA SemanticTyped == AlphaFits /\ SaveSemantic => RowTypes'
<1> SUFFICES ASSUME AlphaFits, SaveSemantic PROVE RowTypes'
  OBVIOUS
<1> DEFINE rows(h) == [s \in Universe |-> Row(s, FeatureAvailable(s), h, Eligible(s))]
           days == [s \in Universe |-> DayOf(FeatureAvailable(s))]
<1>1. alpha.at = "llm"
  BY DEF SaveSemantic
<1>2. PICK h \in LlmHorizons :
        decisions' = [k \in Keys |-> IF k[1] = "llm" /\ k[3] = days[k[2]]
                                     THEN rows(h)[k[2]] ELSE decisions[k]]
  BY DEF SaveSemantic, Upsert
<1>3. ASSUME NEW s \in Universe PROVE rows(h)[s] \in Rows
  <2>1. h \in Nat
    BY AlphaAssumption
  <2>2. Eligible(s) \in SUBSET Instants
    BY <1>1, <2>1, RowsTyped
  <2>3. FeatureAvailable(s) = SnapshotAvailable(s)
    BY <1>1, CycleRows DEF AlphaFits
  <2> QED BY <1>1, <2>1, <2>2, <2>3, RowsTyped
<1> HIDE DEF rows, days
<1> QED BY <1>2, <1>3 DEF RowTypes, AlphaFits, Keys

LEMMA MetaTyped == AlphaFits /\ SaveMeta => RowTypes'
<1> SUFFICES ASSUME AlphaFits, SaveMeta PROVE RowTypes'
  OBVIOUS
<1> DEFINE rows == [s \in Universe |-> Row(s, SnapshotAvailable(s), MetaHorizon, Eligible(s))]
<1>1. /\ alpha.at = "meta"
      /\ decisions' = [k \in Keys |-> IF k[1] = "meta" /\ k[3] = AsOfDays[k[2]]
                                      THEN rows[k[2]] ELSE decisions[k]]
  BY DEF SaveMeta, Upsert
<1>2. ASSUME NEW s \in Universe PROVE rows[s] \in Rows
  <2>1. MetaHorizon \in Nat
    BY AlphaAssumption
  <2>2. Eligible(s) \in SUBSET Instants
    BY <1>1, <2>1, RowsTyped
  <2> QED BY <1>1, <2>1, <2>2, RowsTyped
<1> HIDE DEF rows
<1> QED BY <1>1, <1>2 DEF RowTypes, AlphaFits, Keys

\* What is read is what is stored.
LEMMA ReadBarsTyped ==
    ASSUME AlphaFits, NEW s \in Universe, ReadBars(s)
    PROVE  CycleTypes(alpha')
<1> DEFINE read == [x \in DOMAIN alpha.bars \cup {s} |->
                      IF x = s THEN history[s] ELSE alpha.bars[x]]
           onto == [alpha EXCEPT !.bars = read,
                                 !.at = IF DOMAIN read = Universe THEN "numeric" ELSE @]
<1>1. alpha' = NoCycle \/ alpha' = onto
  BY DEF ReadBars
<1>2. history[s] \in [Sessions -> Instants]
  BY DEF AlphaFits, Archived, Listed
<1>3. \A x \in DOMAIN read : read[x] \in [Sessions -> Instants]
  BY <1>2 DEF AlphaFits, CycleTypes
<1> HIDE DEF read
<1>4. onto.asOf = alpha.asOf /\ onto.bars = read
  BY DEF AlphaFits, AlphaInv, CycleFits
<1> HIDE DEF onto
<1>5. CycleTypes(onto)
  BY <1>3, <1>4 DEF AlphaFits, CycleTypes
<1> QED BY <1>1, <1>5, IdleTypes

\* A row of the market or of the archive keeps its type.
LEMMA ArchivedKeeps == AlphaFits /\ AlphaNext => Archived' /\ ran' \in 0..MaxCycles
<1> SUFFICES ASSUME AlphaFits, AlphaNext PROVE Archived' /\ ran' \in 0..MaxCycles
  OBVIOUS
<1>1. Archived /\ ran \in 0..MaxCycles
  BY DEF AlphaFits
<1>2. CASE HalfDayPasses
  BY <1>1, <1>2 DEF HalfDayPasses, Archived
<1>3. ASSUME NEW s \in Listed, BarArrives(s) PROVE Archived' /\ ran' \in 0..MaxCycles
  <2>1. PICK d \in Sessions, delay \in Delays :
            /\ Midnight(d) + delay <= now
            /\ history' = [history EXCEPT ![s][d] = Midnight(d) + delay]
    BY <1>3 DEF BarArrives
  <2>2. Midnight(d) + delay \in Instants
    BY <1>1, <2>1, InstantsAre, AlphaAssumption DEF Archived
  <2>3. history' \in [Listed -> [Sessions -> Instants]]
    BY <1>1, <2>1, <2>2 DEF Archived
  <2> QED BY <1>1, <1>3, <2>3 DEF BarArrives, Archived
<1>4. CASE TextArchived
  <2>1. PICK t \in 1..now : texts' = {t}
    BY <1>4 DEF TextArchived
  <2>2. t \in Instants
    BY <1>1, AlphaAssumption DEF Archived, Instants
  <2> QED BY <1>1, <1>4, <2>1, <2>2 DEF TextArchived, Archived
<1>5. CASE BeginAlphaCycle
  BY <1>1, <1>5, AlphaAssumption DEF BeginAlphaCycle, Archived, market
<1>6. CASE \/ SaveNumeric \/ SaveSemantic \/ SaveMeta \/ AlphaCycleStops
           \/ BeginLabelling \/ (\E s \in Universe : ReadBars(s))
           \/ (\E k \in DOMAIN learner.rows : ReadLabelStart(k)) \/ SaveLabel
  <2>1. UNCHANGED <<market, ran>>
    BY <1>6 DEF SaveNumeric, SaveSemantic, SaveMeta, AlphaCycleStops, BeginLabelling,
                ReadBars, ReadLabelStart, SaveLabel
  <2> QED BY <1>1, <2>1 DEF Archived, market
<1> QED BY <1>2, <1>3, <1>4, <1>5, <1>6 DEF AlphaNext

LEMMA CycleTypesKeep == AlphaFits /\ AlphaNext => CycleTypes(alpha')
<1> SUFFICES ASSUME AlphaFits, AlphaNext PROVE CycleTypes(alpha')
  OBVIOUS
<1>1. CycleTypes(alpha) /\ DOMAIN alpha = {"at", "asOf", "bars"}
  BY DEF AlphaFits, AlphaInv, CycleFits
<1>2. CASE BeginAlphaCycle
  <2>1. alpha' = [NoCycle EXCEPT !.at = "snapshot", !.asOf = now] /\ now \in Instants
    BY <1>2 DEF BeginAlphaCycle, AlphaFits, Archived
  <2> QED BY <2>1 DEF CycleTypes, NoCycle
<1>3. CASE SaveNumeric \/ SaveSemantic
  <2>1. alpha' = [alpha EXCEPT !.at = "llm"] \/ alpha' = [alpha EXCEPT !.at = "meta"]
    BY <1>3 DEF SaveNumeric, SaveSemantic
  <2> QED BY <1>1, <2>1 DEF CycleTypes
<1>4. CASE SaveMeta \/ AlphaCycleStops
  BY <1>4, IdleTypes DEF SaveMeta, AlphaCycleStops
<1>5. CASE \E s \in Universe : ReadBars(s)
  BY <1>5, ReadBarsTyped
<1>6. CASE \/ HalfDayPasses \/ (\E s \in Listed : BarArrives(s)) \/ TextArchived
           \/ BeginLabelling \/ (\E k \in DOMAIN learner.rows : ReadLabelStart(k)) \/ SaveLabel
  BY <1>1, <1>6 DEF HalfDayPasses, BarArrives, TextArchived, BeginLabelling, ReadLabelStart,
                    SaveLabel
<1> QED BY <1>2, <1>3, <1>4, <1>5, <1>6 DEF AlphaNext

LEMMA RowTypesKeep == AlphaFits /\ AlphaNext => RowTypes'
<1> SUFFICES ASSUME AlphaFits, AlphaNext PROVE RowTypes'
  OBVIOUS
<1>1. CASE SaveNumeric \/ SaveSemantic \/ SaveMeta
  BY <1>1, NumericTyped, SemanticTyped, MetaTyped
<1>2. CASE ~ (SaveNumeric \/ SaveSemantic \/ SaveMeta)
  <2>1. UNCHANGED decisions
    BY <1>2 DEF AlphaNext, HalfDayPasses, BarArrives, ReadBars, TextArchived, BeginAlphaCycle,
                AlphaCycleStops, BeginLabelling, ReadLabelStart, SaveLabel
  <2> QED BY <2>1 DEF RowTypes, AlphaFits
<1> QED BY <1>1, <1>2

LEMMA AlphaFitsStep == AlphaFits /\ [AlphaNext]_alphaVars => AlphaFits'
<1>1. ASSUME AlphaFits, UNCHANGED alphaVars PROVE AlphaFits'
  BY <1>1 DEF alphaVars, market, AlphaFits, AlphaInv, AlphaTypes, DecisionsTimely,
              LearnerFits, LabelsMeasured, Archived, RowTypes
<1>2. ASSUME AlphaFits, AlphaNext PROVE AlphaFits'
  BY <1>2, AlphaNextKeeps, ArchivedKeeps, CycleTypesKeep, RowTypesKeep DEF AlphaFits
<1> QED BY <1>1, <1>2

\* Every component keeps its type, whichever of them the instance is about.
THEOREM ResearchTyped == ResearchSpec => []ResearchTypeOK
<1> DEFINE TypesInv == MarketInv /\ BookFits /\ AlphaFits
<1>1. ResearchInit => TypesInv
  BY MarketStarts, FlatBook, AlphaTypesStart DEF ResearchInit
<1>2. TypesInv /\ [ResearchNext]_researchVars => TypesInv'
  <2>1. [ResearchNext]_researchVars =>
            [MarketNext]_marketVars /\ [PaperFillsNext]_fillsVars /\ [AlphaNext]_alphaVars
    BY DEF ResearchNext, researchVars
  <2> QED BY <2>1, MarketStep, BookStep, AlphaFitsStep
<1>3. TypesInv => ResearchTypeOK
  BY MarketTypes, BookTypes, AlphaTyped DEF ResearchTypeOK
<1> QED BY <1>1, <1>2, <1>3, PTL DEF ResearchSpec

=============================================================================
