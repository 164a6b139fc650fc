--------------------------- MODULE AlphaLearning ---------------------------
(***************************************************************************)
(* The alpha cycle (feature snapshots, numeric, semantic and meta          *)
(* decisions) and the learning loop that labels decisions with what the    *)
(* market did afterwards.                                                  *)
(*                                                                         *)
(* Time is counted in quarter days.  The bar of day d is stamped 4d, its   *)
(* midnight; the clock shows mornings and evenings, 4d + 1 and 4d + 3, and *)
(* never a midnight to the millisecond.  An import stores or corrects the  *)
(* bar of any day that has begun, earlier ones too, with any availability  *)
(* that is not in the future.  Day 1 stands for the days stored before;    *)
(* the 260 bars that are read hold every day of the model.                 *)
(***************************************************************************)
EXTENDS Integers, FiniteSets, FiniteSetsExt

CONSTANTS
    Universe,      \* the symbols decided about
    Yardstick,    \* the symbol returns are compared with
    LastDay,      \* bound on the days bars are stored for
    Delays,       \* how long after its midnight a bar may be said to be available
    MaxFeatureAge,  \* quarter days after which a snapshot is stale
    LlmHorizons,  \* the horizons, in quarter days, a model may answer with
    MetaHorizon,  \* the horizon of numeric and meta decisions
    MaxCycles     \* bound on alpha cycles

ASSUME AlphaAssumption ==
    /\ LastDay \in Nat \ {0} /\ MaxFeatureAge \in Nat /\ MaxCycles \in Nat
    /\ Delays \subseteq Nat
    /\ LlmHorizons \subseteq Nat \ {0} /\ MetaHorizon \in Nat \ {0}

Sessions == 1..LastDay
Listed == Universe \cup {Yardstick}
Instants == 0..(4 * LastDay + 4)
Sources == {"numeric", "llm", "meta"}
Midnight(d) == 4 * d
Evening(d) == 4 * d + 3
DayOf(t) == t \div 4
Unstored == 0
StoredDays(stored) == {d \in Sessions : stored[d] # Unstored}

VARIABLES
    now,        \* the clock
    history,    \* the bars stored: [symbol -> [day -> availability, or Unstored]]
    texts,      \* when each archived piece of text became available
    decisions,  \* the decision rows by source, symbol and day
    labels,     \* the labels
    alpha,      \* the alpha cycle under way
    learner,    \* the learning loop: the rows still to look at, the label under way
    ran         \* how many alpha cycles began

alphaVars == <<now, history, texts, decisions, labels, alpha, learner, ran>>
market == <<now, history, texts>>

\* What a row rests on: the sessions whose bars were read, and the texts (`heard').
Unwritten == [asOf |-> -1, availableAt |-> -1, horizon |-> 0, sessions |-> {}, heard |-> {}]
NoCycle == [at |-> "idle", asOf |-> 0, bars |-> [s \in {} |-> 0]]
NoLoop == [rows |-> [k \in {} |-> Unwritten], window |-> <<>>]
Keys == Sources \X Universe \X Sessions
Rows == [asOf: Instants, availableAt: Instants, horizon: Nat,
         sessions: SUBSET Sessions, heard: SUBSET Instants]

AlphaTypeOK ==
    /\ now \in Instants
    /\ history \in [Listed -> [Sessions -> Instants]]
    /\ texts \subseteq Instants
    /\ DOMAIN decisions = Keys /\ \A k \in Keys : decisions[k] \in Rows \cup {Unwritten}
    /\ \A l \in labels : l.key \in Keys /\ l.start \in Sessions /\ l.end \in Sessions
    /\ alpha.at \in {"idle", "snapshot", "numeric", "llm", "meta"}
    /\ \A k \in DOMAIN learner.rows : k \in Keys
    /\ ran \in 0..MaxCycles

AlphaInit ==
    /\ now = Evening(1)
    /\ history = [s \in Listed |-> [d \in Sessions |-> IF d = 1 THEN Evening(1) ELSE Unstored]]
    /\ texts = {}
    /\ decisions = [k \in Keys |-> Unwritten]
    /\ labels = {}
    /\ alpha = NoCycle
    /\ learner = NoLoop
    /\ ran = 0

-----------------------------------------------------------------------------
(* What the cycle reads. *)

\* From a morning to the evening, from an evening to the next morning.
HalfDayPasses ==
    /\ now + 2 \in Instants /\ DayOf(now + 2) <= LastDay
    /\ now' = now + 2
    /\ UNCHANGED <<history, texts, decisions, labels, alpha, learner, ran>>

\* importMarketDataBars: a bar is stored for the first time, days after its session perhaps,
\* or stored again with a later availability.
BarArrives(s) ==
    /\ \E d \in Sessions, delay \in Delays :
          /\ Midnight(d) + delay <= now
          /\ history' = [history EXCEPT ![s][d] = Midnight(d) + delay]
    /\ UNCHANGED <<now, texts, decisions, labels, alpha, learner, ran>>

\* News is available when it was retrieved; an archived statement from its release date on.
TextArchived ==
    /\ texts = {}
    /\ \E t \in 1..now : texts' = {t}
    /\ UNCHANGED <<now, history, decisions, labels, alpha, learner, ran>>

-----------------------------------------------------------------------------
(* The alpha cycle: one asOf, then one read per symbol, then three upserts. *)

BeginAlphaCycle ==
    /\ alpha.at = "idle" /\ ran < MaxCycles
    /\ alpha' = [NoCycle EXCEPT !.at = "snapshot", !.asOf = now]
    /\ ran' = ran + 1
    /\ UNCHANGED <<market, decisions, labels, learner>>

\* The newest bar by time stamp dates the snapshot, whenever the older ones became available.
AvailabilityOf(stored) == stored[Max(StoredDays(stored))]
SnapshotAvailable(s) == AvailabilityOf(alpha.bars[s])
SnapshotFresh(asOf, t) == t <= asOf /\ now - t <= MaxFeatureAge

\* The bars of a symbol are read without a look at their availability; a snapshot whose
\* newest bar is too new or too old ends the cycle.
ReadBars(s) ==
    /\ alpha.at = "snapshot" /\ s \notin DOMAIN alpha.bars
    /\ LET read == [x \in DOMAIN alpha.bars \cup {s} |->
                       IF x = s THEN history[s] ELSE alpha.bars[x]]
       IN  alpha' = IF ~SnapshotFresh(alpha.asOf, AvailabilityOf(history[s])) THEN NoCycle
                    ELSE [alpha EXCEPT !.bars = read,
                                       !.at = IF DOMAIN read = Universe THEN "numeric" ELSE @]
    /\ UNCHANGED <<market, decisions, labels, learner, ran>>

\* A decision is keyed by the day of its snapshot's asOf, a semantic one by the day of its inputs.
Row(s, availableAt, horizon, heard) ==
    [asOf |-> alpha.asOf, availableAt |-> availableAt, horizon |-> horizon,
     sessions |-> StoredDays(alpha.bars[s]), heard |-> heard]
Upsert(source, rows, days) ==
    decisions' = [k \in Keys |->
        IF k[1] = source /\ k[3] = days[k[2]] THEN rows[k[2]] ELSE decisions[k]]
AsOfDays == [s \in Universe |-> DayOf(alpha.asOf)]

SaveNumeric ==
    /\ alpha.at = "numeric"
    /\ Upsert("numeric",
              [s \in Universe |-> Row(s, SnapshotAvailable(s), MetaHorizon, {})], AsOfDays)
    /\ alpha' = [alpha EXCEPT !.at = "llm"]
    /\ UNCHANGED <<market, labels, learner, ran>>

\* Mutant: the texts that are there, whenever they became available.
EveryText(s) == texts
Eligible(s) == {t \in texts : t <= SnapshotAvailable(s)}
FeatureAvailable(s) == Max(Eligible(s) \cup {SnapshotAvailable(s)})

\* The model's answer, or the flat features written without one.
SaveSemantic ==
    /\ alpha.at = "llm"
    /\ \E h \in LlmHorizons :
          Upsert("llm", [s \in Universe |-> Row(s, FeatureAvailable(s), h, Eligible(s))],
                 [s \in Universe |-> DayOf(FeatureAvailable(s))])
    /\ alpha' = [alpha EXCEPT !.at = "meta"]
    /\ UNCHANGED <<market, labels, learner, ran>>

\* A meta decision is dated by its snapshot whatever its semantic inputs are dated by.
SaveMeta ==
    /\ alpha.at = "meta"
    /\ Upsert("meta",
              [s \in Universe |-> Row(s, SnapshotAvailable(s), MetaHorizon, Eligible(s))], AsOfDays)
    /\ alpha' = NoCycle
    /\ UNCHANGED <<market, labels, learner, ran>>

\* A step of the cycle throws, or the process stops; what was saved stays.
AlphaCycleStops ==
    /\ alpha.at \in {"llm", "meta"}
    /\ alpha' = NoCycle
    /\ UNCHANGED <<market, decisions, labels, learner, ran>>

-----------------------------------------------------------------------------
(* The learning loop. *)

BeginLabelling ==
    /\ DOMAIN learner.rows = {}
    /\ \E k \in Keys : decisions[k] # Unwritten
    /\ learner' = [NoLoop EXCEPT !.rows =
                     [k \in {k \in Keys : decisions[k] # Unwritten} |-> decisions[k]]]
    /\ UNCHANGED <<market, decisions, labels, alpha, ran>>

\* Mutant: a label starts on the day of its decision.
DayStart(row) == Midnight(DayOf(row.asOf))
LabelStart(row) == Max({row.asOf, row.availableAt})

\* firstBarAtOrAfter goes by time stamps.
AtOrAfter(s, t) == {d \in StoredDays(history[s]) : Midnight(d) >= t}
Without(k) == [NoLoop EXCEPT !.rows = [x \in DOMAIN learner.rows \ {k} |-> learner.rows[x]]]

\* The next decision of the list, newest first; one that has a label is passed over.
ReadLabelStart(k) ==
    LET row == learner.rows[k]
        days == AtOrAfter(k[2], LabelStart(row))
    IN  /\ learner.window = <<>>
        /\ \A x \in DOMAIN learner.rows : learner.rows[x].asOf <= row.asOf
        /\ learner' = IF days = {} \/ \E l \in labels : l.key = k THEN Without(k)
                      ELSE [learner EXCEPT !.window = <<k, Min(days)>>]
        /\ UNCHANGED <<market, decisions, labels, alpha, ran>>

\* The other three bars, read later; without one of them there is no label yet.
SaveLabel ==
    /\ learner.window # <<>>
    /\ LET k == learner.window[1]
           row == learner.rows[k]
           ends == LabelStart(row) + row.horizon
           days == AtOrAfter(k[2], ends)
       IN  /\ labels' = labels \cup
                  (IF days # {} /\ AtOrAfter(Yardstick, LabelStart(row)) # {}
                      /\ AtOrAfter(Yardstick, ends) # {}
                   THEN {[key |-> k, row |-> row, start |-> learner.window[2], end |-> Min(days)]}
                   ELSE {})
           /\ learner' = Without(k)
    /\ UNCHANGED <<market, decisions, alpha, ran>>

AlphaNext ==
    \/ HalfDayPasses
    \/ \E s \in Listed : BarArrives(s)
    \/ \E s \in Universe : ReadBars(s)
    \/ TextArchived
    \/ BeginAlphaCycle
    \/ SaveNumeric
    \/ SaveSemantic
    \/ SaveMeta
    \/ AlphaCycleStops
    \/ BeginLabelling
    \/ \E k \in DOMAIN learner.rows : ReadLabelStart(k)
    \/ SaveLabel

AlphaSpec == AlphaInit /\ [][AlphaNext]_alphaVars

-----------------------------------------------------------------------------
(* Properties. *)

\* No stored decision is dated before a text it heard became available or before the session
\* of a bar it read, or after the moment it speaks for, whatever was imported, corrected or
\* archived while the cycle ran.  (Of a bar, its session: the snapshot is dated by the
\* availability of its newest bar, and an older one may have been corrected after it.)
PointInTime ==
    \A k \in Keys : decisions[k] # Unwritten =>
        /\ \A t \in decisions[k].heard : t <= decisions[k].availableAt
        /\ \A d \in decisions[k].sessions : Midnight(d) <= decisions[k].availableAt
        /\ decisions[k].availableAt <= decisions[k].asOf

\* A decision has one label, and its window opens and closes after everything the decision
\* rests on: the version of the row that was labelled, and the version that later cycles of
\* the day have put in its place, however late the bars of the window were filled in.
LabelsLookForward ==
    \A l \in labels :
        /\ \A m \in labels : m.key = l.key => m = l
        /\ \A row \in {l.row, decisions[l.key]} :
              /\ \A d \in row.sessions : d < l.start /\ d < l.end
              /\ \A t \in row.heard : t < Midnight(l.start) /\ t < Midnight(l.end)
=============================================================================
