---------------------------- MODULE BrokerFills ----------------------------
(***************************************************************************)
(* Broker fills imported as read-only evidence and matched with paper      *)
(* fills (ControlPlaneService: importBrokerFill, reconcileBrokerFill), and *)
(* the Toss poller that brings them in (TossReadOnlyBrokerService).        *)
(*                                                                         *)
(* The poller lives in one process and serves one poll at a time; the      *)
(* operator imports and reconciles beside it.  A fill is identified with   *)
(* its reference, which is all the import hashes.                          *)
(***************************************************************************)
EXTENDS Integers, Sequences, FiniteSets, BrokerAdapter

CONSTANTS
    Refs,           \* broker fill references, 1..n in the order they execute
    Executed,       \* [Refs -> fill]: what the broker reports of each
    Malformed,      \* Refs whose item the mapper refuses
    Refused,        \* Refs that importBrokerFill refuses (a negative fee)
    PaperFills,     \* the paper fills that come about, in this order
    MaxReconciles   \* bound on reconcile requests

HourScore == 41667      \* one hour of a day, in millionths

Fill == [symbol: STRING, side: {"BUY", "SELL"}, amount: Nat, at: Nat]

ASSUME FillsAssumption ==
    /\ Cardinality(Refs) \in Nat /\ Refs = 1..Cardinality(Refs)
    /\ Executed \in [Refs -> Fill] /\ PaperFills \in Seq(Fill)
    /\ Malformed \subseteq Refs /\ Refused \subseteq Refs
    /\ MaxReconciles \in Nat

VARIABLES
    executedTo,     \* refs up to here have executed at the broker
    paperTo,        \* paper fills up to here exist
    fills,          \* broker_fills: [ref, status, paper, seen]
    imports,        \* per actor: the refs to import and where it is
    running,        \* the poller's flag
    polling,        \* the polls in progress
    lastPoll,       \* outcome of the last fill poll that got through: [error, listed]
    reconciles      \* reconcile requests served

fillVars == <<env, executedTo, paperTo, fills, imports, running, polling, lastPoll, reconciles>>

Importers == {"operator", "poller"}
Resting == [todo |-> <<>>, at |-> "rest", id |-> 0, status |-> "none", paper |-> 0, seen |-> 0]
BrokerFill == [ref: Refs, status: {"imported", "matched", "mismatch"}, paper: Nat, seen: Nat]

FillsTypeOK ==
    /\ executedTo \in 0..Cardinality(Refs) /\ paperTo \in 0..Len(PaperFills)
    /\ fills \in Seq(BrokerFill)
    /\ \A a \in Importers :
          imports[a].at \in {"rest", "lookup", "save", "match", "store"}
    /\ running \in BOOLEAN
    /\ polling \subseteq {"snapshot", "fills"}
    /\ reconciles \in 0..MaxReconciles

FillsInit ==
    /\ AdapterInit
    /\ executedTo = 0 /\ paperTo = 0
    /\ fills = <<>>
    /\ imports = [a \in Importers |-> Resting]
    /\ running = FALSE
    /\ polling = {}
    /\ lastPoll = [error |-> "never", listed |-> {}]
    /\ reconciles = 0

-----------------------------------------------------------------------------
(* The outside: trades happen at the broker and in the paper account. *)

Trade ==
    /\ \/ executedTo < Cardinality(Refs) /\ executedTo' = executedTo + 1 /\ UNCHANGED paperTo
       \/ paperTo < Len(PaperFills) /\ paperTo' = paperTo + 1 /\ UNCHANGED executedTo
    /\ UNCHANGED <<env, fills, imports, running, polling, lastPoll, reconciles>>

-----------------------------------------------------------------------------
(* findPaperFillMatchForBrokerFill *)

Abs(n) == IF n < 0 THEN -n ELSE n

\* Mutant: only the time decides.
ScoreByTime(b, p) == Abs(b.at - p.at)
\* Quantity, notional and fee differences weigh millionths, days and disagreements
\* weigh one.
Score(b, p) ==
    (IF b.symbol = p.symbol THEN 0 ELSE 1000000)
    + (IF b.side = p.side THEN 0 ELSE 1000000)
    + Abs(b.amount - p.amount)
    + Abs(b.at - p.at) * HourScore

\* The best candidates among the paper fills an unconstrained request looks at.
BestPaperFills(b, seen) ==
    {i \in 1..seen : \A j \in 1..seen : Score(b, PaperFills[i]) <= Score(b, PaperFills[j])}

Agrees(b, p) == b.symbol = p.symbol /\ b.side = p.side /\ b.amount = p.amount

\* reconcileBrokerFillAgainstPaper, up to the save: the verdict on one candidate.
MatchOutcome(held, ref, seen, candidates) ==
    IF candidates = {}
    THEN {[held EXCEPT !.at = "store", !.status = "mismatch", !.paper = 0, !.seen = seen]}
    ELSE {[held EXCEPT !.at = "store", !.paper = i, !.seen = seen,
             !.status = IF Agrees(Executed[ref], PaperFills[i]) THEN "matched" ELSE "mismatch"]
            : i \in candidates}

-----------------------------------------------------------------------------
(* importBrokerFill, for the first ref of the actor's list. *)

RowOf(ref) == {i \in DOMAIN fills : fills[i].ref = ref}

\* A request to import one executed fill.
OperatorImports ==
    /\ imports["operator"].at = "rest"
    /\ \E r \in 1..executedTo :
          imports' = [imports EXCEPT !["operator"] =
                        [Resting EXCEPT !.todo = <<r>>, !.at = "lookup"]]
    /\ UNCHANGED <<env, executedTo, paperTo, fills, running, polling, lastPoll, reconciles>>

\* reconcileBrokerFill of a stored fill.
OperatorReconciles ==
    /\ imports["operator"].at = "rest"
    /\ reconciles < MaxReconciles /\ reconciles' = reconciles + 1
    /\ \E i \in DOMAIN fills :
          imports' = [imports EXCEPT !["operator"] =
                        [Resting EXCEPT !.todo = <<fills[i].ref>>, !.at = "match", !.id = i]]
    /\ UNCHANGED <<env, executedTo, paperTo, fills, running, polling, lastPoll>>

\* The actor gives up: a request ends with the error, a poll ends with it too.
Throws(a) ==
    /\ imports' = [imports EXCEPT ![a] = Resting]
    /\ IF a = "poller"
       THEN /\ running' = FALSE /\ polling' = polling \ {"fills"}
            /\ lastPoll' = [lastPoll EXCEPT !.error = "failed"]
       ELSE UNCHANGED <<running, polling, lastPoll>>

\* Mutant: the poll carries on with the next fill.
Skips(a) ==
    /\ imports' = [imports EXCEPT ![a].todo = Tail(@),
                      ![a].at = IF Len(imports[a].todo) > 1 \/ a = "poller" THEN "lookup" ELSE "rest"]
    /\ UNCHANGED <<running, polling, lastPoll>>
RefusalOf(a) == Throws(a)

Lookup(a) ==
    /\ imports[a].at = "lookup" /\ imports[a].todo # <<>>
    /\ LET ref == Head(imports[a].todo)
       IN  IF ref \in Refused THEN RefusalOf(a)
           ELSE /\ imports' = [imports EXCEPT ![a] =
                      IF RowOf(ref) = {} THEN [@ EXCEPT !.at = "save"]
                      ELSE [@ EXCEPT !.at = "match", !.id = CHOOSE i \in RowOf(ref) : TRUE]]
                /\ UNCHANGED <<running, polling, lastPoll>>
    /\ UNCHANGED <<env, executedTo, paperTo, fills, reconciles>>

\* The unique index refuses a row that another actor saved since the lookup.
Save(a) ==
    /\ imports[a].at = "save"
    /\ LET ref == Head(imports[a].todo)
       IN  IF RowOf(ref) # {} THEN Throws(a) /\ UNCHANGED fills
           ELSE /\ fills' = Append(fills, [ref |-> ref, status |-> "imported",
                                           paper |-> 0, seen |-> 0])
                /\ imports' = [imports EXCEPT ![a].at = "match", ![a].id = Len(fills) + 1]
                /\ UNCHANGED <<running, polling, lastPoll>>
    /\ UNCHANGED <<env, executedTo, paperTo, reconciles>>

Match(a) ==
    /\ imports[a].at = "match"
    /\ LET ref == Head(imports[a].todo)
       IN  \E held \in MatchOutcome(imports[a], ref, paperTo,
                                    BestPaperFills(Executed[ref], paperTo)) :
              imports' = [imports EXCEPT ![a] = held]
    /\ UNCHANGED <<env, executedTo, paperTo, fills, running, polling, lastPoll, reconciles>>

\* The verdict is saved; the poller goes on to its next fill.
Store(a) ==
    /\ imports[a].at = "store"
    /\ LET held == imports[a]
       IN  /\ fills' = [fills EXCEPT ![held.id] =
                          [ref |-> @.ref, status |-> held.status,
                           paper |-> held.paper, seen |-> held.seen]]
           /\ imports' = [imports EXCEPT ![a] =
                 IF a = "poller" THEN [Resting EXCEPT !.todo = Tail(held.todo), !.at = "lookup"]
                 ELSE Resting]
    /\ UNCHANGED <<env, executedTo, paperTo, running, polling, lastPoll, reconciles>>

-----------------------------------------------------------------------------
(* The poller. *)

\* The check and the flag have no await between them.
RefusedPoll(kind) ==
    running /\ UNCHANGED <<running, polling, imports>>
StartPoll(kind) ==
    /\ ~ running /\ running' = TRUE
    /\ polling' = polling \cup {kind}
    /\ UNCHANGED imports

\* pollReadOnlySnapshot and pollReadOnlyFills, on request.
RequestPoll(kind) ==
    /\ IF kind = "fills" THEN CanPollFills(env) ELSE CanPoll(env)
    /\ StartPoll(kind) \/ RefusedPoll(kind)
    /\ UNCHANGED <<env, executedTo, paperTo, fills, lastPoll, reconciles>>

\* Both cron jobs are due at the same instant.  The snapshot job was registered first
\* and takes the flag; the fill job is refused before the first answer can arrive.
CronPolls ==
    /\ CanPoll(env)
    /\ StartPoll("snapshot") \/ RefusedPoll("snapshot")
    /\ UNCHANGED <<env, executedTo, paperTo, fills, lastPoll, reconciles>>

\* A snapshot poll ends, in any way; what it imports is BrokerFunding's.
SnapshotPollEnds ==
    /\ "snapshot" \in polling
    /\ running' = FALSE /\ polling' = polling \ {"snapshot"}
    /\ UNCHANGED <<env, executedTo, paperTo, fills, imports, lastPoll, reconciles>>

\* The fills endpoint answers with what has executed; the mapper refuses the whole
\* answer for one malformed item.  Or the call fails.
FillsAnswered ==
    /\ "fills" \in polling /\ imports["poller"].at = "rest"
    /\ \/ /\ 1..executedTo \cap Malformed = {}
          /\ imports' = [imports EXCEPT !["poller"] =
                [Resting EXCEPT !.todo = [i \in 1..executedTo |-> i], !.at = "lookup"]]
          /\ lastPoll' = [error |-> "open", listed |-> 1..executedTo]
          /\ UNCHANGED <<running, polling>>
       \/ Throws("poller")
    /\ UNCHANGED <<env, executedTo, paperTo, fills, reconciles>>

FillPollEnds ==
    /\ imports["poller"].at = "lookup" /\ imports["poller"].todo = <<>>
    /\ imports' = [imports EXCEPT !["poller"] = Resting]
    /\ running' = FALSE /\ polling' = polling \ {"fills"}
    /\ lastPoll' = [lastPoll EXCEPT !.error = "none"]
    /\ UNCHANGED <<env, executedTo, paperTo, fills, reconciles>>

FillsNext ==
    \/ Trade
    \/ OperatorImports \/ OperatorReconciles
    \/ \E a \in Importers : Lookup(a) \/ Save(a) \/ Match(a) \/ Store(a)
    \/ \E kind \in {"snapshot", "fills"} : RequestPoll(kind)
    \/ CronPolls \/ SnapshotPollEnds \/ FillsAnswered \/ FillPollEnds

FillsSpec == FillsInit /\ [][FillsNext]_fillVars

-----------------------------------------------------------------------------
(* Properties. *)

\* A matched broker fill names an existing paper fill of the same symbol, side and
\* amount, whichever of two overlapping reconciliations saved its verdict last.
MatchedFillTraced ==
    \A i \in DOMAIN fills :
        fills[i].status = "matched" =>
            /\ fills[i].paper \in 1..paperTo
            /\ LET b == Executed[fills[i].ref]
                   p == PaperFills[fills[i].paper]
               IN  b.symbol = p.symbol /\ b.side = p.side /\ b.amount = p.amount

\* A broker fill is never reported as a mismatch when the reconciliation could see a
\* paper fill that agrees with it in everything, time included, however many better
\* timed or better sized paper fills of other orders it had to choose from.
ExactCopyMatched ==
    \A i \in DOMAIN fills :
        fills[i].status = "mismatch" =>
            \A j \in 1..fills[i].seen : PaperFills[j] # Executed[fills[i].ref]

\* The running flag keeps one poll in progress, whichever of cron, requests and
\* failures set and clear it.
OnePollAtATime ==
    /\ Cardinality(polling) <= 1
    /\ polling # {} => running

\* A fill poll that reports no error has a reconciled row for everything the broker
\* listed to it, whether this poll, an earlier one that failed half way or an import
\* by hand saved it.
CleanPollIsComplete ==
    lastPoll.error = "none" =>
        \A r \in lastPoll.listed : \E i \in RowOf(r) : fills[i].status # "imported"

=============================================================================
