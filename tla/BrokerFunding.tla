--------------------------- MODULE BrokerFunding ---------------------------
(***************************************************************************)
(* Read-only broker snapshots and the readiness records built on them      *)
(* (ControlPlaneService: importBrokerSnapshot, reconcileBrokerSnapshot,    *)
(* assessFundingReadiness, assessLivePilotReadiness).                      *)
(*                                                                         *)
(* A handler reads, and later saves what it has computed; paper fills,     *)
(* promotions and other handlers come in between.  Each request may bring  *)
(* a tolerance and a maximum age of its own.  Time advances in units of    *)
(* the default maximum age; amounts are in the one currency the deployment *)
(* uses and in units above the default tolerance of a cent.                *)
(***************************************************************************)
EXTENDS Integers, Sequences, FiniteSetsExt, BrokerAdapter

CONSTANTS
    Books,          \* [cash, equity, positions]: what an account may hold
    FundingKeys,    \* idempotency keys of readiness requests; "none" for no key
    Deposits,       \* amounts asked for
    PilotCaps,      \* maxPilotBudgetAmount asked for
    Requests,       \* what requests bring: records with a tolerance, a maxAge, both or none
    Sources,        \* <<provider, account given>>: where snapshots come from
    BudgetModes,    \* modes operators give a budget
    FundingDesks,   \* handlers in progress at the same time
    HardCap,        \* LIVE_PILOT_HARD_MAX_BUDGET_KRW
    MaxTime, MaxSnapshots, MaxFunding, MaxPilots    \* bounds

ASSUME FundingAssumption ==
    /\ \A b \in Books : b.cash \in Nat /\ b.equity \in Nat /\ b.positions \in Nat
    /\ Deposits \subseteq Nat \ {0} /\ PilotCaps \subseteq Nat \ {0}
    /\ Sources \subseteq {"manual", "simulated", "toss"} \X BOOLEAN
    /\ \A b \in BOOLEAN : <<"toss", b>> \in Sources => b
    /\ BudgetModes \subseteq {"dry_run", "paper", "live"}
    /\ HardCap \in Nat
    /\ MaxTime \in Nat /\ MaxSnapshots \in Nat /\ MaxFunding \in Nat /\ MaxPilots \in Nat

ASSUME RequestsAssumption ==
    /\ \A r \in Requests : "tolerance" \in DOMAIN r => r.tolerance \in Nat
    /\ \A r \in Requests : "maxAge" \in DOMAIN r => r.maxAge \in Nat \ {0}

VARIABLES
    now,            \* the clock
    paper,          \* the book of the paper account compared with
    snapshots,      \* broker_snapshots
    funding,        \* funding_readiness_records
    pilots,         \* live_pilot_readiness_records
    budgetMode,     \* mode of the selected budget envelope, or "none"
    open            \* what each handler in progress has read

fundingVars == <<env, now, paper, snapshots, funding, pilots, budgetMode, open>>
rows == <<snapshots, funding, pilots>>

Providers == {"manual", "simulated", "toss"}
Terms == [tolerance: Nat, maxAge: Nat \ {0}]
DefaultTerms == [tolerance |-> 0, maxAge |-> 1]
\* The verdict of the last reconciliation, on which terms, when, and the account compared.
Reconciliation == [status: {"not_checked"}, terms: Terms] \cup
    [status: {"matched", "mismatch", "stale"}, terms: Terms, at: Nat, against: Books]
Snapshot == [provider: Providers, hashed: BOOLEAN, book: Books, asOf: Nat,
             reconciliation: Reconciliation]
\* `basis' is a history: the reconciliation the check has read.
Funding == [snapshot: Nat \ {0}, key: FundingKeys, amount: Nat, at: Nat,
            terms: Terms, ready: BOOLEAN, basis: Reconciliation]
Closed == [kind |-> "none"]

FundingTypeOK ==
    /\ env \in Environment
    /\ now \in 0..MaxTime
    /\ paper \in Books
    /\ snapshots \in Seq(Snapshot)
    /\ funding \in Seq(Funding)
    /\ \A i \in DOMAIN pilots : pilots[i].funding \in 0..Len(funding)
    /\ budgetMode \in {"none"} \cup BudgetModes
    /\ \A d \in FundingDesks : open[d].kind \in {"none", "reconcile", "funding", "pilot"}

FundingInit ==
    /\ AdapterInit
    /\ now = 0
    /\ paper \in Books
    /\ snapshots = <<>> /\ funding = <<>> /\ pilots = <<>>
    /\ budgetMode = "none"
    /\ open = [d \in FundingDesks |-> Closed]

-----------------------------------------------------------------------------
(* Around the handlers. *)

Tick == now < MaxTime /\ now' = now + 1
        /\ UNCHANGED <<env, paper, rows, budgetMode, open>>

\* External to this module: a fill changes the account's book.
PaperMoves ==
    /\ paper' \in Books \ {paper}
    /\ UNCHANGED <<env, now, rows, budgetMode, open>>

\* createBudgetEnvelope: the policy never allows live trading, whatever is asked.
CreateBudget ==
    /\ budgetMode' \in BudgetModes
    /\ UNCHANGED <<env, now, paper, rows, open>>

\* importBrokerSnapshot and saveBrokerSnapshot.  Snapshots of the future and manual
\* ones that claim to be Toss's are refused; Toss's come with an account.
ImportSnapshot ==
    /\ Len(snapshots) < MaxSnapshots
    /\ \E s \in Sources, b \in Books, t \in 0..now :
          /\ s[1] = "toss" => CanPoll(env) /\ t = now
          /\ snapshots' = Append(snapshots,
                [provider |-> s[1], hashed |-> s[2], book |-> b, asOf |-> t,
                 reconciliation |-> [status |-> "not_checked", terms |-> DefaultTerms]])
    /\ UNCHANGED <<env, now, paper, funding, pilots, budgetMode, open>>

-----------------------------------------------------------------------------
(* reconcileBrokerSnapshot: the snapshot and the account are read, the verdict is *)
(* saved into the snapshot. *)

\* The terms of a request: what it does not bring it takes from `given'.
TermsOf(r, given) ==
    [tolerance |-> IF "tolerance" \in DOMAIN r THEN r.tolerance ELSE given.tolerance,
     maxAge |-> IF "maxAge" \in DOMAIN r THEN r.maxAge ELSE given.maxAge]

Within(x, y, tolerance) == x <= y + tolerance /\ y <= x + tolerance
Agree(b, c, tolerance) == /\ Within(b.cash, c.cash, tolerance)
                          /\ Within(b.equity, c.equity, tolerance)
                          /\ Within(b.positions, c.positions, tolerance)

Verdict(s, book, age, terms) ==
    CASE age > terms.maxAge -> "stale"
      [] age <= terms.maxAge /\ Agree(s.book, book, terms.tolerance) -> "matched"
      [] OTHER -> "mismatch"

\* The row with the verdict.  The terms of one reconciliation are the defaults of the next.
Reconciled(s, r) ==
    LET terms == TermsOf(r, s.reconciliation.terms)
    IN  [s EXCEPT !.reconciliation =
            [status |-> Verdict(s, paper, now - s.asOf, terms),
             terms |-> terms, at |-> now, against |-> paper]]

\* The active account is compared or, with a paperAccountId in the request, any account,
\* so that the guard on its status keeps nobody out.
ReconcileRead(d) ==
    /\ open[d] = Closed
    /\ \E i \in DOMAIN snapshots, r \in Requests :
          open' = [open EXCEPT ![d] =
              [kind |-> "reconcile", snapshot |-> i, row |-> Reconciled(snapshots[i], r)]]
    /\ UNCHANGED <<env, now, paper, rows, budgetMode>>

\* The whole row is saved back.
ReconcileSave(d) ==
    /\ open[d].kind = "reconcile"
    /\ snapshots' = [snapshots EXCEPT ![open[d].snapshot] = open[d].row]
    /\ open' = [open EXCEPT ![d] = Closed]
    /\ UNCHANGED <<env, now, paper, funding, pilots, budgetMode>>

-----------------------------------------------------------------------------
(* assessFundingReadiness *)

\* Mutant: a matched snapshot carries the deposit at any age.
BlockersAtAnyAge(s, amount, age, terms) ==
    {b \in {"account", "reconciliation", "cash", "equity"} :
        \/ b = "account" /\ ~ s.hashed
        \/ b = "reconciliation" /\ s.reconciliation.status # "matched"
        \/ b = "cash" /\ s.book.cash + terms.tolerance < amount
        \/ b = "equity" /\ s.book.equity + terms.tolerance < amount}
\* What keeps a snapshot from carrying the deposit on the terms of the request.
FundingBlockers(s, amount, age, terms) ==
    {b \in {"account", "reconciliation", "cash", "equity", "stale"} :
        \/ b = "account" /\ ~ s.hashed
        \/ b = "reconciliation" /\ s.reconciliation.status # "matched"
        \/ b = "cash" /\ s.book.cash + terms.tolerance < amount
        \/ b = "equity" /\ s.book.equity + terms.tolerance < amount
        \/ b = "stale" /\ age > terms.maxAge}

\* A known key answers with its record, whichever snapshot it was about.
KeyFree(k, records) == k = "none" \/ \A i \in DOMAIN records : records[i].key # k

FundingCheck(i, k, a, terms) ==
    [kind |-> "funding", snapshot |-> i, key |-> k, amount |-> a, at |-> now,
     terms |-> terms, basis |-> snapshots[i].reconciliation,
     blockers |-> FundingBlockers(snapshots[i], a, now - snapshots[i].asOf, terms)]

FundingRead(d) ==
    /\ open[d] = Closed
    /\ \E i \in DOMAIN snapshots, k \in FundingKeys, a \in Deposits, r \in Requests :
          /\ KeyFree(k, funding)
          /\ open' = [open EXCEPT ![d] = FundingCheck(i, k, a, TermsOf(r, DefaultTerms))]
    /\ UNCHANGED <<env, now, paper, rows, budgetMode>>

\* The insert fails when another handler has used the key since.
FundingSave(d) ==
    /\ open[d].kind = "funding"
    /\ LET o == open[d]
           record == [snapshot |-> o.snapshot, key |-> o.key, amount |-> o.amount,
                      at |-> o.at, terms |-> o.terms, ready |-> o.blockers = {},
                      basis |-> o.basis]
       IN  IF KeyFree(o.key, funding)
           THEN Len(funding) < MaxFunding /\ funding' = Append(funding, record)
           ELSE UNCHANGED funding
    /\ open' = [open EXCEPT ![d] = Closed]
    /\ UNCHANGED <<env, now, paper, snapshots, pilots, budgetMode>>

-----------------------------------------------------------------------------
(* assessLivePilotReadiness *)

\* What can keep a pilot from being ready; the last three always do, and so does the
\* policy, which no stored budget allows to trade live.
PilotConditions ==
    {"no budget", "mode", "policy", "not funded", "over deposit", "over cap", "hard cap",
     "custody", "schema", "sandbox", "polling", "fill polling", "emergency",
     "order endpoint", "write access", "signed custody"}

\* Mutant: the budget is held against the caps and not against the deposit.
PilotBlockedByCaps(b, f, amount, cap, mode, e) ==
    CASE b = "mode"         -> mode # "live"
      [] b = "not funded"   -> ~ f.ready
      [] b = "over cap"     -> amount > cap
      [] b = "hard cap"     -> cap > HardCap
      [] b = "over deposit" -> amount > cap
      [] OTHER              -> TRUE
PilotBlockedBy(b, f, amount, cap, mode, e) ==
    CASE b = "no budget"    -> mode = "none"
      [] b = "mode"         -> mode # "live"
      [] b = "not funded"   -> ~ f.ready
      [] b = "over deposit" -> amount > f.amount
      [] b = "over cap"     -> amount > cap
      [] b = "hard cap"     -> cap > HardCap
      [] b = "custody"      -> ~ CustodyReady(e)
      [] b = "schema"       -> ~ e.schema
      [] b = "sandbox"      -> ~ e.sandbox
      [] b = "polling"      -> ~ (ReadOnlyEnabled(e) /\ CanPoll(e))
      [] b = "fill polling" -> ~ CanPollFills(e)
      [] b = "emergency"    -> ~ (Emergency.cancel /\ Emergency.flatten /\ Emergency.openOrders)
      [] OTHER              -> TRUE

\* The controller always names the funding record.  Reading the adapter status
\* throws under a malformed fills path.
PilotRead(d) ==
    /\ open[d] = Closed
    /\ StatusReadable(env)
    /\ \E i \in DOMAIN funding, k \in FundingKeys, a \in Deposits, cap \in PilotCaps :
          /\ KeyFree(k, pilots)
          /\ open' = [open EXCEPT ![d] =
                [kind |-> "pilot", funding |-> i, key |-> k, amount |-> a, at |-> now,
                 blockers |-> {b \in PilotConditions :
                    PilotBlockedBy(b, funding[i], a, cap, budgetMode, env)}]]
    /\ UNCHANGED <<env, now, paper, rows, budgetMode>>

PilotSave(d) ==
    /\ open[d].kind = "pilot"
    /\ LET o == open[d]
           pilot == [funding |-> o.funding, key |-> o.key, amount |-> o.amount, at |-> o.at,
                     blockers |-> o.blockers]
       IN  IF KeyFree(o.key, pilots)
           THEN Len(pilots) < MaxPilots /\ pilots' = Append(pilots, pilot)
           ELSE UNCHANGED pilots
    /\ open' = [open EXCEPT ![d] = Closed]
    /\ UNCHANGED <<env, now, paper, snapshots, funding, budgetMode>>

FundingNext ==
    \/ Tick \/ PaperMoves \/ CreateBudget \/ ImportSnapshot
    \/ \E d \in FundingDesks :
          \/ ReconcileRead(d) \/ ReconcileSave(d)
          \/ FundingRead(d) \/ FundingSave(d)
          \/ PilotRead(d) \/ PilotSave(d)

FundingSpec == FundingInit /\ [][FundingNext]_fundingVars

-----------------------------------------------------------------------------
(* Properties. *)

\* An amount the paper account had, and what both tolerances add to it: the one of the
\* reconciliation and the one of the funding check.
Allowing(held, f) == held + f.basis.terms.tolerance + f.terms.tolerance

\* A ready funding record rests on a match of its snapshot with a paper account, made
\* within the age that the check's own request allows, and what the account held covers
\* the deposit up to the tolerances of the two requests.  Handlers overwrite each
\* other's snapshot rows, hand on their terms, and the account moves on meanwhile.
ReadyRestsOnRecentMatch ==
    \A i \in DOMAIN funding :
        LET f == funding[i]
        IN  f.ready => /\ f.basis.status = "matched"
                       /\ f.basis.at \in (f.at - f.terms.maxAge)..f.at
                       /\ Allowing(f.basis.against.cash, f) >= f.amount
                       /\ Allowing(f.basis.against.equity, f) >= f.amount

\* A pilot whose budget passed the funding checks is covered, up to those tolerances, by
\* cash that a broker snapshot showed and a paper account agreed with: budget to deposit
\* to snapshot to account, four rows saved at different times.
PilotBudgetCovered ==
    \A i \in DOMAIN pilots :
        LET f == funding[pilots[i].funding]
        IN  pilots[i].blockers \cap {"not funded", "over deposit"} = {} =>
                /\ f.basis.status = "matched"
                /\ Allowing(f.basis.against.cash, f) >= pilots[i].amount

\* What may carry a deposit: the funding record and the pilot readiness built on it.
FundingCovered == ReadyRestsOnRecentMatch /\ PilotBudgetCovered

=============================================================================
