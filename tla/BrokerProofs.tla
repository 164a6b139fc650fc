----------------------------- MODULE BrokerProofs -----------------------------
(***************************************************************************)
(* What TLAPS proves of the broker's evidence: the funding records         *)
(* (BrokerFunding), the imported fills (BrokerFills), the dry-run commands *)
(* beside the imported order statuses (BrokerOrders), and of the page that *)
(* shows them (Dashboard).                                                 *)
(***************************************************************************)
EXTENDS BrokerFunding, BrokerFills, BrokerOrders, Dashboard, Induction, SequenceTheorems

-----------------------------------------------------------------------------
(***************************************************************************)
(* FundingCovered for any number of handlers, snapshots, amounts and any   *)
(* length of time.                                                         *)
(*                                                                         *)
(* The argument: a verdict travels with the row it is about.  A handler    *)
(* that saves an old row takes the old verdict back with it, but never     *)
(* puts a verdict beside a book it was not reached for, and the time of a  *)
(* verdict is never before that of its snapshot.  So a match found on a    *)
(* snapshot that is recent is itself recent, and the cash of the snapshot  *)
(* is the cash the paper account had, up to the tolerance of the verdict.  *)
(***************************************************************************)

PilotRecord == [funding: Nat \ {0}, key: FundingKeys, amount: Nat, at: Nat,
                blockers: SUBSET PilotConditions]
ReconcileDesk == [kind: {"reconcile"}, snapshot: Nat \ {0}, row: Snapshot]
FundingDesk ==
    [kind: {"funding"}, snapshot: Nat \ {0}, key: FundingKeys, amount: Nat, at: Nat,
     terms: Terms, basis: Reconciliation,
     blockers: SUBSET {"account", "reconciliation", "cash", "equity", "stale"}]
PilotDesk == [kind: {"pilot"}, funding: Nat \ {0}, key: FundingKeys, amount: Nat, at: Nat,
              blockers: SUBSET PilotConditions]

DeskTyped(o) ==
    /\ o.kind = "reconcile" => o \in ReconcileDesk
    /\ o.kind = "funding" => o \in FundingDesk
    /\ o.kind = "pilot" => o \in PilotDesk

FundingTypes ==
    /\ now \in Nat
    /\ paper \in Books
    /\ snapshots \in Seq(Snapshot)
    /\ funding \in Seq(Funding)
    /\ pilots \in Seq(PilotRecord)
    /\ DOMAIN open = FundingDesks
    /\ \A d \in FundingDesks : DeskTyped(open[d])

\* A match is of the row's own book, up to its tolerance, and not before its snapshot.
RowSound(s, t) ==
    /\ s.asOf <= t
    /\ s.reconciliation.status = "matched" =>
          /\ s.book.cash <= s.reconciliation.against.cash + s.reconciliation.terms.tolerance
          /\ s.book.equity <= s.reconciliation.against.equity + s.reconciliation.terms.tolerance
          /\ s.asOf <= s.reconciliation.at
          /\ s.reconciliation.at <= t

\* A verdict that carries the amount at a time, on the terms of the check.
Carries(f) ==
    /\ f.basis.status = "matched"
    /\ f.basis.at \in (f.at - f.terms.maxAge)..f.at
    /\ Allowing(f.basis.against.cash, f) >= f.amount
    /\ Allowing(f.basis.against.equity, f) >= f.amount

\* A pilot that passed the funding checks asks for no more than its record, which is ready.
PilotSound(p, records) ==
    /\ p.funding \in DOMAIN records
    /\ p.blockers \cap {"not funded", "over deposit"} = {} =>
          records[p.funding].ready /\ p.amount <= records[p.funding].amount

DeskSound(o, records, t) ==
    /\ o.kind = "reconcile" => RowSound(o.row, t)
    /\ o.kind = "funding" /\ o.blockers = {} => Carries(o)
    /\ o.kind = "pilot" => PilotSound(o, records)

RowsSound == \A i \in DOMAIN snapshots : RowSound(snapshots[i], now)
RecordsSound ==
    \A i \in DOMAIN funding :
        funding[i].ready => Carries(funding[i])
PilotsSound == \A i \in DOMAIN pilots : PilotSound(pilots[i], funding)
DesksSound == \A d \in FundingDesks : DeskSound(open[d], funding, now)

CoverInv == FundingTypes /\ RowsSound /\ RecordsSound /\ PilotsSound /\ DesksSound

-----------------------------------------------------------------------------
(* Helpers. *)

LEMMA NotAbove == \A x, y \in Nat : ~ (x > y) => x <= y
OBVIOUS

LEMMA ReconciliationFacts ==
    ASSUME NEW r \in Reconciliation
    PROVE  /\ r.terms.tolerance \in Nat /\ r.terms.maxAge \in Nat
           /\ r.status = "matched" =>
                  r.at \in Nat /\ r.against.cash \in Nat /\ r.against.equity \in Nat
<1>1. r.terms \in Terms
  BY DEF Reconciliation
<1>2. ASSUME r.status = "matched" PROVE r.at \in Nat /\ r.against \in Books
  BY <1>2 DEF Reconciliation
<1> QED BY <1>1, <1>2, FundingAssumption DEF Terms

\* What a blocker-free check of a sound row says of its verdict.
LEMMA FreeOfBlockers ==
    ASSUME NEW s \in Snapshot, NEW amount \in Nat, NEW t \in Nat, NEW terms \in Terms,
           RowSound(s, t), FundingBlockers(s, amount, t - s.asOf, terms) = {},
           NEW f, f.basis = s.reconciliation, f.amount = amount, f.at = t, f.terms = terms
    PROVE  Carries(f)
<1> DEFINE r == s.reconciliation
<1>1. s.asOf \in Nat /\ r \in Reconciliation /\ s.book \in Books
      /\ terms.tolerance \in Nat /\ terms.maxAge \in Nat
  BY DEF Snapshot, Terms
<1>2. r.status = "matched" /\ ~ (s.book.cash + terms.tolerance < amount)
      /\ ~ (s.book.equity + terms.tolerance < amount) /\ ~ (t - s.asOf > terms.maxAge)
  BY DEF FundingBlockers
<1>3. s.book.cash <= r.against.cash + r.terms.tolerance
      /\ s.book.equity <= r.against.equity + r.terms.tolerance
      /\ s.asOf <= r.at /\ r.at <= t
  BY <1>2 DEF RowSound
<1>4. r.at \in Nat /\ r.against.cash \in Nat /\ r.against.equity \in Nat
      /\ r.terms.tolerance \in Nat
  BY <1>1, <1>2, ReconciliationFacts
<1>5. s.book.cash \in Nat /\ s.book.equity \in Nat
  BY <1>1, FundingAssumption
<1> HIDE DEF r
<1>6. r.at \in (t - terms.maxAge)..t
  BY <1>1, <1>2, <1>3, <1>4
<1>7. r.against.cash + r.terms.tolerance + terms.tolerance >= amount
  BY <1>1, <1>2, <1>3, <1>4, <1>5
<1>8. r.against.equity + r.terms.tolerance + terms.tolerance >= amount
  BY <1>1, <1>2, <1>3, <1>4, <1>5
<1> QED BY <1>2, <1>6, <1>7, <1>8 DEF Carries, Allowing, r

\* The terms of a request are terms when those it falls back on are.
LEMMA TermsTyped ==
    ASSUME NEW r \in Requests, NEW given \in Terms PROVE TermsOf(r, given) \in Terms
<1> DEFINE tolerance == IF "tolerance" \in DOMAIN r THEN r.tolerance ELSE given.tolerance
           maxAge == IF "maxAge" \in DOMAIN r THEN r.maxAge ELSE given.maxAge
<1>1. given.tolerance \in Nat /\ given.maxAge \in Nat \ {0}
  BY DEF Terms
<1>2. tolerance \in Nat
  <2>1. "tolerance" \in DOMAIN r => r.tolerance \in Nat
    BY RequestsAssumption
  <2> QED BY <1>1, <2>1
<1>3. maxAge \in Nat \ {0}
  <2>1. "maxAge" \in DOMAIN r => r.maxAge \in Nat \ {0}
    BY RequestsAssumption
  <2> QED BY <1>1, <2>1
<1>4. TermsOf(r, given) = [tolerance |-> tolerance, maxAge |-> maxAge]
  BY DEF TermsOf
<1> HIDE DEF tolerance, maxAge
<1> QED BY <1>2, <1>3, <1>4 DEF Terms

\* Rows and desks stay sound as the clock goes on.
LEMMA Later ==
    ASSUME CoverInv, NEW t \in Nat, now <= t
    PROVE  /\ \A i \in DOMAIN snapshots : RowSound(snapshots[i], t)
           /\ \A d \in FundingDesks : DeskSound(open[d], funding, t)
<1>1. now \in Nat BY DEF CoverInv, FundingTypes
<1>2. ASSUME NEW s \in Snapshot, RowSound(s, now) PROVE RowSound(s, t)
  <2>1. s.asOf \in Nat /\ s.reconciliation \in Reconciliation
    BY DEF Snapshot
  <2>2. s.asOf <= t
    BY <1>1, <1>2, <2>1 DEF RowSound
  <2>3. s.reconciliation.status = "matched" => s.reconciliation.at <= t
    BY <1>1, <1>2, <2>1, ReconciliationFacts DEF RowSound
  <2> QED BY <1>2, <2>2, <2>3 DEF RowSound
<1>3. \A i \in DOMAIN snapshots : RowSound(snapshots[i], t)
  BY <1>2 DEF CoverInv, FundingTypes, RowsSound
<1>4. ASSUME NEW d \in FundingDesks, open[d].kind = "reconcile" PROVE RowSound(open[d].row, t)
  <2>1. open[d].row \in Snapshot
    BY <1>4 DEF CoverInv, FundingTypes, DeskTyped, ReconcileDesk
  <2> QED BY <1>2, <1>4, <2>1 DEF CoverInv, DesksSound, DeskSound
<1> QED BY <1>3, <1>4 DEF CoverInv, DesksSound, DeskSound

\* A record more changes nothing for the pilots, saved or in progress.
LEMMA RecordAdded ==
    ASSUME CoverInv, NEW f \in Funding, f.ready => Carries(f),
           funding' = Append(funding, f)
    PROVE  /\ funding' \in Seq(Funding) /\ RecordsSound'
           /\ \A i \in DOMAIN pilots : PilotSound(pilots[i], funding')
           /\ \A d \in FundingDesks : DeskSound(open[d], funding', now)
<1>1. funding \in Seq(Funding) BY DEF CoverInv, FundingTypes
<1>2. /\ funding' \in Seq(Funding)
      /\ \A i \in DOMAIN funding : i \in DOMAIN funding' /\ funding'[i] = funding[i]
      /\ \A i \in DOMAIN funding' : i \in DOMAIN funding \/ funding'[i] = f
  BY <1>1, AppendFacts
<1>3. RecordsSound'
  BY <1>2 DEF CoverInv, RecordsSound
<1>4. \A p : PilotSound(p, funding) => PilotSound(p, funding')
  BY <1>2 DEF PilotSound
<1>5. \A i \in DOMAIN pilots : PilotSound(pilots[i], funding')
  BY <1>4 DEF CoverInv, PilotsSound
<1>6. \A d \in FundingDesks : DeskSound(open[d], funding', now)
  BY <1>4 DEF CoverInv, DesksSound, DeskSound
<1> QED BY <1>2, <1>3, <1>5, <1>6

\* A handler that takes up something sound leaves the others as they were.
LEMMA DeskTaken ==
    ASSUME CoverInv, NEW d \in FundingDesks, NEW o, DeskTyped(o), DeskSound(o, funding, now),
           open' = [open EXCEPT ![d] = o],
           UNCHANGED <<now, paper, snapshots, funding, pilots>>
    PROVE  CoverInv'
<1>1. DOMAIN open' = FundingDesks
  BY DEF CoverInv, FundingTypes
<1>2. ASSUME NEW e \in FundingDesks PROVE DeskTyped(open'[e]) /\ DeskSound(open'[e], funding, now)
  <2>1. CASE e = d
    BY <2>1 DEF CoverInv, FundingTypes
  <2>2. CASE e # d
    BY <2>2 DEF CoverInv, FundingTypes, DesksSound
  <2> QED BY <2>1, <2>2
<1>3. FundingTypes'
  BY <1>1, <1>2 DEF CoverInv, FundingTypes
<1>4. RowsSound' /\ RecordsSound' /\ PilotsSound' /\ DesksSound'
  BY <1>2 DEF CoverInv, RowsSound, RecordsSound, PilotsSound, DesksSound
<1> QED BY <1>3, <1>4 DEF CoverInv

LEMMA ClosedSound ==
    DeskTyped(Closed) /\ DeskSound(Closed, funding, now)
BY DEF Closed, DeskTyped, DeskSound

-----------------------------------------------------------------------------
(* The steps. *)

LEMMA CoverStarts == FundingInit => CoverInv
<1> SUFFICES ASSUME FundingInit PROVE CoverInv
  OBVIOUS
<1>1. snapshots = <<>> /\ funding = <<>> /\ pilots = <<>> /\ now = 0
  BY DEF FundingInit
<1>2. paper \in Books
  BY DEF FundingInit
<1>3. DOMAIN open = FundingDesks /\ \A d \in FundingDesks : open[d] = Closed
  BY DEF FundingInit
<1>4. FundingTypes
  BY <1>1, <1>2, <1>3, ClosedSound DEF FundingTypes
<1>5. RowsSound /\ RecordsSound /\ PilotsSound
  BY <1>1 DEF RowsSound, RecordsSound, PilotsSound
<1>6. DesksSound
  BY <1>3, ClosedSound DEF DesksSound
<1> QED BY <1>4, <1>5, <1>6 DEF CoverInv

LEMMA TickSound == CoverInv /\ Tick => CoverInv'
<1> SUFFICES ASSUME CoverInv, Tick PROVE CoverInv'
  OBVIOUS
<1>1. now \in Nat /\ now' \in Nat /\ now <= now'
  BY DEF CoverInv, FundingTypes, Tick
<1>2. UNCHANGED <<paper, snapshots, funding, pilots, open>>
  BY DEF Tick, rows
<1>3. FundingTypes'
  BY <1>1, <1>2 DEF CoverInv, FundingTypes
<1>4. RowsSound' /\ DesksSound'
  BY <1>1, <1>2, Later DEF RowsSound, DesksSound
<1>5. RecordsSound' /\ PilotsSound'
  BY <1>2 DEF CoverInv, RecordsSound, PilotsSound
<1> QED BY <1>3, <1>4, <1>5 DEF CoverInv

LEMMA AroundSound == CoverInv /\ (PaperMoves \/ CreateBudget) => CoverInv'
<1> SUFFICES ASSUME CoverInv, PaperMoves \/ CreateBudget PROVE CoverInv'
  OBVIOUS
<1>1. UNCHANGED <<now, snapshots, funding, pilots, open>>
  BY DEF PaperMoves, CreateBudget, rows
<1>2. paper' \in Books
  BY DEF PaperMoves, CreateBudget, CoverInv, FundingTypes
<1> QED BY <1>1, <1>2 DEF CoverInv, FundingTypes, RowsSound, RecordsSound, PilotsSound, DesksSound

LEMMA ImportSound == CoverInv /\ ImportSnapshot => CoverInv'
<1> SUFFICES ASSUME CoverInv, ImportSnapshot PROVE CoverInv'
  OBVIOUS
<1>1. UNCHANGED <<now, paper, funding, pilots, open>>
  BY DEF ImportSnapshot
<1>2. PICK s \in Sources, b \in Books, t \in 0..now :
        snapshots' = Append(snapshots,
            [provider |-> s[1], hashed |-> s[2], book |-> b, asOf |-> t,
             reconciliation |-> [status |-> "not_checked", terms |-> DefaultTerms]])
  BY DEF ImportSnapshot
<1> DEFINE row == [provider |-> s[1], hashed |-> s[2], book |-> b, asOf |-> t,
                   reconciliation |-> [status |-> "not_checked", terms |-> DefaultTerms]]
<1>3. s[1] \in Providers /\ s[2] \in BOOLEAN
  BY FundingAssumption DEF Providers
<1>4. [status |-> "not_checked", terms |-> DefaultTerms] \in Reconciliation
  BY DEF Reconciliation, DefaultTerms, Terms
<1>5. now \in Nat /\ t \in Nat /\ t <= now /\ snapshots \in Seq(Snapshot)
  BY DEF CoverInv, FundingTypes
<1>6. row \in Snapshot
  BY <1>3, <1>4, <1>5 DEF Snapshot
<1>7. RowSound(row, now)
  BY <1>5 DEF RowSound
<1> HIDE DEF row
<1>8. /\ snapshots' \in Seq(Snapshot)
      /\ \A i \in DOMAIN snapshots : snapshots'[i] = snapshots[i]
      /\ \A i \in DOMAIN snapshots' : i \in DOMAIN snapshots \/ snapshots'[i] = row
  BY <1>2, <1>5, <1>6, AppendFacts DEF row
<1>9. FundingTypes'
  BY <1>1, <1>8 DEF CoverInv, FundingTypes
<1>10. RowsSound'
  BY <1>1, <1>7, <1>8 DEF CoverInv, RowsSound
<1> QED BY <1>1, <1>9, <1>10 DEF CoverInv, RecordsSound, PilotsSound, DesksSound

LEMMA ReconcileReadSound ==
    ASSUME CoverInv, NEW d \in FundingDesks, ReconcileRead(d)
    PROVE  CoverInv'
<1>1. UNCHANGED <<now, paper, snapshots, funding, pilots>>
  BY DEF ReconcileRead, rows
<1>2. PICK i \in DOMAIN snapshots, q \in Requests :
        open' = [open EXCEPT ![d] =
            [kind |-> "reconcile", snapshot |-> i, row |-> Reconciled(snapshots[i], q)]]
  BY DEF ReconcileRead
<1> DEFINE s == snapshots[i]
           terms == TermsOf(q, s.reconciliation.terms)
           v == Verdict(s, paper, now - s.asOf, terms)
           r == [status |-> v, terms |-> terms, at |-> now, against |-> paper]
           o == [kind |-> "reconcile", snapshot |-> i, row |-> [s EXCEPT !.reconciliation = r]]
<1>3. s \in Snapshot /\ i \in Nat \ {0} /\ now \in Nat /\ paper \in Books
  BY DEF CoverInv, FundingTypes
<1>4. s.asOf \in Nat /\ s.asOf <= now /\ s.reconciliation \in Reconciliation
  BY <1>3 DEF CoverInv, RowsSound, RowSound, Snapshot
<1>T. terms \in Terms
  <2>1. s.reconciliation.terms \in Terms
    BY <1>4 DEF Reconciliation
  <2> QED BY <2>1, TermsTyped
<1> HIDE DEF terms
<1>5. v \in {"matched", "mismatch", "stale"}
  BY DEF Verdict
<1>M. ASSUME v = "matched"
      PROVE  /\ s.book.cash <= paper.cash + terms.tolerance
             /\ s.book.equity <= paper.equity + terms.tolerance
  <2>1. Agree(s.book, paper, terms.tolerance)
    BY <1>M DEF Verdict
  <2> QED BY <2>1 DEF Agree, Within
<1> HIDE DEF v
<1>6. r \in Reconciliation
  BY <1>3, <1>5, <1>T DEF Reconciliation
<1>7. o.row \in Snapshot /\ o.row.reconciliation = r /\ o.row.book = s.book /\ o.row.asOf = s.asOf
  BY <1>3, <1>6 DEF Snapshot
<1>8. RowSound(o.row, now)
  BY <1>3, <1>4, <1>M, <1>7 DEF RowSound
<1>9. DeskTyped(o)
  BY <1>3, <1>7 DEF DeskTyped, ReconcileDesk
<1>10. DeskSound(o, funding, now)
  BY <1>8 DEF DeskSound
<1>11. open' = [open EXCEPT ![d] = o]
  BY <1>2 DEF v, terms, Reconciled
<1> QED BY <1>1, <1>9, <1>10, <1>11, DeskTaken

LEMMA ReconcileSaveSound ==
    ASSUME CoverInv, NEW d \in FundingDesks, ReconcileSave(d)
    PROVE  CoverInv'
<1>1. UNCHANGED <<now, paper, funding, pilots>> /\ open[d].kind = "reconcile"
  BY DEF ReconcileSave
<1>2. snapshots' = [snapshots EXCEPT ![open[d].snapshot] = open[d].row]
  BY DEF ReconcileSave
<1>3. open[d].row \in Snapshot /\ RowSound(open[d].row, now) /\ snapshots \in Seq(Snapshot)
  BY <1>1 DEF CoverInv, FundingTypes, DeskTyped, ReconcileDesk, DesksSound, DeskSound
<1>4. snapshots' \in Seq(Snapshot) /\ DOMAIN snapshots' = DOMAIN snapshots
      /\ \A i \in DOMAIN snapshots' : snapshots'[i] = snapshots[i] \/ snapshots'[i] = open[d].row
  <2>1. Len(snapshots) \in Nat /\ DOMAIN snapshots = 1..Len(snapshots)
        /\ \A i \in 1..Len(snapshots) : snapshots[i] \in Snapshot
    BY <1>3
  <2>2. snapshots' = [i \in 1..Len(snapshots) |->
                        IF i = open[d].snapshot THEN open[d].row ELSE snapshots[i]]
    BY <1>2, <2>1
  <2>3. snapshots' \in [1..Len(snapshots) -> Snapshot]
    BY <1>3, <2>1, <2>2
  <2>4. snapshots' \in Seq(Snapshot)
    BY <2>1, <2>3
  <2> QED BY <2>1, <2>2, <2>4
<1>5. DOMAIN open' = FundingDesks
      /\ \A e \in FundingDesks : open'[e] = open[e] \/ open'[e] = Closed
  BY DEF ReconcileSave, CoverInv, FundingTypes
<1>6. FundingTypes'
  BY <1>1, <1>4, <1>5, ClosedSound DEF CoverInv, FundingTypes
<1>7. RowsSound'
  BY <1>1, <1>3, <1>4 DEF CoverInv, RowsSound
<1>8. DesksSound'
  BY <1>1, <1>5, ClosedSound DEF CoverInv, DesksSound
<1> QED BY <1>1, <1>6, <1>7, <1>8 DEF CoverInv, RecordsSound, PilotsSound

LEMMA FundingReadSound ==
    ASSUME CoverInv, NEW d \in FundingDesks, FundingRead(d)
    PROVE  CoverInv'
<1>1. UNCHANGED <<now, paper, snapshots, funding, pilots>>
  BY DEF FundingRead, rows
<1>2. PICK i \in DOMAIN snapshots, k \in FundingKeys, a \in Deposits, q \in Requests :
        open' = [open EXCEPT ![d] = FundingCheck(i, k, a, TermsOf(q, DefaultTerms))]
  BY DEF FundingRead
<1> DEFINE s == snapshots[i]
           terms == TermsOf(q, DefaultTerms)
           bs == FundingBlockers(s, a, now - s.asOf, terms)
           o == [kind |-> "funding", snapshot |-> i, key |-> k, amount |-> a, at |-> now,
                 terms |-> terms, basis |-> s.reconciliation, blockers |-> bs]
<1>3. s \in Snapshot /\ i \in Nat \ {0} /\ now \in Nat /\ a \in Nat /\ RowSound(s, now)
  BY FundingAssumption DEF CoverInv, FundingTypes, RowsSound
<1>T. terms \in Terms
  <2>1. DefaultTerms \in Terms
    BY DEF DefaultTerms, Terms
  <2> QED BY <2>1, TermsTyped
<1> HIDE DEF terms
<1>4. bs \subseteq {"account", "reconciliation", "cash", "equity", "stale"}
  BY DEF FundingBlockers
<1>5. bs = {} => Carries(o)
  BY <1>3, <1>T, FreeOfBlockers
<1>6. s.reconciliation \in Reconciliation
  BY <1>3 DEF Snapshot
<1> HIDE DEF bs, s
<1>7. DeskTyped(o)
  BY <1>3, <1>4, <1>6, <1>T DEF DeskTyped, FundingDesk
<1>8. DeskSound(o, funding, now)
  BY <1>5 DEF DeskSound
<1>9. open' = [open EXCEPT ![d] = o]
  BY <1>2 DEF s, bs, terms, FundingCheck
<1> QED BY <1>1, <1>7, <1>8, <1>9, DeskTaken

LEMMA FundingSaveSound ==
    ASSUME CoverInv, NEW d \in FundingDesks, FundingSave(d)
    PROVE  CoverInv'
<1> DEFINE o == open[d]
           record == [snapshot |-> o.snapshot, key |-> o.key, amount |-> o.amount,
                      at |-> o.at, terms |-> o.terms, ready |-> o.blockers = {},
                      basis |-> o.basis]
<1>1. UNCHANGED <<now, paper, snapshots, pilots>> /\ o.kind = "funding"
  BY DEF FundingSave
<1>2. o \in FundingDesk /\ (o.blockers = {} => Carries(o))
  BY <1>1 DEF CoverInv, FundingTypes, DeskTyped, DesksSound, DeskSound
<1>3. record \in Funding /\ (record.ready => Carries(record))
  BY <1>2 DEF FundingDesk, Funding, Carries, Allowing
<1>4. funding' = Append(funding, record) \/ UNCHANGED funding
  BY DEF FundingSave
<1>5. /\ funding' \in Seq(Funding) /\ RecordsSound'
      /\ \A i \in DOMAIN pilots : PilotSound(pilots[i], funding')
      /\ \A e \in FundingDesks : DeskSound(open[e], funding', now)
  <2>1. CASE funding' = Append(funding, record)
    <3> HIDE DEF record
    <3> QED BY <1>3, <2>1, RecordAdded
  <2>2. CASE UNCHANGED funding
    BY <2>2 DEF CoverInv, FundingTypes, RecordsSound, PilotsSound, DesksSound
  <2> QED BY <1>4, <2>1, <2>2
<1>6. DOMAIN open' = FundingDesks
      /\ \A e \in FundingDesks : open'[e] = open[e] \/ open'[e] = Closed
  BY DEF FundingSave, CoverInv, FundingTypes
<1>7. FundingTypes'
  BY <1>1, <1>5, <1>6, ClosedSound DEF CoverInv, FundingTypes
<1>8. DeskSound(Closed, funding', now)
  BY DEF Closed, DeskSound
<1>9. DesksSound'
  BY <1>1, <1>5, <1>6, <1>8 DEF DesksSound
<1>10. RowsSound' /\ PilotsSound'
  BY <1>1, <1>5 DEF CoverInv, RowsSound, PilotsSound
<1> QED BY <1>5, <1>7, <1>9, <1>10 DEF CoverInv

LEMMA PilotReadSound ==
    ASSUME CoverInv, NEW d \in FundingDesks, PilotRead(d)
    PROVE  CoverInv'
<1>1. UNCHANGED <<now, paper, snapshots, funding, pilots>>
  BY DEF PilotRead, rows
<1>2. PICK i \in DOMAIN funding, k \in FundingKeys, a \in Deposits, cap \in PilotCaps :
        open' = [open EXCEPT ![d] =
            [kind |-> "pilot", funding |-> i, key |-> k, amount |-> a, at |-> now,
             blockers |-> {b \in PilotConditions :
                PilotBlockedBy(b, funding[i], a, cap, budgetMode, env)}]]
  BY DEF PilotRead
<1> DEFINE bs == {b \in PilotConditions : PilotBlockedBy(b, funding[i], a, cap, budgetMode, env)}
           o == [kind |-> "pilot", funding |-> i, key |-> k, amount |-> a, at |-> now,
                 blockers |-> bs]
<1>3. funding[i] \in Funding /\ i \in Nat \ {0} /\ now \in Nat /\ a \in Nat
  BY FundingAssumption DEF CoverInv, FundingTypes
<1>4. funding[i].amount \in Nat
  BY <1>3 DEF Funding
<1>5. bs \cap {"not funded", "over deposit"} = {} => funding[i].ready /\ a <= funding[i].amount
  <2> SUFFICES ASSUME bs \cap {"not funded", "over deposit"} = {}
               PROVE  funding[i].ready /\ a <= funding[i].amount
    OBVIOUS
  <2>1. "not funded" \in PilotConditions /\ "over deposit" \in PilotConditions
    BY DEF PilotConditions
  <2>2. ~ PilotBlockedBy("not funded", funding[i], a, cap, budgetMode, env)
        /\ ~ PilotBlockedBy("over deposit", funding[i], a, cap, budgetMode, env)
    BY <2>1
  <2>3. funding[i].ready
    <3>1. PilotBlockedBy("not funded", funding[i], a, cap, budgetMode, env) = ~ funding[i].ready
      BY DEF PilotBlockedBy
    <3> QED BY <2>2, <3>1
  <2>4. ~ (a > funding[i].amount)
    <3>1. PilotBlockedBy("over deposit", funding[i], a, cap, budgetMode, env)
            = (a > funding[i].amount)
      BY DEF PilotBlockedBy
    <3> QED BY <2>2, <3>1
  <2>5. a <= funding[i].amount
    BY <1>3, <1>4, <2>4, NotAbove
  <2> QED BY <2>3, <2>5
<1>6. bs \subseteq PilotConditions
  OBVIOUS
<1> HIDE DEF bs
<1>7. DeskTyped(o)
  BY <1>3, <1>6 DEF DeskTyped, PilotDesk
<1>8. DeskSound(o, funding, now)
  BY <1>5 DEF DeskSound, PilotSound
<1>9. open' = [open EXCEPT ![d] = o]
  BY <1>2 DEF bs
<1> QED BY <1>1, <1>7, <1>8, <1>9, DeskTaken

LEMMA PilotSaveSound ==
    ASSUME CoverInv, NEW d \in FundingDesks, PilotSave(d)
    PROVE  CoverInv'
<1> DEFINE o == open[d]
           pilot == [funding |-> o.funding, key |-> o.key, amount |-> o.amount, at |-> o.at,
                     blockers |-> o.blockers]
<1>1. UNCHANGED <<now, paper, snapshots, funding>> /\ o.kind = "pilot"
  BY DEF PilotSave
<1>2. o \in PilotDesk /\ PilotSound(o, funding)
  BY <1>1 DEF CoverInv, FundingTypes, DeskTyped, DesksSound, DeskSound
<1>3. pilot \in PilotRecord /\ PilotSound(pilot, funding)
  BY <1>2 DEF PilotDesk, PilotRecord, PilotSound
<1>4. pilots' = Append(pilots, pilot) \/ UNCHANGED pilots
  BY DEF PilotSave
<1>5. pilots' \in Seq(PilotRecord) /\ \A i \in DOMAIN pilots' : PilotSound(pilots'[i], funding)
  <2>1. pilots \in Seq(PilotRecord) /\ \A i \in DOMAIN pilots : PilotSound(pilots[i], funding)
    BY DEF CoverInv, FundingTypes, PilotsSound
  <2>2. CASE pilots' = Append(pilots, pilot)
    <3> HIDE DEF pilot
    <3>1. /\ pilots' \in Seq(PilotRecord)
          /\ \A i \in DOMAIN pilots : pilots'[i] = pilots[i]
          /\ \A i \in DOMAIN pilots' : i \in DOMAIN pilots \/ pilots'[i] = pilot
      BY <1>3, <2>1, <2>2, AppendFacts
    <3> QED BY <1>3, <2>1, <3>1
  <2> QED BY <1>4, <2>1, <2>2
<1>6. DOMAIN open' = FundingDesks
      /\ \A e \in FundingDesks : open'[e] = open[e] \/ open'[e] = Closed
  BY DEF PilotSave, CoverInv, FundingTypes
<1>7. FundingTypes'
  BY <1>1, <1>5, <1>6, ClosedSound DEF CoverInv, FundingTypes
<1>8. DesksSound'
  BY <1>1, <1>6, ClosedSound DEF CoverInv, DesksSound
<1>9. RowsSound' /\ RecordsSound' /\ PilotsSound'
  BY <1>1, <1>5 DEF CoverInv, RowsSound, RecordsSound, PilotsSound
<1> QED BY <1>7, <1>8, <1>9 DEF CoverInv

LEMMA CoverStep == CoverInv /\ [FundingNext]_fundingVars => CoverInv'
<1> SUFFICES ASSUME CoverInv, [FundingNext]_fundingVars PROVE CoverInv'
  OBVIOUS
<1>1. CASE Tick BY <1>1, TickSound
<1>2. CASE PaperMoves \/ CreateBudget BY <1>2, AroundSound
<1>3. CASE ImportSnapshot BY <1>3, ImportSound
<1>4. ASSUME NEW d \in FundingDesks,
             \/ ReconcileRead(d) \/ ReconcileSave(d)
             \/ FundingRead(d) \/ FundingSave(d)
             \/ PilotRead(d) \/ PilotSave(d)
      PROVE  CoverInv'
  BY <1>4, ReconcileReadSound, ReconcileSaveSound, FundingReadSound, FundingSaveSound,
     PilotReadSound, PilotSaveSound
<1>5. CASE UNCHANGED fundingVars
  BY <1>5 DEF fundingVars, CoverInv, FundingTypes, RowsSound, RecordsSound, PilotsSound,
              DesksSound
<1> QED BY <1>1, <1>2, <1>3, <1>4, <1>5 DEF FundingNext

-----------------------------------------------------------------------------
(* The theorem. *)

LEMMA Covered == CoverInv => FundingCovered
<1> SUFFICES ASSUME CoverInv PROVE FundingCovered
  OBVIOUS
<1>1. ReadyRestsOnRecentMatch
  BY DEF CoverInv, RecordsSound, Carries, Allowing, ReadyRestsOnRecentMatch
<1>2. ASSUME NEW i \in DOMAIN pilots,
             pilots[i].blockers \cap {"not funded", "over deposit"} = {}
      PROVE  LET f == funding[pilots[i].funding]
             IN  /\ f.basis.status = "matched"
                 /\ Allowing(f.basis.against.cash, f) >= pilots[i].amount
  <2> DEFINE p == pilots[i]
             f == funding[p.funding]
             sum == Allowing(f.basis.against.cash, f)
  <2>1. p.funding \in DOMAIN funding /\ f.ready /\ p.amount <= f.amount
    BY <1>2 DEF CoverInv, PilotsSound, PilotSound
  <2>2. p \in PilotRecord /\ f \in Funding
    BY <2>1 DEF CoverInv, FundingTypes
  <2>3. p.amount \in Nat /\ f.amount \in Nat /\ f.basis \in Reconciliation
        /\ f.terms.tolerance \in Nat
    BY <2>2 DEF PilotRecord, Funding, Terms
  <2>4. f.basis.status = "matched" /\ sum >= f.amount
    BY <2>1 DEF CoverInv, RecordsSound, Carries
  <2>5. sum \in Nat
    BY <2>3, <2>4, ReconciliationFacts DEF Allowing
  <2> HIDE DEF f, p, sum
  <2>6. sum >= p.amount
    BY <2>1, <2>3, <2>4, <2>5
  <2> QED BY <2>4, <2>6 DEF f, p, sum
<1>3. PilotBudgetCovered
  BY <1>2 DEF PilotBudgetCovered
<1> QED BY <1>1, <1>3 DEF FundingCovered

\* A ready funding record, and the pilot readiness built on it, rest on cash a broker
\* snapshot showed and a paper account agreed with, up to the tolerances and within the
\* age that the requests brought, however many readiness handlers overlap and overwrite
\* each other's snapshot rows.
THEOREM DepositsCovered == FundingSpec => []FundingCovered
<1>1. FundingSpec => []CoverInv
  BY CoverStarts, CoverStep, PTL DEF FundingSpec
<1> QED BY <1>1, Covered, PTL

-----------------------------------------------------------------------------
(***************************************************************************)
(* Theorems of BrokerFills for any list of broker fills and paper fills.   *)
(*                                                                         *)
(* The argument: an import keeps hold of a row by its id, rows are never   *)
(* removed and keep their reference, and a verdict was true of the paper   *)
(* fills that existed when it was reached; paper fills only come about.    *)
(* So a verdict stays true however late it is saved, and whichever of two  *)
(* saves it last.  The poller drops a reference from its list only when    *)
(* the row has a verdict.                                                  *)
(***************************************************************************)

Places == {"rest", "lookup", "save", "match", "store"}
ImportRecord ==
    [todo: Seq(Refs), at: Places, id: Nat, status: {"none", "matched", "mismatch"},
     paper: Nat, seen: Nat]

FTypes ==
    /\ executedTo \in 0..Cardinality(Refs) /\ paperTo \in 0..Len(PaperFills)
    /\ fills \in Seq(BrokerFill)
    /\ imports \in [Importers -> ImportRecord]
    /\ running \in BOOLEAN
    /\ lastPoll \in [error: {"never", "open", "none", "failed"}, listed: SUBSET Refs]
    /\ reconciles \in 0..MaxReconciles

\* What a verdict on a broker fill says of the paper fills up to top.
Sound(b, status, paperId, seen, top) ==
    /\ status = "matched" => paperId \in 1..top /\ Agrees(b, PaperFills[paperId])
    /\ status = "mismatch" => \A j \in 1..seen : PaperFills[j] # b

FillsSound ==
    \A i \in DOMAIN fills :
        Sound(Executed[fills[i].ref], fills[i].status, fills[i].paper, fills[i].seen, paperTo)

\* What an actor holds: the row of the first reference of its list, and a true verdict.
Holds(h, f, top) ==
    /\ h.at \in {"save", "match", "store"} => h.todo # <<>>
    /\ h.at \in {"match", "store"} => h.id \in DOMAIN f /\ f[h.id].ref = Head(h.todo)
    /\ h.at = "store" =>
          /\ h.status # "none"
          /\ Sound(Executed[Head(h.todo)], h.status, h.paper, h.seen, top)

ActorsHold == \A a \in Importers : Holds(imports[a], fills, paperTo)

\* The flag and the polls, and the poller's import within a fill poll.
Polls ==
    /\ polling \in {{}, {"snapshot"}, {"fills"}}
    /\ polling # {} => running
    /\ imports["poller"].at # "rest" => "fills" \in polling /\ lastPoll.error = "open"

Done(r, f) == \E i \in DOMAIN f : f[i].ref = r /\ f[i].status # "imported"
Listed(r, todo) == \E k \in 1..Len(todo) : todo[k] = r

\* What the last poll was told of is done, or still on the poller's list.
ListDone ==
    /\ lastPoll.error = "none" => \A r \in lastPoll.listed : Done(r, fills)
    /\ lastPoll.error = "open" =>
          \A r \in lastPoll.listed : Done(r, fills) \/ Listed(r, imports["poller"].todo)

FInv == FTypes /\ FillsSound /\ ActorsHold /\ Polls /\ ListDone

-----------------------------------------------------------------------------
(* The score. *)

LEMMA FillTypes ==
    /\ \A r \in Refs : /\ Executed[r] \in Fill
                       /\ Executed[r].amount \in Nat /\ Executed[r].at \in Nat
    /\ \A j \in 1..Len(PaperFills) : /\ PaperFills[j] \in Fill
                                     /\ PaperFills[j].amount \in Nat
                                     /\ PaperFills[j].at \in Nat
    /\ Len(PaperFills) \in Nat
<1>1. \A f \in Fill : f.amount \in Nat /\ f.at \in Nat
  BY DEF Fill
<1>2. \A r \in Refs : Executed[r] \in Fill
  BY FillsAssumption
<1>3. \A j \in 1..Len(PaperFills) : PaperFills[j] \in Fill
  BY FillsAssumption
<1>4. Len(PaperFills) \in Nat
  BY FillsAssumption
<1> QED BY <1>1, <1>2, <1>3, <1>4

LEMMA AbsFacts ==
    ASSUME NEW m \in Int
    PROVE  Abs(m) \in Nat /\ (Abs(m) = 0 => m = 0)
BY DEF Abs

\* Nothing scores below zero, and only a fill that agrees scores zero.
LEMMA ScoreFacts ==
    ASSUME NEW b \in Fill, NEW p \in Fill
    PROVE  /\ Score(b, p) \in Int /\ Score(b, p) >= 0
           /\ Score(b, p) = 0 => Agrees(b, p)
<1>1. b.amount \in Nat /\ b.at \in Nat /\ p.amount \in Nat /\ p.at \in Nat
  BY DEF Fill
<1>2. /\ b.amount - p.amount \in Int /\ b.at - p.at \in Int
  BY <1>1
<1> DEFINE m == Abs(b.amount - p.amount)
           d == Abs(b.at - p.at)
<1>3. m \in Nat /\ d \in Nat /\ (m = 0 => b.amount = p.amount)
  BY <1>1, <1>2, AbsFacts
<1>4. d * HourScore \in Nat
  BY <1>3 DEF HourScore
<1> HIDE DEF m, d
<1>5. Score(b, p) = (IF b.symbol = p.symbol THEN 0 ELSE 1000000)
                    + (IF b.side = p.side THEN 0 ELSE 1000000) + m + d * HourScore
  BY DEF Score, m, d
<1> QED BY <1>3, <1>4, <1>5 DEF Agrees

LEMMA ScoreOfCopy ==
    ASSUME NEW b \in Fill
    PROVE  Score(b, b) = 0
<1>1. b.amount - b.amount = 0 /\ b.at - b.at = 0
  BY DEF Fill
<1>2. Abs(0) = 0 /\ 0 * HourScore = 0
  BY DEF Abs, HourScore
<1> QED BY <1>1, <1>2 DEF Score

\* The verdict that a reconciliation reaches is true of what it saw.
LEMMA OutcomeSound ==
    ASSUME NEW h \in ImportRecord, NEW r \in Refs, NEW seen \in 0..Len(PaperFills),
           NEW o \in MatchOutcome(h, r, seen, BestPaperFills(Executed[r], seen))
    PROVE  /\ o \in ImportRecord /\ o.at = "store" /\ o.status # "none"
           /\ o.todo = h.todo /\ o.id = h.id
           /\ Sound(Executed[r], o.status, o.paper, o.seen, seen)
<1> DEFINE b == Executed[r]
           best == BestPaperFills(b, seen)
<1>1. b \in Fill /\ seen \in Nat /\ \A j \in 1..seen : PaperFills[j] \in Fill
  BY FillTypes
<1>2. ASSUME NEW j \in 1..seen, PaperFills[j] = b
      PROVE  j \in best /\ \A i \in best : Agrees(b, PaperFills[i])
  <2>1. Score(b, PaperFills[j]) = 0
    BY <1>1, <1>2, ScoreOfCopy
  <2>2. \A i \in 1..seen : Score(b, PaperFills[i]) \in Int /\ Score(b, PaperFills[i]) >= 0
    BY <1>1, ScoreFacts
  <2>3. j \in best
    BY <2>1, <2>2 DEF BestPaperFills
  <2>4. ASSUME NEW i \in best PROVE Agrees(b, PaperFills[i])
    <3>1. i \in 1..seen /\ Score(b, PaperFills[i]) <= Score(b, PaperFills[j])
      BY DEF BestPaperFills
    <3>2. Score(b, PaperFills[i]) = 0
      BY <2>1, <2>2, <3>1
    <3> QED BY <1>1, <3>1, <3>2, ScoreFacts
  <2> QED BY <2>3, <2>4
<1>3. CASE best = {}
  <2>1. o = [h EXCEPT !.at = "store", !.status = "mismatch", !.paper = 0, !.seen = seen]
    BY <1>3 DEF MatchOutcome
  <2>2. o \in ImportRecord
    BY <1>1, <2>1 DEF ImportRecord, Places
  <2>3. /\ o.at = "store" /\ o.status = "mismatch" /\ o.seen = seen
        /\ o.todo = h.todo /\ o.id = h.id
    BY <2>1 DEF ImportRecord
  <2>4. \A j \in 1..seen : PaperFills[j] # b
    BY <1>2, <1>3
  <2> QED BY <2>2, <2>3, <2>4 DEF Sound
<1>4. CASE best # {}
  <2>1. PICK i \in best :
           o = [h EXCEPT !.at = "store", !.paper = i, !.seen = seen,
                  !.status = IF Agrees(b, PaperFills[i]) THEN "matched" ELSE "mismatch"]
    BY <1>4 DEF MatchOutcome
  <2>2. i \in 1..seen
    BY DEF BestPaperFills
  <2>3. o \in ImportRecord
    <3> DEFINE verdict == IF Agrees(b, PaperFills[i]) THEN "matched" ELSE "mismatch"
    <3>1. verdict \in {"none", "matched", "mismatch"}
      BY Zenon
    <3>2. o = [h EXCEPT !.at = "store", !.paper = i, !.seen = seen, !.status = verdict]
      BY <2>1
    <3>3. i \in Nat /\ seen \in Nat
      BY <1>1, <2>2
    <3> HIDE DEF verdict, best
    <3> QED BY <3>1, <3>2, <3>3 DEF ImportRecord, Places
  <2>4. /\ o.at = "store" /\ o.paper = i /\ o.seen = seen /\ o.todo = h.todo /\ o.id = h.id
        /\ o.status = IF Agrees(b, PaperFills[i]) THEN "matched" ELSE "mismatch"
    BY <2>1 DEF ImportRecord
  <2>5. CASE Agrees(b, PaperFills[i])
    BY <2>2, <2>3, <2>4, <2>5 DEF Sound
  <2>6. CASE ~Agrees(b, PaperFills[i])
    <3>1. \A j \in 1..seen : PaperFills[j] # b
      BY <1>2, <2>6
    <3> QED BY <2>3, <2>4, <2>6, <3>1 DEF Sound
  <2> QED BY <2>5, <2>6
<1> QED BY <1>3, <1>4

-----------------------------------------------------------------------------
(* What a change of one actor, and of the rows, disturbs. *)

LEMMA Types ==
    ASSUME FInv
    PROVE  /\ executedTo \in Nat /\ paperTo \in Nat /\ paperTo <= Len(PaperFills)
           /\ Len(fills) \in Nat /\ DOMAIN fills = 1..Len(fills)
           /\ \A i \in DOMAIN fills : fills[i] \in BrokerFill /\ fills[i].ref \in Refs
           /\ \A a \in Importers : imports[a] \in ImportRecord /\ imports[a].todo \in Seq(Refs)
           /\ Cardinality(Refs) \in Nat
<1>1. fills \in Seq(BrokerFill) /\ imports \in [Importers -> ImportRecord]
  BY DEF FInv, FTypes
<1>2. \A i \in DOMAIN fills : fills[i] \in BrokerFill
  BY <1>1
<1>3. \A i \in DOMAIN fills : fills[i].ref \in Refs
  BY <1>2 DEF BrokerFill
<1>4. \A a \in Importers : imports[a] \in ImportRecord /\ imports[a].todo \in Seq(Refs)
  BY <1>1 DEF ImportRecord
<1>5. Len(fills) \in Nat /\ DOMAIN fills = 1..Len(fills)
  BY <1>1
<1> QED BY <1>2, <1>3, <1>4, <1>5, FillTypes, FillsAssumption DEF FInv, FTypes

\* The list of an actor that holds a reference of it.
LEMMA ListTypes ==
    ASSUME FInv, NEW a \in Importers, imports[a].todo # <<>>
    PROVE  /\ Head(imports[a].todo) \in Refs /\ Tail(imports[a].todo) \in Seq(Refs)
           /\ Len(imports[a].todo) \in Nat \ {0}
           /\ Head(imports[a].todo) = imports[a].todo[1]
           /\ Len(Tail(imports[a].todo)) = Len(imports[a].todo) - 1
           /\ \A k \in 1..Len(Tail(imports[a].todo)) :
                 Tail(imports[a].todo)[k] = imports[a].todo[k + 1]
<1>1. imports[a].todo \in Seq(Refs)
  BY Types
<1> QED BY <1>1

\* An actor changes, the rows do not.
LEMMA ActorChanges ==
    ASSUME FInv, NEW a \in Importers, NEW h \in ImportRecord,
           imports' = [imports EXCEPT ![a] = h], Holds(h, fills, paperTo),
           fills' = fills, paperTo' = paperTo
    PROVE  ActorsHold' /\ FillsSound' /\ imports' \in [Importers -> ImportRecord]
<1>1. imports \in [Importers -> ImportRecord]
  BY DEF FInv, FTypes
<1>2. \A x \in Importers : imports'[x] = IF x = a THEN h ELSE imports[x]
  BY <1>1
<1>3. ActorsHold'
  BY <1>2 DEF ActorsHold, FInv
<1>4. FillsSound'
  BY DEF FillsSound, FInv
<1> QED BY <1>1, <1>3, <1>4

\* What a list still holds after its first reference is dropped.
LEMMA TailListed ==
    ASSUME FInv, NEW a \in Importers, imports[a].todo # <<>>, NEW r,
           Listed(r, imports[a].todo), r # Head(imports[a].todo)
    PROVE  Listed(r, Tail(imports[a].todo))
<1>1. PICK k \in 1..Len(imports[a].todo) : imports[a].todo[k] = r
  BY DEF Listed
<1>2. k # 1 /\ k - 1 \in 1..Len(Tail(imports[a].todo))
  BY <1>1, ListTypes
<1>3. Tail(imports[a].todo)[k - 1] = r
  <2>1. Tail(imports[a].todo)[k - 1] = imports[a].todo[(k - 1) + 1]
    BY <1>2, ListTypes
  <2> QED BY <1>1, <2>1
<1> QED BY <1>2, <1>3 DEF Listed

\* A request or a poll that throws.
LEMMA ThrowsKeeps ==
    ASSUME FInv, NEW a \in Importers, Throws(a), a = "poller" => "fills" \in polling,
           UNCHANGED <<executedTo, paperTo, fills, reconciles>>
    PROVE  FInv'
<1>1. Resting \in ImportRecord /\ Resting.at = "rest"
  BY DEF Resting, ImportRecord, Places
<1>2. Holds(Resting, fills, paperTo)
  BY <1>1 DEF Holds
<1>3. imports' = [imports EXCEPT ![a] = Resting]
  BY DEF Throws
<1>4. ActorsHold' /\ FillsSound' /\ imports' \in [Importers -> ImportRecord]
  BY <1>1, <1>2, <1>3, ActorChanges
<1>5. imports \in [Importers -> ImportRecord] /\ "poller" \in Importers
  BY DEF FInv, FTypes, Importers
<1>6. CASE a = "poller"
  <2>1. /\ running' = FALSE /\ polling' = polling \ {"fills"}
        /\ lastPoll' = [lastPoll EXCEPT !.error = "failed"]
    BY <1>6 DEF Throws
  <2>2. polling = {"fills"} /\ polling' = {}
    BY <1>6, <2>1 DEF FInv, Polls
  <2>3. imports'["poller"].at = "rest"
    BY <1>1, <1>3, <1>5, <1>6
  <2>4. /\ lastPoll' \in [error: {"never", "open", "none", "failed"}, listed: SUBSET Refs]
        /\ lastPoll'.error = "failed"
    BY <2>1 DEF FInv, FTypes
  <2>5. Polls' /\ ListDone'
    BY <2>2, <2>3, <2>4 DEF Polls, ListDone
  <2> QED BY <1>4, <2>1, <2>4, <2>5 DEF FInv, FTypes
<1>7. CASE a # "poller"
  <2>1. running' = running /\ polling' = polling /\ lastPoll' = lastPoll
    BY <1>7 DEF Throws
  <2>2. imports'["poller"] = imports["poller"]
    BY <1>3, <1>5, <1>7
  <2>3. Polls' /\ ListDone'
    BY <2>1, <2>2 DEF FInv, Polls, ListDone
  <2> QED BY <1>4, <2>1, <2>3 DEF FInv, FTypes
<1> QED BY <1>6, <1>7

-----------------------------------------------------------------------------
(* The steps. *)

LEMMA InitHolds == FillsInit => FInv
<1> SUFFICES ASSUME FillsInit PROVE FInv
  OBVIOUS
<1>1. Resting \in ImportRecord /\ Resting.at = "rest"
  BY DEF Resting, ImportRecord, Places
<1>2. fills = <<>> /\ imports = [a \in Importers |-> Resting] /\ polling = {}
  BY DEF FillsInit
<1>3. 0 \in 0..Cardinality(Refs) /\ 0 \in 0..Len(PaperFills) /\ 0 \in 0..MaxReconciles
  BY FillsAssumption, FillTypes
<1>4. FTypes
  <2>1. fills \in Seq(BrokerFill) /\ imports \in [Importers -> ImportRecord]
    BY <1>1, <1>2
  <2>2. lastPoll \in [error: {"never", "open", "none", "failed"}, listed: SUBSET Refs]
    BY DEF FillsInit
  <2> QED BY <1>3, <2>1, <2>2 DEF FillsInit, FTypes
<1>5. FillsSound
  BY <1>2 DEF FillsSound
<1>6. ActorsHold
  BY <1>1, <1>2 DEF ActorsHold, Holds
<1>7. Polls /\ ListDone
  BY <1>1, <1>2 DEF FillsInit, Polls, ListDone, Importers
<1> QED BY <1>4, <1>5, <1>6, <1>7 DEF FInv

LEMMA TradeStep ==
    ASSUME FInv, Trade
    PROVE  FInv'
<1>1. /\ fills' = fills /\ imports' = imports /\ running' = running /\ polling' = polling
      /\ lastPoll' = lastPoll /\ reconciles' = reconciles
  BY DEF Trade
<1>2. /\ executedTo' \in 0..Cardinality(Refs) /\ paperTo' \in 0..Len(PaperFills)
      /\ paperTo' >= paperTo /\ paperTo \in Nat
  BY Types, FillTypes DEF Trade, FInv, FTypes
<1>3. \A b, status, paperId, seen :
         Sound(b, status, paperId, seen, paperTo) => Sound(b, status, paperId, seen, paperTo')
  BY <1>2 DEF Sound
<1>4. FillsSound'
  BY <1>1, <1>3 DEF FInv, FillsSound
<1>5. ActorsHold'
  BY <1>1, <1>3 DEF FInv, ActorsHold, Holds
<1>6. FTypes' /\ Polls' /\ ListDone'
  BY <1>1, <1>2 DEF FInv, FTypes, Polls, ListDone
<1> QED BY <1>4, <1>5, <1>6 DEF FInv

\* The operator's requests begin.
LEMMA OperatorSteps ==
    ASSUME FInv, OperatorImports \/ OperatorReconciles
    PROVE  FInv'
<1>1. "operator" \in Importers /\ "poller" \in Importers /\ "operator" # "poller"
  BY DEF Importers
<1>2. \E h \in ImportRecord :
         imports' = [imports EXCEPT !["operator"] = h] /\ Holds(h, fills, paperTo)
  <2>1. CASE OperatorImports
    <3>1. PICK r \in 1..executedTo :
             imports' = [imports EXCEPT !["operator"] = [Resting EXCEPT !.todo = <<r>>, !.at = "lookup"]]
      BY <2>1 DEF OperatorImports
    <3> DEFINE h == [Resting EXCEPT !.todo = <<r>>, !.at = "lookup"]
    <3>2. r \in Refs
      BY FillsAssumption, Types DEF FInv, FTypes
    <3>3. <<r>> \in Seq(Refs)
      BY <3>2
    <3>4. h \in ImportRecord /\ h.at = "lookup"
      BY <3>3 DEF Resting, ImportRecord, Places
    <3> HIDE DEF h
    <3>5. Holds(h, fills, paperTo)
      BY <3>4 DEF Holds
    <3> QED BY <3>1, <3>4, <3>5 DEF h
  <2>2. CASE OperatorReconciles
    <3>1. PICK i \in DOMAIN fills :
             imports' = [imports EXCEPT !["operator"] =
                           [Resting EXCEPT !.todo = <<fills[i].ref>>, !.at = "match", !.id = i]]
      BY <2>2 DEF OperatorReconciles
    <3> DEFINE h == [Resting EXCEPT !.todo = <<fills[i].ref>>, !.at = "match", !.id = i]
    <3>2. fills[i].ref \in Refs /\ i \in Nat
      BY Types
    <3>3. <<fills[i].ref>> \in Seq(Refs) /\ Head(<<fills[i].ref>>) = fills[i].ref
          /\ <<fills[i].ref>> # <<>>
      BY <3>2
    <3>4. h \in ImportRecord /\ h.at = "match" /\ h.id = i /\ h.todo = <<fills[i].ref>>
      BY <3>2, <3>3 DEF Resting, ImportRecord, Places
    <3> HIDE DEF h
    <3>5. Holds(h, fills, paperTo)
      BY <3>3, <3>4 DEF Holds
    <3> QED BY <3>1, <3>4, <3>5 DEF h
  <2> QED BY <2>1, <2>2
<1>3. fills' = fills /\ paperTo' = paperTo /\ running' = running /\ polling' = polling
      /\ lastPoll' = lastPoll /\ executedTo' = executedTo
  BY DEF OperatorImports, OperatorReconciles
<1>4. ActorsHold' /\ FillsSound' /\ imports' \in [Importers -> ImportRecord]
  BY <1>1, <1>2, <1>3, ActorChanges
<1>5. imports'["poller"] = imports["poller"]
  BY <1>1, <1>2 DEF FInv, FTypes
<1>6. Polls' /\ ListDone'
  BY <1>3, <1>5 DEF FInv, Polls, ListDone
<1>7. reconciles' \in 0..MaxReconciles
  <2>1. reconciles \in 0..MaxReconciles /\ MaxReconciles \in Nat
    BY FillsAssumption DEF FInv, FTypes
  <2>2. CASE OperatorImports
    BY <2>1, <2>2 DEF OperatorImports
  <2>3. CASE OperatorReconciles
    <3>1. reconciles < MaxReconciles /\ reconciles' = reconciles + 1
      BY <2>3, Zenon DEF OperatorReconciles
    <3> QED BY <2>1, <3>1
  <2> QED BY <2>2, <2>3
<1> QED BY <1>3, <1>4, <1>6, <1>7 DEF FInv, FTypes

\* An actor moves on within its import: its list stays.
LEMMA ActorMoves ==
    ASSUME FInv, NEW a \in Importers, imports[a].at # "rest",
           NEW h \in ImportRecord, h.todo = imports[a].todo,
           Holds(h, fills, paperTo), imports' = [imports EXCEPT ![a] = h],
           UNCHANGED <<executedTo, paperTo, fills, running, polling, lastPoll, reconciles>>
    PROVE  FInv'
<1>1. ActorsHold' /\ FillsSound' /\ imports' \in [Importers -> ImportRecord]
  BY ActorChanges
<1>2. imports \in [Importers -> ImportRecord] /\ "poller" \in Importers
  BY DEF FInv, FTypes, Importers
<1>3. /\ imports'["poller"].todo = imports["poller"].todo
      /\ imports'["poller"].at # "rest" => imports["poller"].at # "rest"
  BY <1>2
<1>4. Polls' /\ ListDone'
  BY <1>3 DEF FInv, Polls, ListDone
<1> QED BY <1>1, <1>4 DEF FInv, FTypes

LEMMA LookupStep ==
    ASSUME FInv, NEW a \in Importers, Lookup(a)
    PROVE  FInv'
<1> DEFINE ref == Head(imports[a].todo)
<1>1. imports[a].at = "lookup" /\ imports[a].todo # <<>> /\ imports[a] \in ImportRecord
  BY Types DEF Lookup
<1>2. CASE ref \in Refused
  <2>1. Throws(a) /\ UNCHANGED <<executedTo, paperTo, fills, reconciles>>
    BY <1>2 DEF Lookup, RefusalOf
  <2>2. a = "poller" => "fills" \in polling
    BY <1>1 DEF FInv, Polls
  <2> QED BY <2>1, <2>2, ThrowsKeeps
<1>3. CASE ref \notin Refused /\ RowOf(ref) = {}
  <2> DEFINE h == [imports[a] EXCEPT !.at = "save"]
  <2>1. imports' = [imports EXCEPT ![a] = h]
    BY <1>3 DEF Lookup
  <2>2. h \in ImportRecord /\ h.at = "save" /\ h.todo = imports[a].todo
    BY <1>1 DEF ImportRecord, Places
  <2> HIDE DEF h
  <2>3. Holds(h, fills, paperTo)
    BY <1>1, <2>2 DEF Holds
  <2> QED BY <1>1, <1>3, <2>1, <2>2, <2>3, ActorMoves DEF Lookup
<1>4. CASE ref \notin Refused /\ RowOf(ref) # {}
  <2> DEFINE i == CHOOSE i \in RowOf(ref) : TRUE
             h == [imports[a] EXCEPT !.at = "match", !.id = i]
  <2>1. imports' = [imports EXCEPT ![a] = h]
    BY <1>4 DEF Lookup
  <2>2. i \in DOMAIN fills /\ fills[i].ref = ref
    BY <1>4 DEF RowOf
  <2>3. i \in Nat
    BY <2>2, Types
  <2> HIDE DEF i
  <2>4. h \in ImportRecord /\ h.at = "match" /\ h.todo = imports[a].todo /\ h.id = i
    BY <1>1, <2>3 DEF ImportRecord, Places
  <2> HIDE DEF h
  <2>5. Holds(h, fills, paperTo)
    BY <1>1, <2>2, <2>4 DEF Holds
  <2> QED BY <1>1, <1>4, <2>1, <2>4, <2>5, ActorMoves DEF Lookup
<1> QED BY <1>2, <1>3, <1>4

LEMMA SaveStep ==
    ASSUME FInv, NEW a \in Importers, Save(a)
    PROVE  FInv'
<1> DEFINE ref == Head(imports[a].todo)
           row == [ref |-> ref, status |-> "imported", paper |-> 0, seen |-> 0]
           h == [imports[a] EXCEPT !.at = "match", !.id = Len(fills) + 1]
<1>1. imports[a].at = "save" /\ imports[a] \in ImportRecord /\ imports[a].todo # <<>>
  BY Types DEF Save, FInv, ActorsHold, Holds
<1>2. ref \in Refs
  BY <1>1, ListTypes
<1>3. CASE Throws(a) /\ UNCHANGED fills
  <2>1. a = "poller" => "fills" \in polling
    BY <1>1 DEF FInv, Polls
  <2> QED BY <1>3, <2>1, ThrowsKeeps DEF Save
<1>4. CASE /\ fills' = Append(fills, row)
           /\ imports' = [imports EXCEPT ![a].at = "match", ![a].id = Len(fills) + 1]
           /\ UNCHANGED <<running, polling, lastPoll>>
  <2>1. row \in BrokerFill /\ row.ref = ref /\ row.status = "imported"
    BY <1>2 DEF BrokerFill
  <2> HIDE DEF row
  <2>2. fills \in Seq(BrokerFill) /\ imports \in [Importers -> ImportRecord] /\ Len(fills) \in Nat
    BY Types DEF FInv, FTypes
  <2>3. fills' \in Seq(BrokerFill)
    BY <1>4, <2>1, <2>2
  <2>4. /\ DOMAIN fills' = 1..(Len(fills) + 1) /\ DOMAIN fills = 1..Len(fills)
        /\ fills'[Len(fills) + 1] = row
        /\ \A i \in DOMAIN fills : fills'[i] = fills[i]
    BY <1>4, <2>1, <2>2
  <2>5. h \in ImportRecord /\ h.at = "match" /\ h.id = Len(fills) + 1 /\ h.todo = imports[a].todo
    <3> DEFINE n == Len(fills) + 1
    <3>1. n \in Nat
      BY <2>2
    <3> HIDE DEF n
    <3>2. /\ [imports[a] EXCEPT !.at = "match", !.id = n] \in ImportRecord
          /\ [imports[a] EXCEPT !.at = "match", !.id = n].at = "match"
          /\ [imports[a] EXCEPT !.at = "match", !.id = n].id = n
          /\ [imports[a] EXCEPT !.at = "match", !.id = n].todo = imports[a].todo
      BY <1>1, <3>1 DEF ImportRecord, Places
    <3> QED BY <3>2 DEF n
  <2>6. imports' = [imports EXCEPT ![a] = h]
    BY <1>4, <2>2
  <2> HIDE DEF h
  <2>7. \A x \in Importers : imports'[x] = IF x = a THEN h ELSE imports[x]
    BY <2>2, <2>6
  <2>8. UNCHANGED <<executedTo, paperTo, running, polling, lastPoll, reconciles>>
    BY <1>4 DEF Save
  <2>9. Holds(h, fills', paperTo)
    BY <1>1, <2>1, <2>2, <2>4, <2>5 DEF Holds
  <2>10. \A x \in Importers : Holds(imports[x], fills', paperTo)
    <3> TAKE x \in Importers
    <3>1. Holds(imports[x], fills, paperTo)
      BY DEF FInv, ActorsHold
    <3> QED BY <2>2, <2>4, <3>1 DEF Holds
  <2>11. ActorsHold'
    BY <2>7, <2>8, <2>9, <2>10 DEF ActorsHold
  <2>12. FillsSound'
    <3>1. \A i \in DOMAIN fills' : i \in DOMAIN fills \/ fills'[i] = row
      BY <2>2, <2>4
    <3> QED BY <2>1, <2>4, <2>8, <3>1 DEF FInv, FillsSound, Sound
  <2>13. \A r : Done(r, fills) => Done(r, fills')
    BY <2>2, <2>4 DEF Done
  <2>14. "poller" \in Importers
    BY DEF Importers
  <2>15. /\ imports'["poller"].todo = imports["poller"].todo
         /\ imports'["poller"].at # "rest" => imports["poller"].at # "rest"
    BY <1>1, <2>5, <2>7, <2>14
  <2>16. Polls' /\ ListDone'
    BY <2>8, <2>13, <2>15 DEF FInv, Polls, ListDone
  <2>17. imports' \in [Importers -> ImportRecord]
    BY <2>2, <2>5, <2>6
  <2>18. FTypes'
    BY <2>3, <2>8, <2>17 DEF FInv, FTypes
  <2> QED BY <2>11, <2>12, <2>16, <2>18 DEF FInv
<1> QED BY <1>3, <1>4 DEF Save

LEMMA MatchStep ==
    ASSUME FInv, NEW a \in Importers, Match(a)
    PROVE  FInv'
<1> DEFINE ref == Head(imports[a].todo)
<1>1. /\ imports[a].at = "match" /\ imports[a] \in ImportRecord /\ imports[a].todo # <<>>
      /\ imports[a].id \in DOMAIN fills /\ fills[imports[a].id].ref = ref
  BY Types DEF Match, FInv, ActorsHold, Holds
<1>2. ref \in Refs
  BY <1>1, ListTypes
<1>3. paperTo \in 0..Len(PaperFills)
  BY DEF FInv, FTypes
<1>4. PICK held \in MatchOutcome(imports[a], ref, paperTo, BestPaperFills(Executed[ref], paperTo)) :
         imports' = [imports EXCEPT ![a] = held]
  BY DEF Match
<1>5. /\ held \in ImportRecord /\ held.at = "store" /\ held.status # "none"
      /\ held.todo = imports[a].todo /\ held.id = imports[a].id
      /\ Sound(Executed[ref], held.status, held.paper, held.seen, paperTo)
  BY <1>1, <1>2, <1>3, OutcomeSound
<1>6. Holds(held, fills, paperTo)
  BY <1>1, <1>5 DEF Holds
<1> QED BY <1>1, <1>4, <1>5, <1>6, ActorMoves DEF Match

LEMMA StoreStep ==
    ASSUME FInv, NEW a \in Importers, Store(a)
    PROVE  FInv'
<1> DEFINE held == imports[a]
           ref == Head(held.todo)
           row == [ref |-> fills[held.id].ref, status |-> held.status,
                   paper |-> held.paper, seen |-> held.seen]
           h == IF a = "poller" THEN [Resting EXCEPT !.todo = Tail(held.todo), !.at = "lookup"]
                ELSE Resting
<1>1. /\ held.at = "store" /\ held \in ImportRecord /\ held.todo # <<>>
      /\ held.id \in DOMAIN fills /\ fills[held.id].ref = ref
      /\ held.status # "none" /\ Sound(Executed[ref], held.status, held.paper, held.seen, paperTo)
  BY Types DEF Store, FInv, ActorsHold, Holds
<1>2. fills' = [fills EXCEPT ![held.id] = row] /\ imports' = [imports EXCEPT ![a] = h]
  BY DEF Store
<1>3. UNCHANGED <<executedTo, paperTo, running, polling, lastPoll, reconciles>>
  BY DEF Store
<1>4. fills \in Seq(BrokerFill) /\ imports \in [Importers -> ImportRecord] /\ Len(fills) \in Nat
  BY Types DEF FInv, FTypes
<1>5. ref \in Refs /\ Tail(held.todo) \in Seq(Refs)
  BY <1>1, ListTypes
<1>6. /\ row \in BrokerFill /\ row.ref = ref /\ row.status = held.status
      /\ row.paper = held.paper /\ row.seen = held.seen /\ row.status # "imported"
  BY <1>1, <1>5 DEF BrokerFill, ImportRecord
<1>7. /\ h \in ImportRecord /\ h.at \in {"rest", "lookup"}
      /\ a = "poller" => h.at = "lookup" /\ h.todo = Tail(held.todo)
  <2>1. CASE a # "poller"
    BY <2>1 DEF Resting, ImportRecord, Places
  <2>2. CASE a = "poller"
    <3> DEFINE rest == Tail(held.todo)
    <3>1. rest \in Seq(Refs)
      BY <1>5
    <3> HIDE DEF rest
    <3>2. LET g == [Resting EXCEPT !.todo = rest, !.at = "lookup"]
          IN  g \in ImportRecord /\ g.at = "lookup" /\ g.todo = rest
      BY <3>1 DEF Resting, ImportRecord, Places
    <3> QED BY <2>2, <3>2 DEF rest
  <2> QED BY <2>1, <2>2
<1> HIDE DEF row, h
<1>8. fills' \in Seq(BrokerFill) /\ imports' \in [Importers -> ImportRecord]
  <2>1. held.id \in 1..Len(fills)
    BY <1>1, Types
  <2>2. [fills EXCEPT ![held.id] = row] \in Seq(BrokerFill)
    BY <1>4, <1>6, <2>1
  <2>3. [imports EXCEPT ![a] = h] \in [Importers -> ImportRecord]
    BY <1>4, <1>7
  <2> QED BY <1>2, <2>2, <2>3
<1>9. /\ DOMAIN fills' = DOMAIN fills
      /\ \A i \in DOMAIN fills : fills'[i] = IF i = held.id THEN row ELSE fills[i]
  BY <1>2, <1>4
<1>10. \A x \in Importers : imports'[x] = IF x = a THEN h ELSE imports[x]
  BY <1>2, <1>4
<1>11. \A x \in Importers : Holds(imports[x], fills', paperTo)
  <2> TAKE x \in Importers
  <2>1. Holds(imports[x], fills, paperTo)
    BY DEF FInv, ActorsHold
  <2>2. \A i \in DOMAIN fills : fills'[i].ref = fills[i].ref
    BY <1>1, <1>6, <1>9
  <2> QED BY <1>9, <2>1, <2>2 DEF Holds
<1>12. Holds(h, fills', paperTo)
  BY <1>7 DEF Holds
<1>13. ActorsHold'
  BY <1>3, <1>10, <1>11, <1>12 DEF ActorsHold
<1>14. FillsSound'
  <2> SUFFICES ASSUME NEW i \in DOMAIN fills
               PROVE  Sound(Executed[fills'[i].ref], fills'[i].status, fills'[i].paper,
                            fills'[i].seen, paperTo)
    BY <1>3, <1>9 DEF FillsSound
  <2>1. CASE i = held.id
    BY <1>1, <1>6, <1>9, <2>1
  <2>2. CASE i # held.id
    BY <1>9, <2>2 DEF FInv, FillsSound
  <2> QED BY <2>1, <2>2
<1>15. \A r : Done(r, fills) => Done(r, fills')
  BY <1>1, <1>6, <1>9 DEF Done
<1>16. Done(ref, fills')
  BY <1>1, <1>6, <1>9 DEF Done
<1>17. "poller" \in Importers
  BY DEF Importers
<1>18. Polls'
  BY <1>1, <1>3, <1>7, <1>10, <1>17 DEF FInv, Polls
<1>19. ListDone'
  <2>1. CASE a # "poller"
    BY <1>3, <1>10, <1>15, <1>17, <2>1 DEF FInv, ListDone
  <2>2. CASE a = "poller"
    <3>1. ASSUME NEW r, Listed(r, held.todo)
          PROVE  Done(r, fills') \/ Listed(r, imports'["poller"].todo)
      <4>1. CASE r = ref
        BY <1>16, <4>1
      <4>2. CASE r # ref
        <5>1. Listed(r, Tail(held.todo))
          BY <1>1, <3>1, <4>2, TailListed
        <5> QED BY <1>7, <1>10, <2>2, <5>1
      <4> QED BY <4>1, <4>2
    <3> QED BY <1>3, <1>15, <2>2, <3>1 DEF FInv, ListDone
  <2> QED BY <2>1, <2>2
<1>20. FTypes'
  BY <1>3, <1>8 DEF FInv, FTypes
<1> QED BY <1>13, <1>14, <1>18, <1>19, <1>20 DEF FInv

\* Polls begin and end, without an import under way in the poller when one begins.
LEMMA PollSteps ==
    ASSUME FInv,
           \/ \E kind \in {"snapshot", "fills"} : RequestPoll(kind)
           \/ CronPolls \/ SnapshotPollEnds
    PROVE  FInv'
<1>1. /\ executedTo' = executedTo /\ paperTo' = paperTo /\ fills' = fills
      /\ lastPoll' = lastPoll /\ reconciles' = reconciles /\ imports' = imports
  BY DEF RequestPoll, CronPolls, SnapshotPollEnds, StartPoll, RefusedPoll
<1>2. polling \in {{}, {"snapshot"}, {"fills"}} /\ (polling # {} => running)
  BY DEF FInv, Polls
<1>3. running' \in BOOLEAN /\ Polls'
  <2>1. ASSUME NEW kind \in {"snapshot", "fills"}, StartPoll(kind) \/ RefusedPoll(kind)
        PROVE  running' \in BOOLEAN /\ Polls'
    <3>1. CASE StartPoll(kind)
      <4>1. polling = {} /\ running' = TRUE /\ polling' = {kind}
        BY <1>2, <3>1 DEF StartPoll
      <4> QED BY <1>1, <4>1 DEF FInv, Polls
    <3>2. CASE RefusedPoll(kind)
      BY <1>1, <3>2 DEF RefusedPoll, FInv, FTypes, Polls
    <3> QED BY <2>1, <3>1, <3>2
  <2>2. CASE SnapshotPollEnds
    <3>1. polling = {"snapshot"} /\ polling' = {} /\ running' = FALSE
      BY <1>2, <2>2 DEF SnapshotPollEnds
    <3> QED BY <1>1, <3>1 DEF FInv, Polls
  <2>3. CASE \E kind \in {"snapshot", "fills"} : RequestPoll(kind)
    BY <2>1, <2>3 DEF RequestPoll
  <2>4. CASE CronPolls
    BY <2>1, <2>4 DEF CronPolls
  <2> QED BY <2>2, <2>3, <2>4
<1>4. ActorsHold' /\ FillsSound' /\ ListDone'
  BY <1>1 DEF FInv, ActorsHold, FillsSound, ListDone
<1> QED BY <1>1, <1>3, <1>4 DEF FInv, FTypes

LEMMA FillsAnsweredStep ==
    ASSUME FInv, FillsAnswered
    PROVE  FInv'
<1>1. "poller" \in Importers /\ imports["poller"].at = "rest" /\ "fills" \in polling
  BY DEF Importers, FillsAnswered
<1>2. CASE Throws("poller")
  BY <1>1, <1>2, ThrowsKeeps DEF FillsAnswered
<1>3. CASE ~Throws("poller")
  <2> DEFINE list == [i \in 1..executedTo |-> i]
             h == [Resting EXCEPT !.todo = list, !.at = "lookup"]
  <2>1. /\ imports' = [imports EXCEPT !["poller"] = h]
        /\ lastPoll' = [error |-> "open", listed |-> 1..executedTo]
        /\ UNCHANGED <<running, polling>>
    BY <1>3 DEF FillsAnswered
  <2>2. executedTo \in Nat /\ 1..executedTo \subseteq Refs
    BY FillsAssumption, Types DEF FInv, FTypes
  <2>3. list \in Seq(Refs) /\ Len(list) = executedTo /\ \A i \in 1..executedTo : list[i] = i
    BY <2>2
  <2> HIDE DEF list
  <2>4. h \in ImportRecord /\ h.at = "lookup" /\ h.todo = list
    BY <2>3 DEF Resting, ImportRecord, Places
  <2> HIDE DEF h
  <2>5. Holds(h, fills, paperTo)
    BY <2>4 DEF Holds
  <2>6. UNCHANGED <<executedTo, paperTo, fills, reconciles>>
    BY DEF FillsAnswered
  <2>7. ActorsHold' /\ FillsSound' /\ imports' \in [Importers -> ImportRecord]
    BY <1>1, <2>1, <2>4, <2>5, <2>6, ActorChanges
  <2>8. imports'["poller"] = h
    BY <1>1, <2>1 DEF FInv, FTypes
  <2>9. lastPoll'.error = "open" /\ lastPoll'.listed = 1..executedTo
    BY <2>1
  <2>10. Polls'
    BY <1>1, <2>1, <2>9 DEF FInv, Polls
  <2>11. ListDone'
    BY <2>3, <2>4, <2>8, <2>9 DEF ListDone, Listed
  <2>12. lastPoll' \in [error: {"never", "open", "none", "failed"}, listed: SUBSET Refs]
    BY <2>1, <2>2
  <2> QED BY <2>1, <2>6, <2>7, <2>10, <2>11, <2>12 DEF FInv, FTypes
<1> QED BY <1>2, <1>3

LEMMA FillPollEndsStep ==
    ASSUME FInv, FillPollEnds
    PROVE  FInv'
<1>1. /\ "poller" \in Importers /\ imports["poller"].todo = <<>>
      /\ imports["poller"].at = "lookup"
      /\ imports' = [imports EXCEPT !["poller"] = Resting]
      /\ UNCHANGED <<executedTo, paperTo, fills, reconciles>>
  BY DEF Importers, FillPollEnds
<1>2. Resting \in ImportRecord /\ Resting.at = "rest"
  BY DEF Resting, ImportRecord, Places
<1>3. Holds(Resting, fills, paperTo)
  BY <1>2 DEF Holds
<1>4. ActorsHold' /\ FillsSound' /\ imports' \in [Importers -> ImportRecord]
  BY <1>1, <1>2, <1>3, ActorChanges
<1>5. imports'["poller"].at = "rest"
  BY <1>1, <1>2 DEF FInv, FTypes
<1>6. polling = {"fills"} /\ lastPoll.error = "open"
  BY <1>1 DEF FInv, Polls
<1>7. /\ running' = FALSE /\ polling' = {}
      /\ lastPoll' = [lastPoll EXCEPT !.error = "none"]
  BY <1>6 DEF FillPollEnds
<1>8. /\ lastPoll' \in [error: {"never", "open", "none", "failed"}, listed: SUBSET Refs]
      /\ lastPoll'.error = "none" /\ lastPoll'.listed = lastPoll.listed
  BY <1>7 DEF FInv, FTypes
<1>9. \A r : ~Listed(r, imports["poller"].todo)
  BY <1>1 DEF Listed
<1>10. ListDone'
  BY <1>1, <1>6, <1>8, <1>9 DEF FInv, ListDone
<1>11. Polls'
  BY <1>5, <1>7 DEF Polls
<1> QED BY <1>1, <1>4, <1>7, <1>8, <1>10, <1>11 DEF FInv, FTypes

-----------------------------------------------------------------------------
(* The theorems. *)

LEMMA NextKeeps ==
    ASSUME FInv, FillsNext
    PROVE  FInv'
<1>1. CASE Trade
  BY <1>1, TradeStep
<1>2. CASE OperatorImports \/ OperatorReconciles
  BY <1>2, OperatorSteps
<1>3. CASE \E a \in Importers : Lookup(a) \/ Save(a) \/ Match(a) \/ Store(a)
  BY <1>3, LookupStep, SaveStep, MatchStep, StoreStep
<1>4. CASE \/ \E kind \in {"snapshot", "fills"} : RequestPoll(kind)
           \/ CronPolls \/ SnapshotPollEnds
  BY <1>4, PollSteps
<1>5. CASE FillsAnswered
  BY <1>5, FillsAnsweredStep
<1>6. CASE FillPollEnds
  BY <1>6, FillPollEndsStep
<1> QED BY <1>1, <1>2, <1>3, <1>4, <1>5, <1>6 DEF FillsNext

LEMMA StutterKeeps ==
    ASSUME FInv, UNCHANGED fillVars
    PROVE  FInv'
BY DEF FInv, FTypes, FillsSound, ActorsHold, Polls, ListDone, fillVars

\* The invariant: every verdict, saved or held, is true of the paper fills.
THEOREM FillsInvariance == FillsSpec => []FInv
<1>1. FInv /\ [FillsNext]_fillVars => FInv'
  BY NextKeeps, StutterKeeps
<1> QED BY InitHolds, <1>1, PTL DEF FillsSpec

\* A matched broker fill names a paper fill that agrees with it (reconcileBrokerFill).
THEOREM MatchesTraced == FillsSpec => []MatchedFillTraced
<1>1. FInv => MatchedFillTraced
  BY DEF FInv, FillsSound, Sound, Agrees, MatchedFillTraced
<1> QED BY FillsInvariance, <1>1, PTL

\* No broker fill is a mismatch that had an exact copy to be matched with
\* (findPaperFillMatchForBrokerFill's score).
THEOREM CopiesMatched == FillsSpec => []ExactCopyMatched
<1>1. FInv => ExactCopyMatched
  BY DEF FInv, FillsSound, Sound, ExactCopyMatched
<1> QED BY FillsInvariance, <1>1, PTL

\* The poller's flag admits one poll at a time (pollReadOnlySnapshot, pollReadOnlyFills).
THEOREM OnePoll == FillsSpec => []OnePollAtATime
<1>1. FInv => OnePollAtATime
  <2> SUFFICES ASSUME FInv PROVE OnePollAtATime
    OBVIOUS
  <2>1. polling \in {{}, {"snapshot"}, {"fills"}} /\ (polling # {} => running)
    BY DEF FInv, Polls
  <2>2. /\ Cardinality({}) = 0
        /\ Cardinality({"snapshot"}) = 1 /\ Cardinality({"fills"}) = 1
    BY FS_EmptySet, FS_Singleton, Zenon
  <2>3. Cardinality(polling) <= 1
    BY <2>1, <2>2
  <2> QED BY <2>1, <2>3 DEF OnePollAtATime
<1> QED BY FillsInvariance, <1>1, PTL

\* A fill poll without an error left a verdict for all it was told of.
THEOREM CleanPolls == FillsSpec => []CleanPollIsComplete
<1>1. FInv => CleanPollIsComplete
  BY DEF FInv, ListDone, Done, CleanPollIsComplete, RowOf
<1> QED BY FillsInvariance, <1>1, PTL

\* What the poller may call, the readiness service reports (getStatus against getConfig).
THEOREM PollsReported == FillsSpec => []PollsOnlyWhenReported
<1>1. FillsInit => env \in Environments
  BY DEF FillsInit, AdapterInit
<1>2. env \in Environments /\ [FillsNext]_fillVars => (env \in Environments)'
  <2>1. FillsNext => env' = env
    BY DEF FillsNext, Trade, OperatorImports, OperatorReconciles, Lookup, Save, Match,
           Store, RequestPoll, CronPolls, SnapshotPollEnds, FillsAnswered, FillPollEnds
  <2> QED BY <2>1 DEF fillVars
<1>3. env \in Environments => PollsOnlyWhenReported
  <2> SUFFICES ASSUME env \in Environments PROVE PollsOnlyWhenReported
    OBVIOUS
  <2>1. CanPoll(env) => ReadOnlyEnabled(env)
    BY EnvironmentAssumption DEF CanPoll, ReadOnlyEnabled, Configured, PollAccount, Environment
  <2>2. CanPollFills(env) => Capabilities(env).fillPolling = "configured"
    BY <2>1 DEF CanPollFills, Capabilities
  <2>3. CanPollFills(env) => "fills" \in AllowedEndpoints(env)
    BY DEF CanPollFills, AllowedEndpoints
  <2> QED BY <2>1, <2>2, <2>3 DEF PollsOnlyWhenReported
<1> QED BY <1>1, <1>2, <1>3, PTL DEF FillsSpec

-----------------------------------------------------------------------------
(***************************************************************************)
(* NoOpenOrderMissed for any orders, plans and handlers.                   *)
(*                                                                         *)
(* The argument: an order at the broker never leaves a state it ends in,   *)
(* so a stored status that is not in the list of open ones is the order's  *)
(* last one.                                                               *)
(***************************************************************************)

Ended == External \ Live

\* A status that is final is still the order's.
StatusTrue(o, reported, at) == reported \in Ended => at[o] = reported

OpenInv ==
    /\ atBroker \in [DOMAIN Placed -> External \cup {"none"}]
    /\ DOMAIN orderDesk = OrderDesks
    /\ IsRows(commands) /\ IsRows(statuses)
    /\ \A i \in DOMAIN commands : commands[i].missed = {}
    /\ \A i \in DOMAIN statuses :
          /\ statuses[i].external \in External \cup {"unknown"}
          /\ StatusTrue(statuses[i].order, statuses[i].external, atBroker)
    /\ \A d \in OrderDesks :
          /\ orderDesk[d].kind = "command" =>
                "missed" \in DOMAIN orderDesk[d] /\ orderDesk[d].missed = {}
          /\ orderDesk[d].kind = "status" =>
                /\ orderDesk[d].external \in External \cup {"unknown"}
                /\ StatusTrue(orderDesk[d].order, orderDesk[d].external, atBroker)

LEMMA OpenInit == OrdersInit => OpenInv
BY DEF OrdersInit, OpenInv, IsRows, Free

\* No imported order that is still live is left out of the list of open ones.
LEMMA ListedAll ==
    ASSUME OpenInv
    PROVE  LiveImported \ {statuses[i].order : i \in OpenStatuses} = {}
<1> SUFFICES ASSUME NEW o \in LiveImported
             PROVE  o \in {statuses[i].order : i \in OpenStatuses}
  OBVIOUS
<1>1. PICK i \in DOMAIN statuses : o = statuses[i].order
  BY DEF LiveImported
<1>2. atBroker[o] \in Live
  BY DEF LiveImported
<1>3. statuses[i].external \in External \cup {"unknown"}
      /\ (statuses[i].external \in Ended => atBroker[o] = statuses[i].external)
  BY <1>1 DEF OpenInv, StatusTrue
<1>4. statuses[i].external \in Live \cup {"unknown"}
  BY <1>2, <1>3 DEF Ended
<1>5. i \in OpenStatuses
  BY <1>4 DEF OpenStatuses, Live
<1> QED BY <1>1, <1>5

LEMMA OpenStep == OpenInv /\ [OrdersNext]_orderVars => OpenInv'
<1> SUFFICES ASSUME OpenInv, [OrdersNext]_orderVars PROVE OpenInv'
  OBVIOUS
<1>1. CASE UNCHANGED orderVars
  BY <1>1 DEF orderVars, OpenInv, StatusTrue
<1>2. CASE BrokerMoves
  <2>1. PICK o \in DOMAIN Placed : \E s \in Onward(atBroker[o]) :
            atBroker' = [atBroker EXCEPT ![o] = s]
    BY <1>2 DEF BrokerMoves
  <2>2. PICK s \in Onward(atBroker[o]) : atBroker' = [atBroker EXCEPT ![o] = s]
    BY <2>1
  <2>3. atBroker[o] \notin Ended
    BY <2>2 DEF Onward, Ended, External, Live
  <2>4. /\ DOMAIN atBroker' = DOMAIN Placed
        /\ \A q, reported : StatusTrue(q, reported, atBroker) => StatusTrue(q, reported, atBroker')
        /\ atBroker' \in [DOMAIN Placed -> External \cup {"none"}]
    <3>0. s \in External
      BY <2>2 DEF Onward, External
    <3>1. \A q : q # o \/ o \notin DOMAIN atBroker => atBroker'[q] = atBroker[q]
      BY <2>2
    <3>2. DOMAIN atBroker' = DOMAIN atBroker
      BY <2>2
    <3> QED BY <2>2, <2>3, <3>0, <3>1, <3>2 DEF StatusTrue, OpenInv
  <2> QED BY <1>2, <2>4 DEF BrokerMoves, OpenInv
<1>3. ASSUME NEW d \in OrderDesks, NEW r, orderDesk' = [orderDesk EXCEPT ![d] = r],
             UNCHANGED <<atBroker, commands, statuses>>,
             r.kind = "command" => "missed" \in DOMAIN r /\ r.missed = {},
             r.kind = "status" => /\ r.external \in External \cup {"unknown"}
                                  /\ StatusTrue(r.order, r.external, atBroker)
      PROVE  OpenInv'
  BY <1>3 DEF OpenInv
<1>4. ASSUME NEW d \in OrderDesks, PrepareCommand(d) PROVE OpenInv'
  <2>1. PICK k \in CommandKeys, p \in DOMAIN Plans :
          orderDesk' = [orderDesk EXCEPT ![d] =
                [kind |-> "command", key |-> k, type |-> "submit_order_plan", plan |-> p,
                 blockers |-> CommandBlockers("submit_order_plan", Plans[p].signed,
                                              Plans[p].orders # <<>>, env),
                 targets |-> {}, missed |-> {}]]
    BY <1>4 DEF PrepareCommand
  <2> QED BY <1>3, <1>4, <2>1 DEF PrepareCommand
<1>5. ASSUME NEW d \in OrderDesks, EmergencyDryRun(d) PROVE OpenInv'
  <2>1. PICK k \in CommandKeys, type \in Emergencies :
          LET listed == IF type = "cancel_open_orders"
                        THEN {statuses[i].order : i \in OpenStatuses} ELSE {}
          IN  orderDesk' = [orderDesk EXCEPT ![d] =
                    [kind |-> "command", key |-> k, type |-> type, plan |-> 0,
                     blockers |-> CommandBlockers(type, FALSE, TRUE, env),
                     targets |-> listed,
                     missed |-> IF type = "cancel_open_orders" THEN LiveImported \ listed
                                ELSE {}]]
    BY <1>5 DEF EmergencyDryRun
  <2> DEFINE listed == IF type = "cancel_open_orders"
                       THEN {statuses[i].order : i \in OpenStatuses} ELSE {}
             missed == IF type = "cancel_open_orders" THEN LiveImported \ listed ELSE {}
             r == [kind |-> "command", key |-> k, type |-> type, plan |-> 0,
                   blockers |-> CommandBlockers(type, FALSE, TRUE, env),
                   targets |-> listed, missed |-> missed]
  <2>2. missed = {}
    BY ListedAll
  <2>3. orderDesk' = [orderDesk EXCEPT ![d] = r]
    BY <2>1
  <2>4. r.kind = "command" /\ "missed" \in DOMAIN r /\ r.missed = {}
    BY <2>2
  <2> HIDE DEF r
  <2> QED BY <1>3, <1>5, <2>3, <2>4 DEF EmergencyDryRun
<1>6. ASSUME NEW d \in OrderDesks, SaveCommand(d) PROVE OpenInv'
  <2>1. commands' = commands
        \/ commands' = Append(commands,
               [f \in (DOMAIN orderDesk[d]) \ {"kind"} |-> orderDesk[d][f]])
    BY <1>6 DEF SaveCommand, SaveUnderKey
  <2> DEFINE row == [f \in (DOMAIN orderDesk[d]) \ {"kind"} |-> orderDesk[d][f]]
  <2>2. row.missed = {}
    BY <1>6 DEF SaveCommand, OpenInv
  <2>3. IsRows(commands') /\ \A i \in DOMAIN commands' : commands'[i].missed = {}
    <3> HIDE DEF row
    <3>1. CASE commands' = commands
      BY <3>1 DEF OpenInv
    <3>2. CASE commands' = Append(commands, row)
      <4>1. IsRows(commands)
        BY DEF OpenInv
      <4>2. /\ IsRows(commands')
            /\ \A i \in DOMAIN commands' :
                  (i \in DOMAIN commands /\ commands'[i] = commands[i]) \/ commands'[i] = row
        BY <3>2, <4>1, RowsAppend
      <4> QED BY <2>2, <4>2 DEF OpenInv
    <3>3. commands' = commands \/ commands' = Append(commands, row)
      BY <2>1 DEF row
    <3> QED BY <3>1, <3>2, <3>3
  <2>4. orderDesk' = [orderDesk EXCEPT ![d] = Free] /\ UNCHANGED <<atBroker, statuses>>
    BY <1>6 DEF SaveCommand
  <2> QED BY <2>3, <2>4 DEF OpenInv, Free
<1>7. ASSUME NEW d \in OrderDesks, ReadOrderStatus(d) PROVE OpenInv'
  <2>0. PICK o \in DOMAIN Placed :
          /\ atBroker[o] # "none"
          /\ \E link \in StatusLinks, reported \in {atBroker[o], "unknown"} :
                orderDesk' = [orderDesk EXCEPT ![d] =
                    [kind |-> "status", order |-> o, external |-> reported,
                     verdict |-> StatusVerdict(CommandFor(link), link, Placed[o])]]
    BY <1>7 DEF ReadOrderStatus
  <2>1. PICK link \in StatusLinks, reported \in {atBroker[o], "unknown"} :
          orderDesk' = [orderDesk EXCEPT ![d] =
                [kind |-> "status", order |-> o, external |-> reported,
                 verdict |-> StatusVerdict(CommandFor(link), link, Placed[o])]]
    BY <2>0
  <2>2. reported \in External \cup {"unknown"} /\ StatusTrue(o, reported, atBroker)
    BY <2>0, <2>1 DEF StatusTrue, Ended, External, OpenInv
  <2> QED BY <1>3, <1>7, <2>1, <2>2 DEF ReadOrderStatus
<1>8. ASSUME NEW d \in OrderDesks, SaveOrderStatus(d) PROVE OpenInv'
  <2> DEFINE row == [order |-> orderDesk[d].order, external |-> orderDesk[d].external,
                     status |-> orderDesk[d].verdict.status,
                     command |-> orderDesk[d].verdict.command,
                     intent |-> orderDesk[d].verdict.intent]
  <2>1. statuses' = statuses \/ statuses' = Append(statuses, row)
    BY <1>8 DEF SaveOrderStatus
  <2>2. row.external \in External \cup {"unknown"} /\ StatusTrue(row.order, row.external, atBroker)
    BY <1>8 DEF SaveOrderStatus, OpenInv
  <2>3. orderDesk' = [orderDesk EXCEPT ![d] = Free] /\ UNCHANGED <<atBroker, commands>>
    BY <1>8 DEF SaveOrderStatus
  <2>4. /\ IsRows(statuses')
        /\ \A i \in DOMAIN statuses' :
              /\ statuses'[i].external \in External \cup {"unknown"}
              /\ StatusTrue(statuses'[i].order, statuses'[i].external, atBroker)
    <3> HIDE DEF row
    <3>1. CASE statuses' = statuses
      BY <3>1 DEF OpenInv
    <3>2. CASE statuses' = Append(statuses, row)
      <4>1. IsRows(statuses)
        BY DEF OpenInv
      <4>2. /\ IsRows(statuses')
            /\ \A i \in DOMAIN statuses' :
                  (i \in DOMAIN statuses /\ statuses'[i] = statuses[i]) \/ statuses'[i] = row
        BY <3>2, <4>1, RowsAppend
      <4> QED BY <2>2, <4>2 DEF OpenInv
    <3> QED BY <2>1, <3>1, <3>2
  <2> QED BY <2>3, <2>4 DEF OpenInv, Free
<1> QED BY <1>1, <1>2, <1>4, <1>5, <1>6, <1>7, <1>8 DEF OrdersNext

\* An emergency cancel names every imported order that is still live at the broker
\* (NoOpenOrderMissed), although the stored status of an order is the first one seen and
\* the broker moves on at any time.
THEOREM OpenOrdersNamed == OrdersSpec => []NoOpenOrderMissed
<1>1. OpenInv => NoOpenOrderMissed
  BY DEF OpenInv, NoOpenOrderMissed
<1> QED BY <1>1, OpenInit, OpenStep, PTL DEF OrdersSpec

-----------------------------------------------------------------------------
(***************************************************************************)
(* SampleIsWarned and UnwarnedIsCurrent for any panels, any number of      *)
(* changes, actions and failed requests.                                   *)
(*                                                                         *)
(* The argument: a reading replaces a panel's rows or raises its warning,  *)
(* and a warning is taken back elsewhere only when an action starts, of a  *)
(* panel that then has rows, or with the row a dry run puts in.  What was  *)
(* never answered and carries no warning was therefore never asked for:    *)
(* the first reading is still out and no other has been applied.           *)
(***************************************************************************)

PageTyped ==
    /\ IsRows(changes)
    /\ DOMAIN shown = Panels
    /\ DOMAIN request = Actions
    /\ \A a \in Actions : request[a].since \in Nat
    /\ asOf \in Nat

NotLive(p) == ~ shown[p].live
Warned(p) == Warning(p) \in warnings

\* What carries no warning and was never answered was not asked for yet.
Unasked ==
    \A p \in Refreshed \ Silent : NotLive(p) /\ ~ Warned(p) => asOf = 0

SamplesFlagged ==
    \A p \in Panels \ Silent : NotLive(p) /\ ~ Warned(p) => loading

CurrentRows ==
    \A p \in Refreshed \ (Silent \cup {"researchRuns"}) :
        ~ NotLive(p) /\ ~ Warned(p) /\ (p = "runSchedules" => request["tick"].at = "idle")
        => 1..asOf \subseteq shown[p].rows

PageInv == PageTyped /\ SamplesFlagged /\ Unasked /\ CurrentRows

\* The warnings an action clears are its own panel's; no two other panels share one.
LEMMA WarningOfAction ==
    \A p \in AllPanels, a \in Actions :
        Warning(p) = OwnWarning(a) =>
            (a = "advance" /\ p = "runs") \/ (a = "tick" /\ p = "runSchedules")
BY DEF AllPanels, Actions, Refreshing, Warning, OwnWarning

LEMMA WarningUnshared ==
    /\ \A p \in AllPanels : Warning(p) = "researchRuns" <=> p = "researchRuns"
    /\ \A p, q \in AllPanels : Warning(p) = Warning(q) /\ p \in {"budgets", "runs"} => p = q
BY DEF AllPanels, Warning

\* A reading leaves a panel it asked for live with rows from its start on, or warned of;
\* a panel it did not ask for keeps its rows and its warning.
LEMMA ReadingApplied ==
    ASSUME NEW asked \in {Panels, Refreshed}, NEW since \in Nat, NEW emptied,
           PageTyped, Panels \subseteq AllPanels,
           Apply(asked, since, emptied)
    PROVE  /\ DOMAIN shown' = Panels
           /\ asOf' = since
           /\ \A p \in asked \ Silent :
                 \/ Warning(p) \in warnings'
                 \/ shown'[p].live /\ 1..since \subseteq shown'[p].rows
           /\ \A p \in (Panels \ asked) \ Silent :
                 shown'[p] = shown[p] /\ (Warned(p) => Warning(p) \in warnings')
<1>1. PICK rejected \in SUBSET asked :
         \E upTo \in [asked -> since..Len(changes)] :
            /\ shown' = ShownAfter(asked, rejected, upTo, emptied)
            /\ warnings' = WarningsAfter(asked, rejected)
            /\ asOf' = since
  BY DEF Apply, Answers
<1>2. PICK upTo \in [asked -> since..Len(changes)] :
            /\ shown' = ShownAfter(asked, rejected, upTo, emptied)
            /\ warnings' = WarningsAfter(asked, rejected)
            /\ asOf' = since
  BY <1>1
<1>3. asked \subseteq Panels
  BY DEF Refreshed
<1>4. DOMAIN shown' = Panels
  BY <1>2 DEF ShownAfter
<1>5. ASSUME NEW p \in asked \ Silent
      PROVE  \/ Warning(p) \in warnings'
             \/ shown'[p].live /\ 1..since \subseteq shown'[p].rows
  <2>1. CASE p \in rejected
    BY <1>2, <2>1 DEF WarningsAfter
  <2>2. CASE p \notin rejected
    <3>1. shown'[p] = [live |-> TRUE, rows |-> 1..upTo[p]]
      BY <1>2, <1>3, <2>2 DEF ShownAfter
    <3>2. upTo[p] \in Int /\ since <= upTo[p]
      BY <1>2 DEF PageTyped, IsRows
    <3>3. 1..since \subseteq 1..upTo[p]
      BY <3>2
    <3> QED BY <3>1, <3>3
  <2> QED BY <2>1, <2>2
<1>6. ASSUME NEW p \in (Panels \ asked) \ Silent
      PROVE  shown'[p] = shown[p] /\ (Warned(p) => Warning(p) \in warnings')
  <2>1. shown'[p] = shown[p]
    BY <1>1, <1>2, <1>3, <1>6 DEF ShownAfter
  <2>2. p \in {"budgets", "runs"} /\ p \in AllPanels /\ asked \subseteq AllPanels
    BY <1>3, <1>6 DEF Refreshed
  <2>3. \A q \in asked : Warning(p) # Warning(q)
    BY <1>6, <2>2, WarningUnshared
  <2>4. Warned(p) => Warning(p) \in warnings'
    BY <1>2, <2>3 DEF WarningsAfter, Warned
  <2> QED BY <2>1, <2>4
<1> QED BY <1>2, <1>4, <1>5, <1>6

LEMMA PageInit == DashboardInit => PageInv
<1> SUFFICES ASSUME DashboardInit PROVE PageInv
  OBVIOUS
<1>1. IsRows(changes)
  <2>1. changes = <<>> \/ \E c \in Controls : changes = <<c>>
    BY DEF DashboardInit
  <2>2. IsRows(<<>>)
    BY DEF IsRows
  <2>3. ASSUME NEW c PROVE IsRows(<<c>>)
    <3>1. \A s : IsRows(s) => IsRows(Append(s, c))
      BY RowsAppend
    <3>2. IsRows(Append(<<>>, c))
      BY <2>2, <3>1, Zenon
    <3> QED BY <3>2
  <2> QED BY <2>1, <2>2, <2>3
<1> QED BY <1>1 DEF DashboardInit, PageInv, PageTyped, SamplesFlagged, Unasked, CurrentRows, Idle,
                   Nothing, NotLive, Warned, Refreshed

\* A step that applies a reading of all panels it concerns.
LEMMA PageRead ==
    ASSUME PageInv, Panels \subseteq AllPanels,
           NEW asked \in {Panels, Refreshed}, NEW since \in Nat, NEW emptied,
           Apply(asked, since, emptied), UNCHANGED changes,
           (asked = Refreshed /\ loading' = loading) \/ (asked = Panels /\ loading' = FALSE),
           DOMAIN request' = Actions, \A a \in Actions : request'[a].since \in Nat
    PROVE  PageInv'
<1>1. PageTyped
  BY DEF PageInv
<1>2. /\ DOMAIN shown' = Panels
      /\ asOf' = since
      /\ \A p \in asked \ Silent :
            \/ Warning(p) \in warnings'
            \/ shown'[p].live /\ 1..since \subseteq shown'[p].rows
      /\ \A p \in (Panels \ asked) \ Silent :
            shown'[p] = shown[p] /\ (Warned(p) => Warning(p) \in warnings')
  BY <1>1, ReadingApplied
<1>3. PageTyped'
  BY <1>1, <1>2 DEF PageTyped
<1>4. Refreshed \subseteq asked
  BY DEF Refreshed
<1>5. SamplesFlagged'
  BY <1>2, <1>4 DEF PageInv, SamplesFlagged, NotLive, Warned, Refreshed
<1>6. Unasked'
  BY <1>2, <1>4 DEF Unasked, NotLive, Warned
<1>7. CurrentRows'
  BY <1>2, <1>4 DEF CurrentRows, NotLive, Warned
<1> QED BY <1>3, <1>5, <1>6, <1>7 DEF PageInv

LEMMA PageStep == PageInv /\ [DashboardNext]_pageVars => PageInv'
<1> SUFFICES ASSUME PageInv, [DashboardNext]_pageVars PROVE PageInv'
  OBVIOUS
<1> USE DashboardAssumption DEF PageInv
<1>1. CASE UNCHANGED pageVars
  BY <1>1 DEF pageVars, PageTyped, SamplesFlagged, Unasked, CurrentRows, NotLive, Warned
<1>2. CASE FirstReading
  <2>1. Apply(Panels, 0, {"paperAccount"}) /\ loading' = FALSE /\ UNCHANGED <<changes, request>>
    BY <1>2 DEF FirstReading
  <2> QED BY <2>1, PageRead DEF PageTyped
<1>3. CASE OthersChange
  <2>1. PICK c \in Controls : changes' = Append(changes, c)
    BY <1>3 DEF OthersChange
  <2>2. IsRows(changes')
    BY <2>1, RowsAppend DEF PageTyped
  <2> QED BY <1>3, <2>2 DEF OthersChange, PageTyped, SamplesFlagged, Unasked, CurrentRows, NotLive, Warned
<1>4. ASSUME NEW a \in Actions, Click(a) PROVE PageInv'
  <2>1. /\ request' = [request EXCEPT ![a] = [Idle EXCEPT !.at = "sent"]]
        /\ warnings' = warnings \ {OwnWarning(a)}
        /\ UNCHANGED <<changes, shown, loading, asOf>>
    BY <1>4 DEF Click
  <2>2. PageTyped'
    BY <2>1 DEF PageTyped, Idle
  <2>3. \A p \in Panels : Warned(p) /\ Warning(p) \notin warnings' =>
            ~ NotLive(p) /\ (p = "runs" \/ (p = "runSchedules" /\ a = "tick"))
    <3> SUFFICES ASSUME NEW p \in Panels, Warned(p), Warning(p) \notin warnings'
                 PROVE  ~ NotLive(p) /\ (p = "runs" \/ (p = "runSchedules" /\ a = "tick"))
      OBVIOUS
    <3>1. Warning(p) = OwnWarning(a)
      BY <2>1 DEF Warned
    <3>2. (a = "advance" /\ p = "runs") \/ (a = "tick" /\ p = "runSchedules")
      BY <3>1, WarningOfAction
    <3>3. Enabled(a)
      BY <1>4 DEF Click
    <3> QED BY <3>2, <3>3 DEF Enabled, CanAdvance, CanTick, Answered, NotLive
  <2>4. SamplesFlagged' /\ Unasked'
    BY <2>1, <2>3 DEF SamplesFlagged, Unasked, NotLive, Warned, Refreshed
  <2>5. CurrentRows'
    <3>1. a = "tick" => request'["tick"].at = "sent"
      BY <2>1 DEF PageTyped, Idle
    <3>2. a # "tick" => request'["tick"] = request["tick"]
      BY <2>1 DEF PageTyped
    <3> QED BY <2>1, <2>3, <3>1, <3>2 DEF CurrentRows, NotLive, Warned, Refreshed
  <2> QED BY <2>2, <2>4, <2>5
<1>5. ASSUME NEW a \in Actions, Handled(a) PROVE PageInv'
  <2>1. PICK c : changes' = Append(changes, c)
    BY <1>5 DEF Handled
  <2>2. /\ request' = [request EXCEPT ![a].at = "handled", ![a].row = Len(changes) + 1]
        /\ UNCHANGED <<shown, warnings, loading, asOf>> /\ request[a].at = "sent"
    BY <1>5 DEF Handled
  <2>3. PageTyped'
    BY <2>1, <2>2, RowsAppend DEF PageTyped
  <2>4. request'["tick"].at = "idle" => request["tick"].at = "idle"
    <3>1. CASE a = "tick"
      <4>1. request'["tick"].at = "handled"
        BY <2>2, <3>1 DEF PageTyped
      <4> QED BY <4>1
    <3>2. CASE a # "tick"
      <4>1. "tick" \in Actions
        BY DEF Actions, Refreshing
      <4>2. request'["tick"] = request["tick"]
        BY <2>2, <3>2, <4>1 DEF PageTyped
      <4> QED BY <4>2
    <3> QED BY <3>1, <3>2
  <2> QED BY <2>2, <2>3, <2>4 DEF SamplesFlagged, Unasked, CurrentRows, NotLive, Warned
<1>6. ASSUME NEW a \in Actions, Returned(a) PROVE PageInv'
  <2>1. /\ request' = [request EXCEPT ![a] =
                          IF a \in Refreshing
                          THEN [Idle EXCEPT !.at = "reading", !.since = Len(changes)] ELSE Idle]
        /\ UNCHANGED <<changes, loading, asOf>> /\ request[a].at = "handled"
        /\ warnings' = IF a = "baseline" THEN warnings \ {"researchRuns"} ELSE warnings
    BY <1>6 DEF Returned
  <2>2. /\ DOMAIN shown' = Panels
        /\ \A p \in Panels : /\ ~ NotLive(p) => shown'[p].live
                             /\ shown[p].rows \subseteq shown'[p].rows
                             /\ p \notin Receivers(a) => shown'[p] = shown[p]
                             /\ p \in Receivers(a) => shown'[p].live
    BY <1>6 DEF Returned, NotLive
  <2>3. PageTyped'
    BY <2>1, <2>2 DEF PageTyped, Idle, IsRows
  <2>4. \A p \in Panels : Warned(p) /\ Warning(p) \notin warnings' =>
            p = "researchRuns" /\ shown'[p].live
    BY <2>1, <2>2, WarningUnshared DEF Warned, Receivers
  <2>5. \A p \in Panels : ~ shown'[p].live => NotLive(p)
    BY <2>2
  <2>6. SamplesFlagged' /\ Unasked'
    BY <2>1, <2>4, <2>5 DEF SamplesFlagged, Unasked, NotLive, Warned, Refreshed
  <2>7. request'["tick"].at = "idle" => request["tick"].at = "idle"
    BY <2>1 DEF PageTyped, Refreshing, Idle
  <2>8. ASSUME NEW p \in Refreshed \ (Silent \cup {"researchRuns"}),
               shown'[p].live, Warning(p) \notin warnings',
               p = "runSchedules" => request'["tick"].at = "idle"
        PROVE  1..asOf' \subseteq shown'[p].rows
    <3>1. ~ Warned(p) /\ (p = "runSchedules" => request["tick"].at = "idle")
      BY <2>4, <2>7, <2>8 DEF Refreshed
    <3>2. CASE NotLive(p)
      BY <2>1, <3>1, <3>2 DEF Unasked
    <3>3. CASE ~ NotLive(p)
      BY <2>1, <2>2, <3>1, <3>3 DEF CurrentRows, Refreshed
    <3> QED BY <3>2, <3>3
  <2> QED BY <2>3, <2>6, <2>8 DEF CurrentRows, NotLive, Warned
<1>7. ASSUME NEW a \in Actions, Failed(a) PROVE PageInv'
  <2>1. /\ request' = [request EXCEPT ![a] = Idle]
        /\ warnings' = warnings \cup {OwnWarning(a)}
        /\ UNCHANGED <<changes, shown, loading, asOf>>
    BY <1>7 DEF Failed
  <2>2. PageTyped'
    BY <2>1 DEF PageTyped, Idle
  <2>3. SamplesFlagged' /\ Unasked'
    BY <2>1 DEF SamplesFlagged, Unasked, NotLive, Warned
  <2>4. Warning("runSchedules") \notin warnings' =>
            (request'["tick"].at = "idle" => request["tick"].at = "idle")
    BY <2>1 DEF PageTyped, Warning, OwnWarning
  <2>5. CurrentRows'
    BY <2>1, <2>4 DEF CurrentRows, NotLive, Warned
  <2> QED BY <2>2, <2>3, <2>5
<1>8. ASSUME NEW a \in Actions, Refresh(a) PROVE PageInv'
  <2>1. /\ Apply(Refreshed, request[a].since, {}) /\ UNCHANGED <<changes, loading>>
        /\ request' = [request EXCEPT ![a] = Idle]
    BY <1>8 DEF Refresh
  <2>2. DOMAIN request' = Actions /\ \A b \in Actions : request'[b].since \in Nat
    BY <2>1 DEF PageTyped, Idle
  <2> QED BY <2>1, <2>2, PageRead DEF PageTyped
<1> QED BY <1>1, <1>2, <1>3, <1>4, <1>5, <1>6, <1>7, <1>8 DEF DashboardNext

\* No sample passes for the server's data once the page has been read (SampleIsWarned),
\* whatever requests fail and however actions and readings overlap.
THEOREM SamplesWarned == DashboardSpec => []SampleIsWarned
<1>1. PageInv => SampleIsWarned
  BY DEF PageInv, SamplesFlagged, SampleIsWarned, Shows, NotLive, Warned
<1> QED BY <1>1, PageInit, PageStep, PTL DEF DashboardSpec

\* A panel that is read again and carries no warning reports every change made before the
\* reading applied last began (UnwarnedIsCurrent).
THEOREM UnwarnedCurrent == DashboardSpec => []UnwarnedIsCurrent
<1>1. PageInv => UnwarnedIsCurrent
  BY DEF PageInv, CurrentRows, UnwarnedIsCurrent, NotLive, Warned
<1> QED BY <1>1, PageInit, PageStep, PTL DEF DashboardSpec

=============================================================================
