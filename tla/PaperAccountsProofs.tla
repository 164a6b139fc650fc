-------------------------- MODULE PaperAccountsProofs --------------------------
(***************************************************************************)
(* Theorems of PaperAccounts for any number of workers, accounts, events   *)
(* and requests.                                                           *)
(*                                                                         *)
(* The argument: the events of an account are numbered 1..n, so a worker   *)
(* that read n and saves n + 1 either finds the number free, and then no   *)
(* event came in between, or is refused by the index.  An account has no   *)
(* event before its own seed, and only one worker records that; everything *)
(* a promotion does after its check knows the seed to be there, and events *)
(* are never removed.                                                      *)
(***************************************************************************)
EXTENDS PaperAccounts, FiniteSetTheorems, TLAPS

DeskRecord ==
    [type: EventTypes, key: AccountKeys, body: AccountBodies, takeover: Nat, expected: Nat,
     id: Nat, seq: Nat, row: AccountRow]

ATypes ==
    /\ accounts \in Seq(AccountRow)
    /\ accountEvents \in Seq(AccountEvent)
    /\ seat \in [AccountWorkers -> {"idle"} \cup SeedSteps \cup PromoteSteps \cup AppendSteps]
    /\ desk \in [AccountWorkers -> DeskRecord \cup {NoDesk}]

\* The events of an account, their numbers, and whether one is the seed.
Of(a, ev) == {i \in DOMAIN ev : ev[i].account = a}
Seqs(a, ev) == {ev[i].seq : i \in Of(a, ev)}
Seeded(a, ev) == \E i \in Of(a, ev) : ev[i].type = "explicit_seed"

Chained(a, ev) ==
    /\ Seqs(a, ev) = 1..Cardinality(Of(a, ev))
    /\ \A i \in Of(a, ev) : ev[i].type = "explicit_seed" <=> ev[i].seq = 1

AllChained == \A a \in Nat : Chained(a, accountEvents)

\* What a worker holds at each step.
Knows(step, d, acc, ev) ==
    /\ step # "idle" => d \in DeskRecord
    /\ step # "idle" /\ d.type = "explicit_seed" => d.row.status = "seeded"
    /\ step \in SeedSteps => d.type = "explicit_seed"
    /\ step \in PromoteSteps => d.type = "account_promoted"
    /\ step \in PromoteSteps \cup AppendSteps =>
          d.id \in DOMAIN acc /\ d.row.scope = acc[d.id].scope
    /\ step \in {"promote_scope", "promote_save"} \cup AppendSteps
          /\ d.type = "account_promoted" => Seeded(d.id, ev)
    /\ step \in {"event_find", "event_read", "event_save"} /\ d.type = "explicit_seed" =>
          Of(d.id, ev) = {}
    /\ step = "event_save" =>
          /\ d.seq \in 1..(Cardinality(Of(d.id, ev)) + 1)
          /\ d.type = "explicit_seed" <=> d.seq = 1

AllKnow == \A w \in AccountWorkers : Knows(seat[w], desk[w], accounts, accountEvents)

\* Two workers never record the seed of one account.
Records(step, d) ==
    step \in {"event_find", "event_read", "event_save"} /\ d.type = "explicit_seed"

SeedsApart ==
    \A v, w \in AccountWorkers :
        v # w /\ Records(seat[v], desk[v]) /\ Records(seat[w], desk[w]) => desk[v].id # desk[w].id

ActiveSeeded ==
    \A a \in DOMAIN accounts : accounts[a].status = "active" => Seeded(a, accountEvents)

EventsOfAccounts == \A i \in DOMAIN accountEvents : accountEvents[i].account \in DOMAIN accounts

AInv == ATypes /\ AllChained /\ AllKnow /\ SeedsApart /\ ActiveSeeded /\ EventsOfAccounts

-----------------------------------------------------------------------------
(* Events. *)

LEMMA OfFinite ==
    ASSUME NEW ev \in Seq(AccountEvent), NEW a
    PROVE  IsFiniteSet(Of(a, ev)) /\ Cardinality(Of(a, ev)) \in Nat
<1>1. Len(ev) \in Nat /\ DOMAIN ev = 1..Len(ev)
  OBVIOUS
<1>2. IsFiniteSet(1..Len(ev))
  BY <1>1, FS_Interval
<1>3. Of(a, ev) \subseteq 1..Len(ev)
  BY <1>1 DEF Of
<1> QED BY <1>2, <1>3, FS_Subset, FS_CardinalityType

\* An event is appended: what it adds to its own account.
LEMMA AppendOwn ==
    ASSUME NEW ev \in Seq(AccountEvent), NEW e \in AccountEvent, NEW a, e.account = a
    PROVE  /\ Of(a, Append(ev, e)) = Of(a, ev) \cup {Len(ev) + 1}
           /\ Cardinality(Of(a, Append(ev, e))) = Cardinality(Of(a, ev)) + 1
           /\ Seqs(a, Append(ev, e)) = Seqs(a, ev) \cup {e.seq}
<1> DEFINE more == Append(ev, e)
           n == Len(ev) + 1
<1>1. /\ \A i \in DOMAIN ev : more[i] = ev[i] /\ i # n
      /\ more[n] = e /\ DOMAIN more = DOMAIN ev \cup {n}
  OBVIOUS
<1> HIDE DEF more, n
<1>2. Of(a, more) = Of(a, ev) \cup {n}
  BY <1>1 DEF Of
<1>3. n \notin Of(a, ev)
  BY <1>1 DEF Of
<1>4. Cardinality(Of(a, more)) = Cardinality(Of(a, ev)) + 1
  BY <1>2, <1>3, OfFinite, FS_AddElement
<1>5. \A i \in Of(a, ev) : more[i] = ev[i]
  BY <1>1 DEF Of
<1>6. Seqs(a, more) = Seqs(a, ev) \cup {e.seq}
  BY <1>1, <1>2, <1>5 DEF Seqs
<1> QED BY <1>2, <1>4, <1>6 DEF more, n

\* What it leaves alone.
LEMMA AppendEvent ==
    ASSUME NEW ev \in Seq(AccountEvent), NEW e \in AccountEvent, NEW a
    PROVE  /\ e.account # a => /\ Of(a, Append(ev, e)) = Of(a, ev)
                               /\ Seqs(a, Append(ev, e)) = Seqs(a, ev)
           /\ \A i \in DOMAIN ev : Append(ev, e)[i] = ev[i] /\ i # Len(ev) + 1
           /\ Append(ev, e)[Len(ev) + 1] = e
           /\ DOMAIN Append(ev, e) = DOMAIN ev \cup {Len(ev) + 1}
           /\ Append(ev, e) \in Seq(AccountEvent)
<1> DEFINE more == Append(ev, e)
           n == Len(ev) + 1
<1>1. /\ \A i \in DOMAIN ev : more[i] = ev[i] /\ i # n
      /\ more[n] = e /\ DOMAIN more = DOMAIN ev \cup {n} /\ more \in Seq(AccountEvent)
  OBVIOUS
<1> HIDE DEF more, n
<1>3. ASSUME e.account # a
      PROVE  Of(a, more) = Of(a, ev) /\ Seqs(a, more) = Seqs(a, ev)
  <2>1. Of(a, more) = Of(a, ev)
    BY <1>1, <1>3 DEF Of
  <2>2. \A i \in Of(a, ev) : more[i] = ev[i]
    BY <1>1 DEF Of
  <2> QED BY <2>1, <2>2 DEF Seqs
<1> QED BY <1>1, <1>3 DEF more, n

\* The latest event has the highest number, which is how many there are.
LEMMA LatestIsLast ==
    ASSUME AInv, NEW a \in Nat
    PROVE  /\ LatestEventOf(a) = 0 <=> Of(a, accountEvents) = {}
           /\ LatestEventOf(a) # 0 =>
                 /\ LatestEventOf(a) \in Of(a, accountEvents)
                 /\ accountEvents[LatestEventOf(a)].seq = Cardinality(Of(a, accountEvents))
<1> DEFINE mine == Of(a, accountEvents)
           n == Cardinality(mine)
<1>1. accountEvents \in Seq(AccountEvent) /\ n \in Nat /\ IsFiniteSet(mine)
  BY OfFinite DEF AInv, ATypes
<1>2. Seqs(a, accountEvents) = 1..n
  BY DEF AInv, AllChained, Chained
<1>3. mine \subseteq DOMAIN accountEvents /\ 0 \notin mine
  BY <1>1 DEF Of
<1>4. LatestEventOf(a) = IF mine = {} THEN 0
         ELSE CHOOSE i \in mine : \A j \in mine : accountEvents[j].seq <= accountEvents[i].seq
  BY Zenon DEF LatestEventOf, EventsOfAccount, Of
<1>5. CASE mine = {}
  BY <1>4, <1>5
<1>6. CASE mine # {}
  <2>1. n # 0
    BY <1>1, <1>6, FS_EmptySet
  <2> HIDE DEF n
  <2>2. PICK top \in mine : accountEvents[top].seq = n
    BY <1>1, <1>2, <2>1 DEF Seqs
  <2>3. \A j \in mine : accountEvents[j].seq \in 1..n
    BY <1>2 DEF Seqs
  <2>4. \A j \in mine : accountEvents[j].seq <= accountEvents[top].seq
    BY <1>1, <2>2, <2>3
  <2> DEFINE last == CHOOSE i \in mine :
                        \A j \in mine : accountEvents[j].seq <= accountEvents[i].seq
  <2>5. last \in mine /\ \A j \in mine : accountEvents[j].seq <= accountEvents[last].seq
    BY <2>4
  <2>6. LatestEventOf(a) = last
    BY <1>4, <1>6
  <2> HIDE DEF last
  <2>7. accountEvents[last].seq = n
    BY <1>1, <2>2, <2>3, <2>5
  <2> QED BY <1>3, <1>6, <2>5, <2>6, <2>7 DEF n
<1> QED BY <1>5, <1>6

-----------------------------------------------------------------------------
(* What a move of one worker, and of the rows, disturbs. *)

Steps == {"idle"} \cup SeedSteps \cup PromoteSteps \cup AppendSteps

\* A record of a seed at the new step does not name the account of another's.
ApartAt(w, step, d) ==
    Records(step, d) =>
        \A v \in AccountWorkers \ {w} : Records(seat[v], desk[v]) => desk[v].id # d.id

LEMMA MoveTypes ==
    ASSUME AInv, NEW w \in AccountWorkers, NEW step \in Steps,
           NEW d \in DeskRecord \cup {NoDesk}, Move(w, step, d)
    PROVE  /\ seat' \in [AccountWorkers -> Steps]
           /\ desk' \in [AccountWorkers -> DeskRecord \cup {NoDesk}]
           /\ \A v \in AccountWorkers : seat'[v] = IF v = w THEN step ELSE seat[v]
           /\ \A v \in AccountWorkers : desk'[v] = IF v = w THEN d ELSE desk[v]
<1>1. /\ seat \in [AccountWorkers -> Steps]
      /\ desk \in [AccountWorkers -> DeskRecord \cup {NoDesk}]
  BY DEF AInv, ATypes, Steps
<1> QED BY <1>1 DEF Move

LEMMA MoveApart ==
    ASSUME AInv, NEW w \in AccountWorkers, NEW step \in Steps,
           NEW d \in DeskRecord \cup {NoDesk}, Move(w, step, d), ApartAt(w, step, d)
    PROVE  SeedsApart'
<1>1. /\ \A v \in AccountWorkers : seat'[v] = IF v = w THEN step ELSE seat[v]
      /\ \A v \in AccountWorkers : desk'[v] = IF v = w THEN d ELSE desk[v]
  BY MoveTypes
<1>2. SUFFICES ASSUME NEW u \in AccountWorkers, NEW v \in AccountWorkers, u # v,
                      Records(seat'[u], desk'[u]), Records(seat'[v], desk'[v])
               PROVE  desk'[u].id # desk'[v].id
  BY DEF SeedsApart, Records
<1>3. CASE u = w
  BY <1>1, <1>2, <1>3 DEF ApartAt
<1>4. CASE v = w
  BY <1>1, <1>2, <1>4 DEF ApartAt
<1>5. CASE u # w /\ v # w
  BY <1>1, <1>2, <1>5 DEF AInv, SeedsApart
<1> QED BY <1>3, <1>4, <1>5

\* A worker moves, nothing is saved.
LEMMA WorkerMoves ==
    ASSUME AInv, NEW w \in AccountWorkers, NEW step \in Steps,
           NEW d \in DeskRecord \cup {NoDesk}, Move(w, step, d),
           Knows(step, d, accounts, accountEvents), ApartAt(w, step, d),
           UNCHANGED <<accounts, accountEvents>>
    PROVE  AInv'
<1>1. /\ \A v \in AccountWorkers : seat'[v] = IF v = w THEN step ELSE seat[v]
      /\ \A v \in AccountWorkers : desk'[v] = IF v = w THEN d ELSE desk[v]
      /\ ATypes'
  BY MoveTypes DEF AInv, ATypes, Steps
<1>2. AllKnow'
  BY <1>1 DEF AInv, AllKnow
<1>3. SeedsApart'
  BY MoveApart
<1>4. AllChained' /\ ActiveSeeded' /\ EventsOfAccounts'
  BY DEF AInv, AllChained, ActiveSeeded, EventsOfAccounts
<1> QED BY <1>1, <1>2, <1>3, <1>4 DEF AInv

LEMMA WorkerLeaves ==
    ASSUME AInv, NEW w \in AccountWorkers, Leave(w), UNCHANGED <<accounts, accountEvents>>
    PROVE  AInv'
<1>1. "idle" \in Steps /\ NoDesk \in DeskRecord \cup {NoDesk} /\ Move(w, "idle", NoDesk)
  BY DEF Steps, Leave
<1>2. Knows("idle", NoDesk, accounts, accountEvents) /\ ApartAt(w, "idle", NoDesk)
  BY DEF Knows, ApartAt, Records, SeedSteps, PromoteSteps, AppendSteps
<1> QED BY <1>1, <1>2, WorkerMoves

\* The facts that hold of a worker who is not idle.
LEMMA AtDesk ==
    ASSUME AInv, NEW w \in AccountWorkers, seat[w] # "idle"
    PROVE  /\ desk[w] \in DeskRecord /\ Knows(seat[w], desk[w], accounts, accountEvents)
           /\ desk[w].row \in AccountRow /\ desk[w].row.scope \in Scopes
           /\ desk[w].id \in Nat /\ desk[w].type \in EventTypes
           /\ accounts \in Seq(AccountRow) /\ accountEvents \in Seq(AccountEvent)
<1>1. Knows(seat[w], desk[w], accounts, accountEvents)
  BY DEF AInv, AllKnow
<1>2. desk[w] \in DeskRecord
  BY <1>1 DEF Knows
<1>3. /\ desk[w].row \in AccountRow /\ desk[w].row.scope \in Scopes
      /\ desk[w].id \in Nat /\ desk[w].type \in EventTypes
  BY <1>2 DEF DeskRecord, AccountRow
<1> QED BY <1>1, <1>2, <1>3 DEF AInv, ATypes

\* A worker saves a row over the one it is about: the scope stays, and an active row has
\* its seed.
LEMMA RowSaved ==
    ASSUME AInv, NEW w \in AccountWorkers, seat[w] # "idle", NEW row \in AccountRow,
           NEW id \in DOMAIN accounts, row.scope = accounts[id].scope,
           row.status = "active" => Seeded(id, accountEvents),
           accounts' = [accounts EXCEPT ![id] = row], accountEvents' = accountEvents,
           NEW step \in Steps, NEW d \in DeskRecord \cup {NoDesk}, Move(w, step, d),
           Knows(step, d, accounts', accountEvents), ApartAt(w, step, d)
    PROVE  AInv'
<1>1. accounts \in Seq(AccountRow)
  BY DEF AInv, ATypes
<1>2. /\ accounts' \in Seq(AccountRow) /\ DOMAIN accounts' = DOMAIN accounts
      /\ \A a \in DOMAIN accounts : accounts'[a] = IF a = id THEN row ELSE accounts[a]
  BY <1>1
<1>3. \A a \in DOMAIN accounts : accounts'[a].scope = accounts[a].scope
  BY <1>2
<1>4. /\ \A v \in AccountWorkers : seat'[v] = IF v = w THEN step ELSE seat[v]
      /\ \A v \in AccountWorkers : desk'[v] = IF v = w THEN d ELSE desk[v]
      /\ seat' \in [AccountWorkers -> Steps]
      /\ desk' \in [AccountWorkers -> DeskRecord \cup {NoDesk}]
  BY MoveTypes
<1>5. \A v \in AccountWorkers : Knows(seat[v], desk[v], accounts', accountEvents)
  <2> TAKE v \in AccountWorkers
  <2>1. Knows(seat[v], desk[v], accounts, accountEvents)
    BY DEF AInv, AllKnow
  <2> QED BY <1>2, <1>3, <2>1 DEF Knows
<1>6. AllKnow'
  BY <1>4, <1>5 DEF AllKnow
<1>7. SeedsApart'
  BY MoveApart
<1>8. ActiveSeeded' /\ EventsOfAccounts' /\ AllChained'
  BY <1>2 DEF AInv, ActiveSeeded, EventsOfAccounts, AllChained
<1>9. ATypes'
  BY <1>2, <1>4 DEF AInv, ATypes, Steps
<1> QED BY <1>6, <1>7, <1>8, <1>9 DEF AInv

-----------------------------------------------------------------------------
(* The steps. *)

LEMMA InitHolds == AccountsInit => AInv
<1> SUFFICES ASSUME AccountsInit PROVE AInv
  OBVIOUS
<1>1. /\ accounts = <<>> /\ accountEvents = <<>>
      /\ seat = [w \in AccountWorkers |-> "idle"] /\ desk = [w \in AccountWorkers |-> NoDesk]
  BY DEF AccountsInit
<1>2. ATypes
  BY <1>1 DEF ATypes
<1>3. AllChained
  <2> SUFFICES ASSUME NEW a \in Nat PROVE Chained(a, accountEvents)
    BY DEF AllChained
  <2>1. Of(a, accountEvents) = {} /\ Seqs(a, accountEvents) = {}
    BY <1>1 DEF Of, Seqs
  <2>2. Cardinality(Of(a, accountEvents)) = 0
    BY <2>1, FS_EmptySet
  <2> QED BY <2>1, <2>2 DEF Chained
<1>4. AllKnow
  BY <1>1 DEF AllKnow, Knows, SeedSteps, PromoteSteps, AppendSteps
<1>5. SeedsApart /\ ActiveSeeded /\ EventsOfAccounts
  BY <1>1 DEF SeedsApart, Records, ActiveSeeded, EventsOfAccounts
<1> QED BY <1>2, <1>3, <1>4, <1>5 DEF AInv

LEMMA ReceiveSteps ==
    ASSUME AInv, NEW w \in AccountWorkers, SeedReceive(w) \/ PromoteReceive(w)
    PROVE  AInv'
<1>1. CASE SeedReceive(w)
  <2>1. PICK r \in SeedRequests :
          Move(w, "seed_scan",
               [type |-> "explicit_seed", key |-> r.key, body |-> r.body,
                takeover |-> 0, expected |-> 0, id |-> 0, seq |-> 0,
                row |-> [scope |-> r.scope, status |-> "seeded", latest |-> 0]])
    BY <1>1 DEF SeedReceive
  <2> DEFINE row == [scope |-> r.scope, status |-> "seeded", latest |-> 0]
             d == [type |-> "explicit_seed", key |-> r.key, body |-> r.body,
                   takeover |-> 0, expected |-> 0, id |-> 0, seq |-> 0, row |-> row]
  <2>2. row \in AccountRow /\ row.status = "seeded"
    BY AccountsAssumption DEF AccountRow, AccountStatuses
  <2> HIDE DEF row
  <2>3. d \in DeskRecord /\ d.type = "explicit_seed" /\ d.row = row
    BY <2>2 DEF DeskRecord, EventTypes, AccountKeys, AccountBodies
  <2>4. Move(w, "seed_scan", d)
    BY <2>1 DEF row
  <2> HIDE DEF d
  <2>5. "seed_scan" \in Steps /\ Knows("seed_scan", d, accounts, accountEvents)
    BY <2>2, <2>3 DEF Steps, Knows, SeedSteps, PromoteSteps, AppendSteps
  <2>6. ApartAt(w, "seed_scan", d)
    BY DEF ApartAt, Records
  <2> QED BY <1>1, <2>3, <2>4, <2>5, <2>6, WorkerMoves DEF SeedReceive
<1>2. CASE PromoteReceive(w)
  <2>1. PICK r \in PromoteRequests :
          /\ r.account \in DOMAIN accounts /\ accounts[r.account].status = "seeded"
          /\ Move(w, "promote_event",
                  [type |-> "account_promoted", key |-> r.key, body |-> r.body,
                   takeover |-> r.takeover, expected |-> r.expected,
                   id |-> r.account, seq |-> 0, row |-> accounts[r.account]])
    BY <1>2 DEF PromoteReceive
  <2> DEFINE row == accounts[r.account]
             d == [type |-> "account_promoted", key |-> r.key, body |-> r.body,
                   takeover |-> r.takeover, expected |-> r.expected,
                   id |-> r.account, seq |-> 0, row |-> row]
  <2>2. row \in AccountRow
    BY <2>1 DEF AInv, ATypes
  <2> HIDE DEF row
  <2>3. r.account \in Nat /\ r.takeover \in Nat /\ r.expected \in Nat
    BY AccountsAssumption
  <2>4. d \in DeskRecord /\ d.type = "account_promoted" /\ d.row = row /\ d.id = r.account
    BY <2>2, <2>3 DEF DeskRecord, EventTypes, AccountKeys, AccountBodies
  <2>5. Move(w, "promote_event", d)
    BY <2>1 DEF row
  <2> HIDE DEF d
  <2>6. "promote_event" \in Steps /\ Knows("promote_event", d, accounts, accountEvents)
    BY <2>1, <2>4 DEF Steps, Knows, SeedSteps, PromoteSteps, AppendSteps, row
  <2>7. ApartAt(w, "promote_event", d)
    BY DEF ApartAt, Records
  <2> QED BY <1>2, <2>4, <2>5, <2>6, <2>7, WorkerMoves DEF PromoteReceive
<1> QED BY <1>1, <1>2

LEMMA SeedScanStep ==
    ASSUME AInv, NEW w \in AccountWorkers, SeedScan(w)
    PROVE  AInv'
<1>1. CASE Leave(w)
  BY <1>1, WorkerLeaves DEF SeedScan
<1>2. CASE Move(w, "seed_save", desk[w])
  <2>1. seat[w] = "seed_scan"
    BY DEF SeedScan
  <2>2. "seed_save" \in Steps /\ Knows("seed_save", desk[w], accounts, accountEvents)
    BY <2>1, AtDesk DEF Steps, Knows, SeedSteps, PromoteSteps, AppendSteps
  <2>3. ApartAt(w, "seed_save", desk[w]) /\ desk[w] \in DeskRecord
    BY <2>1, AtDesk DEF ApartAt, Records
  <2> QED BY <1>2, <2>2, <2>3, WorkerMoves DEF SeedScan
<1> QED BY <1>1, <1>2 DEF SeedScan

LEMMA SeedSaveStep ==
    ASSUME AInv, NEW w \in AccountWorkers, SeedSave(w)
    PROVE  AInv'
<1> DEFINE id == Len(accounts) + 1
           row == desk[w].row
           d == [desk[w] EXCEPT !.id = id]
<1>1. /\ seat[w] = "seed_save" /\ accounts' = Append(accounts, row)
      /\ Move(w, "event_find", d) /\ accountEvents' = accountEvents
  BY DEF SeedSave
<1>2. /\ desk[w] \in DeskRecord /\ row \in AccountRow /\ accounts \in Seq(AccountRow)
      /\ desk[w].type = "explicit_seed" /\ row.status = "seeded"
      /\ accountEvents \in Seq(AccountEvent)
  BY <1>1, AtDesk DEF Knows, SeedSteps
<1>3. id \in Nat
  BY <1>2
<1>4. /\ accounts' \in Seq(AccountRow) /\ id \notin DOMAIN accounts
      /\ DOMAIN accounts' = DOMAIN accounts \cup {id} /\ accounts'[id] = row
      /\ \A a \in DOMAIN accounts : accounts'[a] = accounts[a]
  BY <1>1, <1>2
<1> HIDE DEF id
<1>5. d \in DeskRecord /\ d.type = "explicit_seed" /\ d.row = row /\ d.id = id
  BY <1>2, <1>3 DEF DeskRecord
<1> HIDE DEF d, row
<1>6. Of(id, accountEvents) = {}
  BY <1>4 DEF AInv, EventsOfAccounts, Of
<1>7. Knows("event_find", d, accounts', accountEvents)
  BY <1>2, <1>4, <1>5, <1>6 DEF Knows, SeedSteps, PromoteSteps, AppendSteps
<1>8. \A v \in AccountWorkers : Knows(seat[v], desk[v], accounts', accountEvents)
  <2> TAKE v \in AccountWorkers
  <2>1. Knows(seat[v], desk[v], accounts, accountEvents)
    BY DEF AInv, AllKnow
  <2> QED BY <1>4, <2>1 DEF Knows
<1>9. "event_find" \in Steps /\ ApartAt(w, "event_find", d)
  <2>1. "event_find" \in Steps
    BY DEF Steps, AppendSteps
  <2>2. ASSUME NEW v \in AccountWorkers, Records(seat[v], desk[v]) PROVE desk[v].id # id
    <3>1. desk[v].id \in DOMAIN accounts
      BY <2>2 DEF AInv, AllKnow, Knows, Records, AppendSteps
    <3> QED BY <1>4, <3>1
  <2> QED BY <1>5, <2>1, <2>2 DEF ApartAt
<1>10. /\ \A v \in AccountWorkers : seat'[v] = IF v = w THEN "event_find" ELSE seat[v]
       /\ \A v \in AccountWorkers : desk'[v] = IF v = w THEN d ELSE desk[v]
       /\ seat' \in [AccountWorkers -> Steps]
       /\ desk' \in [AccountWorkers -> DeskRecord \cup {NoDesk}]
  BY <1>1, <1>5, <1>9, MoveTypes
<1>11. AllKnow'
  BY <1>1, <1>7, <1>8, <1>10 DEF AllKnow
<1>12. SeedsApart'
  BY <1>1, <1>5, <1>9, MoveApart
<1>13. ActiveSeeded'
  BY <1>1, <1>2, <1>4 DEF AInv, ActiveSeeded
<1>14. EventsOfAccounts' /\ AllChained'
  BY <1>1, <1>4 DEF AInv, EventsOfAccounts, AllChained
<1>15. ATypes'
  BY <1>1, <1>2, <1>4, <1>10 DEF ATypes, Steps
<1> QED BY <1>11, <1>12, <1>13, <1>14, <1>15 DEF AInv

LEMMA PromoteEventStep ==
    ASSUME AInv, NEW w \in AccountWorkers, PromoteEvent(w)
    PROVE  AInv'
<1> DEFINE last == LatestEventOf(desk[w].id)
<1>1. seat[w] = "promote_event" /\ UNCHANGED <<accounts, accountEvents>>
  BY DEF PromoteEvent
<1>2. CASE SeedIsLatest(last, desk[w].expected)
  <2>1. last # 0 /\ accountEvents[last].type = "explicit_seed"
    BY <1>2 DEF SeedIsLatest
  <2>2. desk[w].id \in Nat /\ desk[w] \in DeskRecord
    BY <1>1, AtDesk
  <2>3. last \in Of(desk[w].id, accountEvents)
    BY <2>1, <2>2, LatestIsLast
  <2>4. Seeded(desk[w].id, accountEvents)
    BY <2>1, <2>3 DEF Seeded
  <2>5. "promote_scope" \in Steps /\ Knows("promote_scope", desk[w], accounts, accountEvents)
    BY <1>1, <2>4, AtDesk DEF Steps, Knows, SeedSteps, PromoteSteps, AppendSteps
  <2>6. ApartAt(w, "promote_scope", desk[w])
    BY DEF ApartAt, Records
  <2>7. Move(w, "promote_scope", desk[w])
    BY <1>2 DEF PromoteEvent
  <2> QED BY <1>1, <2>2, <2>5, <2>6, <2>7, WorkerMoves
<1>3. CASE ~SeedIsLatest(last, desk[w].expected)
  BY <1>1, <1>3, WorkerLeaves DEF PromoteEvent
<1> QED BY <1>2, <1>3

LEMMA PromoteScopeStep ==
    ASSUME AInv, NEW w \in AccountWorkers, PromoteScope(w)
    PROVE  AInv'
<1>1. seat[w] = "promote_scope" /\ UNCHANGED <<accounts, accountEvents>>
  BY DEF PromoteScope
<1>2. Leave(w) \/ Move(w, "promote_save", desk[w])
  BY DEF PromoteScope
<1>3. "promote_save" \in Steps /\ Knows("promote_save", desk[w], accounts, accountEvents)
  BY <1>1, AtDesk DEF Steps, Knows, SeedSteps, PromoteSteps, AppendSteps
<1>4. ApartAt(w, "promote_save", desk[w]) /\ desk[w] \in DeskRecord
  BY <1>1, AtDesk DEF ApartAt, Records
<1> QED BY <1>1, <1>2, <1>3, <1>4, WorkerMoves, WorkerLeaves

LEMMA PromoteSaveStep ==
    ASSUME AInv, NEW w \in AccountWorkers, PromoteSave(w)
    PROVE  AInv'
<1> DEFINE row == [desk[w].row EXCEPT !.status = "active"]
           d == [desk[w] EXCEPT !.row = row]
<1>1. /\ seat[w] = "promote_save" /\ accountEvents' = accountEvents
      /\ accounts' = [accounts EXCEPT ![desk[w].id] = row] /\ Move(w, "event_find", d)
  BY DEF PromoteSave
<1>2. /\ desk[w] \in DeskRecord /\ desk[w].row \in AccountRow
      /\ desk[w].type = "account_promoted" /\ desk[w].id \in DOMAIN accounts
      /\ desk[w].row.scope = accounts[desk[w].id].scope
      /\ Seeded(desk[w].id, accountEvents) /\ accounts \in Seq(AccountRow)
  BY <1>1, AtDesk DEF Knows, PromoteSteps
<1>3. row \in AccountRow /\ row.scope = desk[w].row.scope
  BY <1>2 DEF AccountRow, AccountStatuses
<1> HIDE DEF row
<1>4. d \in DeskRecord /\ d.row = row /\ d.id = desk[w].id /\ d.type = "account_promoted"
  BY <1>2, <1>3 DEF DeskRecord
<1> HIDE DEF d
<1>5. accounts'[desk[w].id] = row /\ DOMAIN accounts' = DOMAIN accounts
  BY <1>1, <1>2, <1>3
<1>6. "event_find" \in Steps /\ Knows("event_find", d, accounts', accountEvents)
  BY <1>2, <1>4, <1>5 DEF Steps, Knows, SeedSteps, PromoteSteps, AppendSteps
<1>7. ApartAt(w, "event_find", d)
  BY <1>4 DEF ApartAt, Records
<1> QED BY <1>1, <1>2, <1>3, <1>4, <1>6, <1>7, RowSaved

LEMMA EventFindStep ==
    ASSUME AInv, NEW w \in AccountWorkers, EventFind(w)
    PROVE  AInv'
<1>1. seat[w] = "event_find" /\ UNCHANGED <<accounts, accountEvents>>
  BY DEF EventFind
<1>2. /\ desk[w] \in DeskRecord /\ accountEvents \in Seq(AccountEvent)
      /\ Knows("event_find", desk[w], accounts, accountEvents)
  BY <1>1, AtDesk
<1>3. \/ Move(w, "event_read", desk[w])
      \/ \E i \in EventsOfKey(desk[w].key) :
            Move(w, "link", [desk[w] EXCEPT !.seq = accountEvents[i].seq])
      \/ Leave(w)
  BY DEF EventFind
<1>4. CASE Move(w, "event_read", desk[w])
  <2>1. "event_read" \in Steps /\ Knows("event_read", desk[w], accounts, accountEvents)
    BY <1>2 DEF Steps, Knows, SeedSteps, PromoteSteps, AppendSteps
  <2>2. ApartAt(w, "event_read", desk[w])
    BY <1>1 DEF ApartAt, Records, AInv, SeedsApart
  <2> QED BY <1>1, <1>2, <1>4, <2>1, <2>2, WorkerMoves
<1>5. ASSUME NEW i \in EventsOfKey(desk[w].key),
             Move(w, "link", [desk[w] EXCEPT !.seq = accountEvents[i].seq])
      PROVE  AInv'
  <2> DEFINE n == accountEvents[i].seq
             d == [desk[w] EXCEPT !.seq = n]
  <2>1. n \in Nat
    <3>1. accountEvents[i] \in AccountEvent
      BY <1>2 DEF EventsOfKey
    <3> QED BY <3>1 DEF AccountEvent
  <2> HIDE DEF n
  <2>2. /\ d \in DeskRecord /\ d.type = desk[w].type /\ d.row = desk[w].row
        /\ d.id = desk[w].id
    BY <1>2, <2>1 DEF DeskRecord
  <2>3. Move(w, "link", d)
    BY <1>5 DEF n
  <2> HIDE DEF d
  <2>4. "link" \in Steps /\ Knows("link", d, accounts, accountEvents)
    BY <1>2, <2>2 DEF Steps, Knows, SeedSteps, PromoteSteps, AppendSteps
  <2>5. ApartAt(w, "link", d)
    BY DEF ApartAt, Records
  <2> QED BY <1>1, <2>2, <2>3, <2>4, <2>5, WorkerMoves
<1> QED BY <1>1, <1>3, <1>4, <1>5, WorkerLeaves

LEMMA EventReadStep ==
    ASSUME AInv, NEW w \in AccountWorkers, EventRead(w)
    PROVE  AInv'
<1> DEFINE id == desk[w].id
           n == NextSeqOf(id)
           d == [desk[w] EXCEPT !.seq = n]
           count == Cardinality(Of(id, accountEvents))
<1>1. /\ seat[w] = "event_read" /\ UNCHANGED <<accounts, accountEvents>>
      /\ Move(w, "event_save", d)
  BY DEF EventRead
<1>2. /\ desk[w] \in DeskRecord /\ accountEvents \in Seq(AccountEvent) /\ id \in Nat
      /\ Knows("event_read", desk[w], accounts, accountEvents)
  BY <1>1, AtDesk
<1>3. count \in Nat /\ IsFiniteSet(Of(id, accountEvents))
  BY <1>2, OfFinite
<1>4. n = count + 1
  <2>1. CASE Of(id, accountEvents) = {}
    <3>1. LatestEventOf(id) = 0 /\ count = 0
      BY <1>2, <2>1, LatestIsLast, FS_EmptySet
    <3> QED BY <3>1 DEF NextSeqOf
  <2>2. CASE Of(id, accountEvents) # {}
    <3>1. LatestEventOf(id) # 0 /\ accountEvents[LatestEventOf(id)].seq = count
      BY <1>2, <2>2, LatestIsLast
    <3> QED BY <3>1 DEF NextSeqOf
  <2> QED BY <2>1, <2>2
<1>5. desk[w].type = "explicit_seed" <=> n = 1
  <2>1. desk[w].type = "explicit_seed" => Of(id, accountEvents) = {}
    BY <1>2 DEF Knows
  <2>2. desk[w].type # "explicit_seed" => Of(id, accountEvents) # {}
    BY <1>2 DEF Knows, AppendSteps, DeskRecord, EventTypes, Seeded
  <2>3. Of(id, accountEvents) = {} <=> count = 0
    BY <1>3, FS_EmptySet
  <2> HIDE DEF count, id, n
  <2> QED BY <1>3, <1>4, <2>1, <2>2, <2>3 DEF id
<1> HIDE DEF n
<1>6. /\ d \in DeskRecord /\ d.type = desk[w].type /\ d.row = desk[w].row
      /\ d.id = desk[w].id /\ d.seq = n
  BY <1>2, <1>3, <1>4 DEF DeskRecord
<1> HIDE DEF d
<1>7. "event_save" \in Steps /\ Knows("event_save", d, accounts, accountEvents)
  BY <1>2, <1>3, <1>4, <1>5, <1>6 DEF Steps, Knows, SeedSteps, PromoteSteps, AppendSteps
<1>8. ApartAt(w, "event_save", d)
  BY <1>1, <1>6 DEF ApartAt, Records, AInv, SeedsApart
<1> QED BY <1>1, <1>6, <1>7, <1>8, WorkerMoves

LEMMA EventSaveStep ==
    ASSUME AInv, NEW w \in AccountWorkers, EventSave(w)
    PROVE  AInv'
<1> DEFINE id == desk[w].id
           e == [account |-> id, type |-> desk[w].type, key |-> desk[w].key,
                 body |-> desk[w].body, seq |-> desk[w].seq]
           count == Cardinality(Of(id, accountEvents))
<1>1. seat[w] = "event_save" /\ accounts' = accounts
  BY DEF EventSave
<1>2. /\ desk[w] \in DeskRecord /\ accountEvents \in Seq(AccountEvent)
      /\ accounts \in Seq(AccountRow)
      /\ Knows("event_save", desk[w], accounts, accountEvents)
  BY <1>1, AtDesk
<1>3. CASE UniqueViolated(e)
  BY <1>1, <1>3, WorkerLeaves DEF EventSave
<1>4. CASE ~UniqueViolated(e)
  <2>1. accountEvents' = Append(accountEvents, e) /\ Move(w, "link", desk[w])
    BY <1>4 DEF EventSave
  <2>2. /\ id \in DOMAIN accounts /\ id \in Nat \ {0} /\ count \in Nat
        /\ desk[w].seq \in 1..(count + 1) /\ (desk[w].type = "explicit_seed" <=> desk[w].seq = 1)
    BY <1>2, OfFinite DEF Knows, AppendSteps
  <2>3. /\ e \in AccountEvent /\ e.account = id /\ e.seq = desk[w].seq
        /\ e.type = desk[w].type
    BY <1>2, <2>2 DEF AccountEvent, DeskRecord
  <2>4. desk[w].seq = count + 1
    <3>1. desk[w].seq \notin Seqs(id, accountEvents)
      BY <1>4, <2>3 DEF UniqueViolated, EventsOfAccount, Seqs, Of
    <3>2. Seqs(id, accountEvents) = 1..count
      BY <2>2 DEF AInv, AllChained, Chained
    <3> QED BY <2>2, <3>1, <3>2
  <2> HIDE DEF e
  <2> DEFINE more == Append(accountEvents, e)
  <2>5. /\ Of(id, more) = Of(id, accountEvents) \cup {Len(accountEvents) + 1}
        /\ Cardinality(Of(id, more)) = count + 1
        /\ Seqs(id, more) = Seqs(id, accountEvents) \cup {desk[w].seq}
        /\ \A a : a # id => /\ Of(a, more) = Of(a, accountEvents)
                            /\ Seqs(a, more) = Seqs(a, accountEvents)
    <3>1. /\ Of(id, more) = Of(id, accountEvents) \cup {Len(accountEvents) + 1}
          /\ Cardinality(Of(id, more)) = count + 1
          /\ Seqs(id, more) = Seqs(id, accountEvents) \cup {desk[w].seq}
      <4>1. /\ Of(id, more) = Of(id, accountEvents) \cup {Len(accountEvents) + 1}
            /\ Cardinality(Of(id, more)) = count + 1
            /\ Seqs(id, more) = Seqs(id, accountEvents) \cup {e.seq}
        BY <1>2, <2>3, AppendOwn
      <4> QED BY <2>3, <4>1
    <3>2. ASSUME NEW a, a # id
          PROVE  Of(a, more) = Of(a, accountEvents) /\ Seqs(a, more) = Seqs(a, accountEvents)
      BY <1>2, <2>3, <3>2, AppendEvent
    <3> QED BY <3>1, <3>2
  <2>6. /\ \A i \in DOMAIN accountEvents : more[i] = accountEvents[i]
        /\ more[Len(accountEvents) + 1] = e /\ more \in Seq(AccountEvent)
        /\ DOMAIN more = DOMAIN accountEvents \cup {Len(accountEvents) + 1}
    BY <1>2, <2>3, AppendEvent
  <2> HIDE DEF more
  <2>7. \A a : Of(a, accountEvents) \subseteq Of(a, more)
    BY <2>5
  <2>8. \A a : Seeded(a, accountEvents) => Seeded(a, more)
    BY <2>6, <2>7 DEF Seeded, Of
  <2>9. \A a : \A i \in Of(a, accountEvents) : more[i] = accountEvents[i]
    BY <2>6 DEF Of
  <2>10. ASSUME NEW a \in Nat PROVE Chained(a, more)
    <3>1. Chained(a, accountEvents)
      BY DEF AInv, AllChained
    <3>2. CASE a = id
      <4>1. Seqs(id, more) = 1..(count + 1)
        BY <2>2, <2>4, <2>5, <3>1, <3>2 DEF Chained
      <4>2. \A i \in Of(id, more) : more[i].type = "explicit_seed" <=> more[i].seq = 1
        BY <2>2, <2>3, <2>5, <2>6, <2>9, <3>1, <3>2 DEF Chained
      <4> QED BY <2>5, <3>2, <4>1, <4>2 DEF Chained
    <3>3. CASE a # id
      BY <2>5, <2>9, <3>1, <3>3 DEF Chained
    <3> QED BY <3>2, <3>3
  <2>11. ASSUME NEW v \in AccountWorkers, v # w
         PROVE  Knows(seat[v], desk[v], accounts, more)
    <3>1. Knows(seat[v], desk[v], accounts, accountEvents)
      BY DEF AInv, AllKnow
    <3>2. Records(seat[v], desk[v]) => Of(desk[v].id, more) = {}
      <4> SUFFICES ASSUME Records(seat[v], desk[v]) PROVE Of(desk[v].id, more) = {}
        OBVIOUS
      <4>1. Of(desk[v].id, accountEvents) = {}
        BY <3>1 DEF Knows, Records
      <4>2. desk[v].id # id
        <5>1. CASE desk[w].type = "explicit_seed"
          BY <1>1, <2>11, <5>1 DEF AInv, SeedsApart, Records
        <5>2. CASE desk[w].type # "explicit_seed"
          <6>1. Seeded(id, accountEvents)
            BY <1>2, <5>2 DEF Knows, DeskRecord, EventTypes, AppendSteps
          <6> QED BY <4>1, <6>1 DEF Seeded
        <5> QED BY <5>1, <5>2
      <4> QED BY <2>5, <4>1, <4>2
    <3>3. /\ Cardinality(Of(desk[v].id, accountEvents)) \in Nat
          /\ Cardinality(Of(desk[v].id, more)) \in Nat
          /\ Cardinality(Of(desk[v].id, more)) >= Cardinality(Of(desk[v].id, accountEvents))
      <4>1. CASE desk[v].id = id
        <5>1. count \in Nat /\ Cardinality(Of(id, more)) = count + 1
          BY <2>2, <2>5
        <5> QED BY <4>1, <5>1
      <4>2. CASE desk[v].id # id
        BY <1>2, <2>5, <4>2, OfFinite
      <4> QED BY <4>1, <4>2
    <3> QED BY <2>8, <3>1, <3>2, <3>3 DEF Knows, Records
  <2>12. "link" \in Steps /\ Knows("link", desk[w], accounts, more)
    BY <1>2, <2>8 DEF Steps, Knows, SeedSteps, PromoteSteps, AppendSteps
  <2>13. ApartAt(w, "link", desk[w])
    BY DEF ApartAt, Records
  <2>14. accountEvents' = more
    BY <2>1 DEF more
  <2>15. /\ \A v \in AccountWorkers : seat'[v] = IF v = w THEN "link" ELSE seat[v]
         /\ \A v \in AccountWorkers : desk'[v] = IF v = w THEN desk[w] ELSE desk[v]
         /\ seat' \in [AccountWorkers -> Steps]
         /\ desk' \in [AccountWorkers -> DeskRecord \cup {NoDesk}]
    BY <1>2, <2>1, <2>12, MoveTypes
  <2>16. AllKnow'
    BY <1>1, <2>11, <2>12, <2>14, <2>15 DEF AllKnow
  <2>17. SeedsApart'
    BY <1>2, <2>1, <2>12, <2>13, MoveApart
  <2>18. ActiveSeeded' /\ AllChained'
    BY <1>1, <2>8, <2>10, <2>14 DEF AInv, ActiveSeeded, AllChained
  <2>19. EventsOfAccounts'
    BY <1>1, <2>2, <2>3, <2>6, <2>14 DEF AInv, EventsOfAccounts
  <2>20. ATypes'
    BY <1>1, <1>2, <2>6, <2>14, <2>15 DEF ATypes, Steps
  <2> QED BY <2>16, <2>17, <2>18, <2>19, <2>20 DEF AInv
<1> QED BY <1>3, <1>4

LEMMA LinkStep ==
    ASSUME AInv, NEW w \in AccountWorkers, Link(w)
    PROVE  AInv'
<1> DEFINE row == [desk[w].row EXCEPT !.latest = desk[w].seq]
<1>1. /\ seat[w] = "link" /\ accountEvents' = accountEvents
      /\ accounts' = [accounts EXCEPT ![desk[w].id] = row] /\ Leave(w)
  BY DEF Link
<1>2. /\ desk[w] \in DeskRecord /\ desk[w].row \in AccountRow /\ desk[w].type \in EventTypes
      /\ desk[w].id \in DOMAIN accounts /\ desk[w].row.scope = accounts[desk[w].id].scope
      /\ desk[w].type = "explicit_seed" => desk[w].row.status = "seeded"
      /\ desk[w].type = "account_promoted" => Seeded(desk[w].id, accountEvents)
  BY <1>1, AtDesk DEF Knows, AppendSteps
<1>3. row \in AccountRow /\ row.scope = desk[w].row.scope /\ row.status = desk[w].row.status
  BY <1>2 DEF AccountRow, DeskRecord
<1> HIDE DEF row
<1>4. row.status = "active" => Seeded(desk[w].id, accountEvents)
  BY <1>2, <1>3 DEF EventTypes
<1>5. "idle" \in Steps /\ NoDesk \in DeskRecord \cup {NoDesk} /\ Move(w, "idle", NoDesk)
  BY <1>1 DEF Steps, Leave
<1>6. Knows("idle", NoDesk, accounts', accountEvents) /\ ApartAt(w, "idle", NoDesk)
  BY DEF Knows, ApartAt, Records, SeedSteps, PromoteSteps, AppendSteps
<1> QED BY <1>1, <1>2, <1>3, <1>4, <1>5, <1>6, RowSaved

-----------------------------------------------------------------------------
(* The theorems. *)

LEMMA NextKeeps ==
    ASSUME AInv, AccountsNext
    PROVE  AInv'
<1>1. PICK w \in AccountWorkers :
        \/ SeedReceive(w) \/ SeedScan(w) \/ SeedSave(w)
        \/ PromoteReceive(w) \/ PromoteEvent(w) \/ PromoteScope(w) \/ PromoteSave(w)
        \/ EventFind(w) \/ EventRead(w) \/ EventSave(w) \/ Link(w)
        \/ AccountWorkerStops(w)
  BY DEF AccountsNext
<1>2. CASE SeedReceive(w) \/ PromoteReceive(w)
  BY <1>2, ReceiveSteps
<1>3. CASE SeedScan(w)
  BY <1>3, SeedScanStep
<1>4. CASE SeedSave(w)
  BY <1>4, SeedSaveStep
<1>5. CASE PromoteEvent(w)
  BY <1>5, PromoteEventStep
<1>6. CASE PromoteScope(w)
  BY <1>6, PromoteScopeStep
<1>7. CASE PromoteSave(w)
  BY <1>7, PromoteSaveStep
<1>8. CASE EventFind(w)
  BY <1>8, EventFindStep
<1>9. CASE EventRead(w)
  BY <1>9, EventReadStep
<1>10. CASE EventSave(w)
  BY <1>10, EventSaveStep
<1>11. CASE Link(w)
  BY <1>11, LinkStep
<1>12. CASE AccountWorkerStops(w)
  BY <1>12, WorkerLeaves DEF AccountWorkerStops
<1> QED BY <1>1, <1>2, <1>3, <1>4, <1>5, <1>6, <1>7, <1>8, <1>9, <1>10, <1>11, <1>12

LEMMA StutterKeeps ==
    ASSUME AInv, UNCHANGED accountVars
    PROVE  AInv'
BY DEF AInv, ATypes, AllChained, AllKnow, SeedsApart, ActiveSeeded, EventsOfAccounts, accountVars

\* The invariant: chains without gaps, and what every worker knows.
THEOREM AccountsInvariance == AccountsSpec => []AInv
<1>1. AInv /\ [AccountsNext]_accountVars => AInv'
  BY NextKeeps, StutterKeeps
<1> QED BY InitHolds, <1>1, PTL DEF AccountsSpec

\* The events of every account are numbered 1..n and the seed is the first
\* (appendPaperAccountEvent's read and insert under the unique indexes).
THEOREM Chains == AccountsSpec => []ChainPerAccount
<1>1. AInv => ChainPerAccount
  <2> SUFFICES ASSUME AInv, NEW a \in DOMAIN accounts PROVE Chained(a, accountEvents)
    BY DEF ChainPerAccount, Chained, EventsOfAccount, Of, Seqs
  <2>1. a \in Nat
    BY DEF AInv, ATypes
  <2> QED BY <2>1 DEF AInv, AllChained
<1> QED BY AccountsInvariance, <1>1, PTL

\* An active account has its seed on record (promotePaperAccount).
THEOREM ActiveAccountsSeeded == AccountsSpec => []ActiveWasSeeded
<1>1. AInv => ActiveWasSeeded
  BY DEF AInv, ActiveSeeded, ActiveWasSeeded, Seeded, EventsOfAccount, Of
<1> QED BY AccountsInvariance, <1>1, PTL

-----------------------------------------------------------------------------
(* One seeder: the search for an account of the scope is still right when  *)
(* the row is inserted, and no other save changes the scope of a row.      *)

OneSeeder == \A v, w \in Seeders : v = w

\* No row is of scope x.
Free(x, acc) == \A a \in DOMAIN acc : acc[a].scope # x

SeedingRight ==
    \A w \in AccountWorkers :
        /\ seat[w] \in SeedSteps => w \in Seeders
        /\ seat[w] = "seed_save" => Free(desk[w].row.scope, accounts)

SInv == AInv /\ SeedingRight /\ OneAccountPerScope

\* A worker moves and inserts no account; the scopes and who takes them stay.
LEMMA ScopesStay ==
    ASSUME SInv, NEW w \in AccountWorkers, NEW step, NEW d, Move(w, step, d),
           step \in SeedSteps => w \in Seeders,
           step = "seed_save" => Free(d.row.scope, accounts),
           DOMAIN accounts' = DOMAIN accounts,
           \A a \in DOMAIN accounts : accounts'[a].scope = accounts[a].scope
    PROVE  SeedingRight' /\ OneAccountPerScope'
<1>1. /\ \A v \in AccountWorkers : seat'[v] = IF v = w THEN step ELSE seat[v]
      /\ \A v \in AccountWorkers : desk'[v] = IF v = w THEN d ELSE desk[v]
  BY DEF SInv, AInv, ATypes, Move
<1>2. ASSUME NEW x, Free(x, accounts) PROVE Free(x, accounts')
  BY <1>2 DEF Free
<1>3. ASSUME NEW v \in AccountWorkers
      PROVE  /\ seat'[v] \in SeedSteps => v \in Seeders
             /\ seat'[v] = "seed_save" => Free(desk'[v].row.scope, accounts')
  <2>1. CASE v = w
    BY <1>1, <1>2, <2>1
  <2>2. CASE v # w
    BY <1>1, <1>2, <2>2 DEF SInv, SeedingRight
  <2> QED BY <2>1, <2>2
<1>4. SeedingRight'
  BY <1>3 DEF SeedingRight
<1> QED BY <1>4 DEF SInv, OneAccountPerScope

LEMMA RowsTyped ==
    ASSUME AInv
    PROVE  /\ accounts \in Seq(AccountRow)
           /\ \A a \in DOMAIN accounts : accounts[a].status \in AccountStatuses
<1>1. accounts \in Seq(AccountRow)
  BY DEF AInv, ATypes
<1>2. \A a \in DOMAIN accounts : accounts[a] \in AccountRow
  BY <1>1
<1> QED BY <1>1, <1>2 DEF AccountRow

\* A step that saves no row.
LEMMA NoRowSaved ==
    ASSUME SInv, NEW w \in AccountWorkers, UNCHANGED accounts, NEW step, NEW d, Move(w, step, d),
           step \in SeedSteps => w \in Seeders,
           step = "seed_save" => Free(d.row.scope, accounts)
    PROVE  SeedingRight' /\ OneAccountPerScope'
BY ScopesStay

LEMMA LeavesRight ==
    ASSUME SInv, NEW w \in AccountWorkers, Leave(w), UNCHANGED accounts
    PROVE  SeedingRight' /\ OneAccountPerScope'
<1>1. Move(w, "idle", NoDesk) /\ "idle" \notin SeedSteps /\ "idle" # "seed_save"
  BY DEF Leave, SeedSteps
<1> QED BY <1>1, ScopesStay

\* A row is saved over an account, under its scope.
LEMMA RowSavedRight ==
    ASSUME SInv, NEW w \in AccountWorkers, NEW row, NEW id \in DOMAIN accounts,
           row.scope = accounts[id].scope, accounts' = [accounts EXCEPT ![id] = row],
           NEW step, step \notin SeedSteps, NEW d, Move(w, step, d)
    PROVE  SeedingRight' /\ OneAccountPerScope'
<1>1. accounts \in Seq(AccountRow)
  BY DEF SInv, AInv, ATypes
<1>2. /\ DOMAIN accounts' = DOMAIN accounts
      /\ \A a \in DOMAIN accounts : accounts'[a].scope = accounts[a].scope
  BY <1>1
<1>3. step # "seed_save"
  BY DEF SeedSteps
<1> QED BY <1>1, <1>2, <1>3, ScopesStay

LEMMA SeedSaveRight ==
    ASSUME SInv, OneSeeder, NEW w \in AccountWorkers, SeedSave(w)
    PROVE  SeedingRight' /\ OneAccountPerScope'
<1> DEFINE row == desk[w].row
           d == [desk[w] EXCEPT !.id = Len(accounts) + 1]
<1>1. /\ seat[w] = "seed_save" /\ w \in Seeders
      /\ accounts' = Append(accounts, row) /\ Move(w, "event_find", d)
      /\ accounts \in Seq(AccountRow) /\ desk[w] \in DeskRecord /\ row \in AccountRow
  <2>1. /\ seat[w] = "seed_save" /\ accounts' = Append(accounts, row)
        /\ Move(w, "event_find", d)
    BY DEF SeedSave
  <2> QED BY <2>1, AtDesk DEF SInv, SeedingRight, SeedSteps
<1>3. \A v \in AccountWorkers : seat'[v] = IF v = w THEN "event_find" ELSE seat[v]
  BY <1>1 DEF SInv, AInv, ATypes, Move
<1>4. SeedingRight'
  <2> SUFFICES ASSUME NEW v \in AccountWorkers
               PROVE  /\ seat'[v] \in SeedSteps => v \in Seeders
                      /\ seat'[v] # "seed_save"
    BY DEF SeedingRight
  <2>1. CASE v = w
    BY <1>3, <2>1 DEF SeedSteps
  <2>2. CASE v # w
    BY <1>1, <1>3, <2>2 DEF SInv, SeedingRight, OneSeeder, SeedSteps
  <2> QED BY <2>1, <2>2
<1>5. Free(row.scope, accounts)
  BY <1>1 DEF SInv, SeedingRight
<1> HIDE DEF row
<1>6. /\ DOMAIN accounts' = DOMAIN accounts \cup {Len(accounts) + 1}
      /\ accounts'[Len(accounts) + 1] = row
      /\ \A a \in DOMAIN accounts : accounts'[a] = accounts[a]
  BY <1>1
<1>7. OneAccountPerScope'
  BY <1>5, <1>6 DEF OneAccountPerScope, SInv, Free
<1> QED BY <1>4, <1>7

LEMMA NextRight ==
    ASSUME SInv, OneSeeder, AccountsNext
    PROVE  SInv'
<1>1. PICK w \in AccountWorkers :
        \/ SeedReceive(w) \/ SeedScan(w) \/ SeedSave(w)
        \/ PromoteReceive(w) \/ PromoteEvent(w) \/ PromoteScope(w) \/ PromoteSave(w)
        \/ EventFind(w) \/ EventRead(w) \/ EventSave(w) \/ Link(w)
        \/ AccountWorkerStops(w)
  BY DEF AccountsNext
<1>2. AInv'
  BY NextKeeps DEF SInv
<1>3. SeedingRight' /\ OneAccountPerScope'
  <2>1. CASE SeedReceive(w)
    <3>1. PICK d : Move(w, "seed_scan", d)
      BY <2>1 DEF SeedReceive
    <3>2. w \in Seeders /\ accounts' = accounts /\ "seed_scan" # "seed_save"
      BY <2>1 DEF SeedReceive
    <3> QED BY <3>1, <3>2, NoRowSaved
  <2>2. CASE SeedScan(w)
    <3>1. seat[w] = "seed_scan" /\ accounts' = accounts /\ AInv
      BY <2>2 DEF SeedScan, SInv
    <3>2. w \in Seeders
      BY <3>1 DEF SInv, SeedingRight, SeedSteps
    <3>3. CASE ScopeTaken(desk[w].row.scope)
      BY <2>2, <3>1, <3>3, LeavesRight DEF SeedScan
    <3>4. CASE ~ScopeTaken(desk[w].row.scope)
      <4>1. Move(w, "seed_save", desk[w])
        BY <2>2, <3>4 DEF SeedScan
      <4>2. Free(desk[w].row.scope, accounts)
        BY <3>1, <3>4, RowsTyped DEF ScopeTaken, AccountStatuses, Free
      <4> QED BY <3>1, <3>2, <4>1, <4>2, NoRowSaved
    <3> QED BY <3>3, <3>4
  <2>3. CASE SeedSave(w)
    BY <2>3, SeedSaveRight
  <2>4. CASE PromoteReceive(w)
    <3>1. PICK d : Move(w, "promote_event", d)
      BY <2>4 DEF PromoteReceive
    <3>2. accounts' = accounts /\ "promote_event" \notin SeedSteps /\ "promote_event" # "seed_save"
      BY <2>4 DEF PromoteReceive, SeedSteps
    <3> QED BY <3>1, <3>2, NoRowSaved
  <2>5. CASE PromoteEvent(w)
    <3>1. accounts' = accounts /\ (Move(w, "promote_scope", desk[w]) \/ Leave(w))
      BY <2>5 DEF PromoteEvent
    <3>2. "promote_scope" \notin SeedSteps /\ "promote_scope" # "seed_save"
      BY DEF SeedSteps
    <3> QED BY <3>1, <3>2, NoRowSaved, LeavesRight
  <2>6. CASE PromoteScope(w)
    <3>1. accounts' = accounts /\ (Move(w, "promote_save", desk[w]) \/ Leave(w))
      BY <2>6 DEF PromoteScope
    <3>2. "promote_save" \notin SeedSteps /\ "promote_save" # "seed_save"
      BY DEF SeedSteps
    <3> QED BY <3>1, <3>2, NoRowSaved, LeavesRight
  <2>7. CASE PromoteSave(w)
    <3> DEFINE row == [desk[w].row EXCEPT !.status = "active"]
               d == [desk[w] EXCEPT !.row = row]
    <3>1. /\ seat[w] = "promote_save" /\ accounts' = [accounts EXCEPT ![desk[w].id] = row]
          /\ Move(w, "event_find", d) /\ AInv
      BY <2>7 DEF PromoteSave, SInv
    <3>2. desk[w].id \in DOMAIN accounts /\ row.scope = accounts[desk[w].id].scope
      BY <3>1, AtDesk DEF Knows, PromoteSteps, DeskRecord, AccountRow
    <3>3. "event_find" \notin SeedSteps
      BY DEF SeedSteps
    <3> HIDE DEF row, d
    <3> QED BY <3>1, <3>2, <3>3, RowSavedRight
  <2>8. CASE EventFind(w)
    <3>1. accounts' = accounts
          /\ (Leave(w) \/ \E step \in {"event_read", "link"} : \E d : Move(w, step, d))
      BY <2>8, Zenon DEF EventFind
    <3>2. "event_read" \notin SeedSteps /\ "link" \notin SeedSteps
      BY DEF SeedSteps
    <3>3. CASE Leave(w)
      BY <3>1, <3>3, LeavesRight
    <3>4. CASE \E step \in {"event_read", "link"} : \E d : Move(w, step, d)
      <4>1. PICK step \in {"event_read", "link"} : \E d : Move(w, step, d)
        BY <3>4
      <4>2. PICK d : Move(w, step, d)
        BY <4>1
      <4>3. step \notin SeedSteps /\ step # "seed_save"
        BY <3>2, <4>1
      <4> QED BY <3>1, <4>2, <4>3, NoRowSaved
    <3> QED BY <3>1, <3>3, <3>4
  <2>9. CASE EventRead(w)
    <3>1. PICK d : Move(w, "event_save", d)
      BY <2>9 DEF EventRead
    <3>2. accounts' = accounts /\ "event_save" \notin SeedSteps /\ "event_save" # "seed_save"
      BY <2>9 DEF EventRead, SeedSteps
    <3> QED BY <3>1, <3>2, NoRowSaved
  <2>10. CASE EventSave(w)
    <3>1. accounts' = accounts /\ (Move(w, "link", desk[w]) \/ Leave(w))
      BY <2>10, Zenon DEF EventSave
    <3>2. "link" \notin SeedSteps /\ "link" # "seed_save"
      BY DEF SeedSteps
    <3> QED BY <3>1, <3>2, NoRowSaved, LeavesRight
  <2>11. CASE Link(w)
    <3> DEFINE row == [desk[w].row EXCEPT !.latest = desk[w].seq]
    <3>1. /\ seat[w] = "link" /\ accounts' = [accounts EXCEPT ![desk[w].id] = row]
          /\ Move(w, "idle", NoDesk) /\ AInv
      BY <2>11 DEF Link, Leave, SInv
    <3>2. desk[w].id \in DOMAIN accounts /\ row.scope = accounts[desk[w].id].scope
      BY <3>1, AtDesk DEF Knows, AppendSteps, DeskRecord, AccountRow
    <3>3. "idle" \notin SeedSteps
      BY DEF SeedSteps
    <3> HIDE DEF row
    <3> QED BY <3>1, <3>2, <3>3, RowSavedRight
  <2>12. CASE AccountWorkerStops(w)
    BY <2>12, LeavesRight DEF AccountWorkerStops
  <2> QED BY <1>1, <2>1, <2>2, <2>3, <2>4, <2>5, <2>6, <2>7, <2>8, <2>9, <2>10, <2>11, <2>12
<1> QED BY <1>2, <1>3 DEF SInv

\* With one seeder a scope has one account for good (seedPaperAccount's search for an
\* account of the scope, the retries after a stop and every promotion in progress).
THEOREM OneAccount ==
    ASSUME OneSeeder
    PROVE  AccountsSpec => []OneAccountPerScope
<1>1. AccountsInit => SInv
  <2> SUFFICES ASSUME AccountsInit PROVE SInv
    OBVIOUS
  <2>1. AInv
    BY InitHolds
  <2>2. /\ accounts = <<>> /\ \A w \in AccountWorkers : seat[w] = "idle"
    BY DEF AccountsInit
  <2> QED BY <2>1, <2>2 DEF SInv, SeedingRight, OneAccountPerScope, SeedSteps
<1>2. SInv /\ [AccountsNext]_accountVars => SInv'
  <2>1. ASSUME SInv, UNCHANGED accountVars PROVE SInv'
    <3>1. AInv'
      BY <2>1, StutterKeeps DEF SInv
    <3> QED BY <2>1, <3>1 DEF SInv, SeedingRight, OneAccountPerScope, accountVars
  <2> QED BY <2>1, NextRight
<1>3. SInv => OneAccountPerScope
  BY DEF SInv
<1> QED BY <1>1, <1>2, <1>3, PTL DEF AccountsSpec

=============================================================================
