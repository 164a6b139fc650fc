--------------------------- MODULE PaperAccounts ---------------------------
(***************************************************************************)
(* The life of a paper account before it trades (ControlPlaneService:      *)
(* seedPaperAccount, promotePaperAccount and the event append they share). *)
(*                                                                         *)
(* A request is served by a worker.  Every read and every save of the      *)
(* handler is a step of its own, because nothing holds a transaction over  *)
(* them, and a worker may stop between two steps.  A handler saves back    *)
(* the whole account row it holds in memory.                               *)
(***************************************************************************)
EXTENDS Integers, Sequences, FiniteSets

CONSTANTS
    Seeders,            \* workers that serve seed requests
    Promoters,          \* workers that serve promote requests
    Scopes,             \* budget envelopes an account may belong to
    SeedRequests,       \* subset of [scope: Scopes, key, body]
    PromoteRequests,    \* subset of [account: Nat, key, body, takeover: Nat, expected: Nat]
    AccountsMayStop,    \* a worker may stop between two steps
    MaxAccounts,        \* bound on the account rows
    MaxAccountEvents    \* bound on the event rows

AccountWorkers == Seeders \cup Promoters

ASSUME AccountsAssumption ==
    /\ AccountsMayStop \in BOOLEAN
    /\ MaxAccounts \in Nat /\ MaxAccountEvents \in Nat
    /\ \A r \in SeedRequests : r.scope \in Scopes
    /\ \A r \in PromoteRequests :
          r.account \in Nat \ {0} /\ r.takeover \in Nat /\ r.expected \in Nat

VARIABLES
    accounts,       \* paper_accounts; the id is the index
    accountEvents,  \* paper_account_events, in the order they were recorded
    seat, desk      \* where each worker is, and what its handler holds

accountVars == <<accounts, accountEvents, seat, desk>>

AccountStatuses == {"seeded", "active"}
AccountRow == [scope: Scopes, status: AccountStatuses, latest: Nat]
EventTypes == {"explicit_seed", "account_promoted"}
AccountKeys == {r.key : r \in SeedRequests \cup PromoteRequests}
AccountBodies == {r.body : r \in SeedRequests \cup PromoteRequests}
AccountEvent == [account: Nat \ {0}, type: EventTypes, key: AccountKeys,
                 body: AccountBodies, seq: Nat \ {0}]

SeedSteps == {"seed_scan", "seed_save"}
PromoteSteps == {"promote_event", "promote_scope", "promote_save"}
AppendSteps == {"event_find", "event_read", "event_save", "link"}
NoDesk == [type |-> "none"]

AccountsTypeOK ==
    /\ accounts \in Seq(AccountRow)
    /\ accountEvents \in Seq(AccountEvent)
    /\ seat \in [AccountWorkers -> {"idle"} \cup SeedSteps \cup PromoteSteps \cup AppendSteps]
    /\ \A w \in AccountWorkers : (seat[w] = "idle") = (desk[w] = NoDesk)

AccountsInit ==
    /\ accounts = <<>>
    /\ accountEvents = <<>>
    /\ seat = [w \in AccountWorkers |-> "idle"]
    /\ desk = [w \in AccountWorkers |-> NoDesk]

-----------------------------------------------------------------------------
(* What the handlers look up. *)

\* findPaperAccountEventByIdempotencyKey
EventsOfKey(k) == {i \in DOMAIN accountEvents : accountEvents[i].key = k}
EventsOfAccount(a) == {i \in DOMAIN accountEvents : accountEvents[i].account = a}

\* getLatestPaperAccountEvent: the event with the highest sequence, 0 when none
LatestEventOf(a) ==
    LET mine == EventsOfAccount(a)
    IN  IF mine = {} THEN 0
        ELSE CHOOSE i \in mine :
                \A j \in mine : accountEvents[j].seq <= accountEvents[i].seq

\* Mutant: an account that was only seeded does not take the scope.
ActiveTakesScope(s) ==
    \E a \in DOMAIN accounts : accounts[a].scope = s /\ accounts[a].status = "active"
\* The seed's search for an account of the scope.
ScopeTaken(s) ==
    \E a \in DOMAIN accounts :
        accounts[a].scope = s /\ accounts[a].status \in {"seeded", "active"}

\* findActivePaperAccountForScope: any active account of the scope
ActiveInScope(s) ==
    {a \in DOMAIN accounts : accounts[a].scope = s /\ accounts[a].status = "active"}

\* The two unique indexes of paper_account_events.
\* Mutant: the index over account and sequence is not unique.
KeyTaken(e) == EventsOfKey(e.key) # {}
UniqueViolated(e) ==
    \/ EventsOfKey(e.key) # {}
    \/ \E i \in EventsOfAccount(e.account) : accountEvents[i].seq = e.seq

-----------------------------------------------------------------------------
Move(w, step, held) ==
    /\ seat' = [seat EXCEPT ![w] = step]
    /\ desk' = [desk EXCEPT ![w] = held]
Leave(w) == Move(w, "idle", NoDesk)

\* seedPaperAccount up to the first read.  A known key answers at once, with the
\* account its event names or with an error when the request differs; only a key
\* without an event goes on.
SeedReceive(w) ==
    /\ w \in Seeders /\ seat[w] = "idle"
    /\ Len(accounts) < MaxAccounts
    /\ \E r \in SeedRequests :
          /\ EventsOfKey(r.key) = {}
          /\ Move(w, "seed_scan",
                  [type |-> "explicit_seed", key |-> r.key, body |-> r.body,
                   takeover |-> 0, expected |-> 0, id |-> 0, seq |-> 0,
                   row |-> [scope |-> r.scope, status |-> "seeded", latest |-> 0]])
    /\ UNCHANGED <<accounts, accountEvents>>

\* The scan for another account of the scope.
SeedScan(w) ==
    /\ seat[w] = "seed_scan"
    /\ IF ScopeTaken(desk[w].row.scope)
       THEN Leave(w)
       ELSE Move(w, "seed_save", desk[w])
    /\ UNCHANGED <<accounts, accountEvents>>

\* The seeded row is inserted; its event follows.
SeedSave(w) ==
    /\ seat[w] = "seed_save"
    /\ accounts' = Append(accounts, desk[w].row)
    /\ Move(w, "event_find", [desk[w] EXCEPT !.id = Len(accounts) + 1])
    /\ UNCHANGED accountEvents

-----------------------------------------------------------------------------
\* promotePaperAccount: the row is read, a known key answers at once, and a row
\* that is not seeded is refused.
PromoteReceive(w) ==
    /\ w \in Promoters /\ seat[w] = "idle"
    /\ \E r \in PromoteRequests :
          /\ r.account \in DOMAIN accounts
          /\ EventsOfKey(r.key) = {}
          /\ accounts[r.account].status = "seeded"
          /\ Move(w, "promote_event",
                  [type |-> "account_promoted", key |-> r.key, body |-> r.body,
                   takeover |-> r.takeover, expected |-> r.expected,
                   id |-> r.account, seq |-> 0, row |-> accounts[r.account]])
    /\ UNCHANGED <<accounts, accountEvents>>

\* Mutant: only the caller's expectation is compared.
EventExpected(i, expected) == expected \in {0, i}
\* The latest event must be the seed, and the one the caller expects.
SeedIsLatest(i, expected) ==
    /\ i # 0
    /\ accountEvents[i].type = "explicit_seed"
    /\ expected \in {0, i}

PromoteEvent(w) ==
    /\ seat[w] = "promote_event"
    /\ IF SeedIsLatest(LatestEventOf(desk[w].id), desk[w].expected)
       THEN Move(w, "promote_scope", desk[w])
       ELSE Leave(w)
    /\ UNCHANGED <<accounts, accountEvents>>

\* Another active account of the scope is refused unless the caller named it; it
\* stays active.  With several, the one updated last is compared.
PromoteScope(w) ==
    /\ seat[w] = "promote_scope"
    /\ LET rivals == ActiveInScope(desk[w].row.scope)
       IN  \/ /\ rivals = {} \/ desk[w].takeover \in rivals
              /\ Move(w, "promote_save", desk[w])
           \/ /\ rivals \ {desk[w].takeover} # {}
              /\ Leave(w)
    /\ UNCHANGED <<accounts, accountEvents>>

\* The row in memory becomes active and is saved before its event is recorded.
PromoteSave(w) ==
    /\ seat[w] = "promote_save"
    /\ LET row == [desk[w].row EXCEPT !.status = "active"]
       IN  /\ accounts' = [accounts EXCEPT ![desk[w].id] = row]
           /\ Move(w, "event_find", [desk[w] EXCEPT !.row = row])
    /\ UNCHANGED accountEvents

-----------------------------------------------------------------------------
\* appendPaperAccountEvent looks for the key again: an equal request is answered
\* with that event, whichever account it belongs to; another one throws.
EventFind(w) ==
    /\ seat[w] = "event_find"
    /\ LET known == EventsOfKey(desk[w].key)
       IN  CASE known = {} -> Move(w, "event_read", desk[w])
             [] \E i \in known : accountEvents[i].body = desk[w].body ->
                   \E i \in known :
                      Move(w, "link", [desk[w] EXCEPT !.seq = accountEvents[i].seq])
             [] OTHER -> Leave(w)
    /\ UNCHANGED <<accounts, accountEvents>>

\* The next sequence number after the account's own events.
NextSeqOf(a) ==
    LET last == LatestEventOf(a)
    IN  IF last = 0 THEN 1 ELSE accountEvents[last].seq + 1

EventRead(w) ==
    /\ seat[w] = "event_read"
    /\ Move(w, "event_save", [desk[w] EXCEPT !.seq = NextSeqOf(desk[w].id)])
    /\ UNCHANGED <<accounts, accountEvents>>

\* The insert fails on either unique index.
EventSave(w) ==
    /\ seat[w] = "event_save"
    /\ LET e == [account |-> desk[w].id, type |-> desk[w].type, key |-> desk[w].key,
                 body |-> desk[w].body, seq |-> desk[w].seq]
       IN  IF UniqueViolated(e)
           THEN Leave(w) /\ UNCHANGED accountEvents
           ELSE /\ Len(accountEvents) < MaxAccountEvents
                /\ accountEvents' = Append(accountEvents, e)
                /\ Move(w, "link", desk[w])
    /\ UNCHANGED accounts

\* appendPaperAccountEventAndUpdateAccount saves the row in memory once more.
Link(w) ==
    /\ seat[w] = "link"
    /\ accounts' = [accounts EXCEPT
                      ![desk[w].id] = [desk[w].row EXCEPT !.latest = desk[w].seq]]
    /\ Leave(w)
    /\ UNCHANGED accountEvents

\* The process stops; what the handler had read is lost.
AccountWorkerStops(w) ==
    /\ AccountsMayStop
    /\ seat[w] # "idle"
    /\ Leave(w)
    /\ UNCHANGED <<accounts, accountEvents>>

AccountsNext ==
    \E w \in AccountWorkers :
        \/ SeedReceive(w) \/ SeedScan(w) \/ SeedSave(w)
        \/ PromoteReceive(w) \/ PromoteEvent(w) \/ PromoteScope(w) \/ PromoteSave(w)
        \/ EventFind(w) \/ EventRead(w) \/ EventSave(w) \/ Link(w)
        \/ AccountWorkerStops(w)

AccountsSpec == AccountsInit /\ [][AccountsNext]_accountVars

-----------------------------------------------------------------------------
(* Properties. *)

\* The events of an account are numbered 1, 2, ... without a gap or a repeat, the
\* seed is number 1 and only number 1, whatever handlers append at the same time
\* (the two unique indexes against the read of the last sequence).
ChainPerAccount ==
    \A a \in DOMAIN accounts :
        LET mine == EventsOfAccount(a)
        IN  /\ {accountEvents[i].seq : i \in mine} = 1..Cardinality(mine)
            /\ \A i \in mine : (accountEvents[i].type = "explicit_seed")
                                 = (accountEvents[i].seq = 1)

\* No account becomes active without its own seed on record: an account whose
\* seeding stopped between the row and the event can never be promoted.
ActiveWasSeeded ==
    \A a \in DOMAIN accounts :
        accounts[a].status = "active" =>
            \E i \in EventsOfAccount(a) : accountEvents[i].type = "explicit_seed"

\* With one seeder, a scope gets one account for good: retries after a stop,
\* other keys and promotions in progress never make a second one.
OneAccountPerScope ==
    \A a, b \in DOMAIN accounts : accounts[a].scope = accounts[b].scope => a = b

=============================================================================
