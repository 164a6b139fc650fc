---------------------------- MODULE BrokerOrders ----------------------------
(***************************************************************************)
(* Dry-run broker commands and the broker order statuses imported beside   *)
(* them (ControlPlaneService: prepareBrokerOrderCommandFromPaperPlan,      *)
(* runBrokerEmergencyCommandDryRun, importBrokerOrderStatus).              *)
(*                                                                         *)
(* Orders live at the broker, placed by hand; the program learns of one    *)
(* from a single imported status, which it never updates.                  *)
(***************************************************************************)
EXTENDS Integers, Sequences, FiniteSetsExt, BrokerAdapter

CONSTANTS
    Placed,         \* [order reference -> shape]: what is ordered at the broker
    Plans,          \* [plan id -> [orders: sequence of shapes, signed]]
    CommandKeys,    \* idempotency keys of commands; "none" for no key
    OrderDesks,     \* handlers in progress at the same time
    MaxCommands     \* bound on commands

\* A shape is [product, amount]; `product' stands for symbol, side and order type.
ASSUME OrdersAssumption ==
    /\ \A o \in DOMAIN Placed : Placed[o].amount \in Nat
    /\ \A p \in DOMAIN Plans : \A i \in DOMAIN Plans[p].orders :
          Plans[p].orders[i].amount \in Nat
    /\ MaxCommands \in Nat

VARIABLES
    atBroker,       \* [order reference -> external status, or "none" before it is placed]
    pilotReady,     \* the live pilot readiness a command reads; it is never ready
    commands,       \* broker_order_commands
    statuses,       \* broker_order_statuses
    orderDesk            \* the request each handler works on

orderVars == <<env, atBroker, pilotReady, commands, statuses, orderDesk>>

External == {"submitted", "accepted", "open", "partially_filled", "filled",
             "pending_cancel", "cancelled", "rejected", "expired"}
Live == {"submitted", "accepted", "open", "partially_filled", "pending_cancel"}
Emergencies == {"cancel_open_orders", "flatten_positions"}
Free == [kind |-> "none"]

\* `missed' is a history: the imported orders still live at the broker that the list
\* of open orders left out when the command read it.
Command == [key: CommandKeys, type: Emergencies \cup {"submit_order_plan"},
            plan: {0} \cup DOMAIN Plans, blockers: SUBSET STRING,
            targets: SUBSET DOMAIN Placed, missed: SUBSET DOMAIN Placed]

OrdersTypeOK ==
    /\ atBroker \in [DOMAIN Placed -> External \cup {"none"}]
    /\ \A i \in DOMAIN commands :
          /\ commands[i].type \in Emergencies \cup {"submit_order_plan"}
          /\ commands[i].plan \in {0} \cup DOMAIN Plans
          /\ commands[i].targets \cup commands[i].missed \subseteq DOMAIN Placed
    /\ \A i \in DOMAIN statuses :
          /\ statuses[i].order \in DOMAIN Placed
          /\ statuses[i].external \in External \cup {"unknown"}
          /\ statuses[i].status \in {"matched", "mismatch", "unlinked"}
          /\ statuses[i].command \in 0..Len(commands)
    /\ \A d \in OrderDesks : orderDesk[d].kind \in {"none", "command", "status"}

OrdersInit ==
    /\ AdapterInit
    /\ atBroker = [o \in DOMAIN Placed |-> "none"]
    /\ pilotReady = FALSE
    /\ commands = <<>> /\ statuses = <<>>
    /\ orderDesk = [d \in OrderDesks |-> Free]

-----------------------------------------------------------------------------
(* The broker.  External: an order only moves forward through its life. *)

Onward(s) ==
    CASE s = "none"             -> {"submitted"}
      [] s = "submitted"        -> {"accepted", "rejected"}
      [] s = "accepted"         -> {"open", "expired"}
      [] s = "open"             -> {"partially_filled", "filled", "pending_cancel", "expired"}
      [] s = "partially_filled" -> {"filled", "pending_cancel"}
      [] s = "pending_cancel"   -> {"cancelled", "filled"}
      [] OTHER                  -> {}

BrokerMoves ==
    /\ \E o \in DOMAIN Placed : \E s \in Onward(atBroker[o]) :
          atBroker' = [atBroker EXCEPT ![o] = s]
    /\ UNCHANGED <<env, pilotReady, commands, statuses, orderDesk>>

-----------------------------------------------------------------------------
(* buildBrokerOrderCommandBlockers *)

CommandBlocked(b, type, signed, sourced, e) ==
    CASE b = "readiness"    -> ~ pilotReady
      [] b = "schema"       -> ~ e.schema
      [] b = "sandbox"      -> ~ e.sandbox
      [] b = "polling"      -> ~ CanPoll(e)
      [] b = "fill polling" -> ~ CanPollFills(e)
      [] b = "source"       -> ~ sourced
      [] b = "approval"     -> type \notin Emergencies /\ ~ signed
      [] b = "cancel"       -> type = "cancel_open_orders" /\ ~ Emergency.cancel
      [] b = "flatten"      -> type = "flatten_positions" /\ ~ Emergency.flatten
      [] b = "open orders"  -> type \in Emergencies /\ ~ Emergency.openOrders
      [] b \in {"no endpoint", "no write access", "dry run only"} -> TRUE

CommandBlockers(type, signed, sourced, e) ==
    {b \in {"readiness", "schema", "sandbox", "polling", "fill polling", "source", "approval",
            "cancel", "flatten", "open orders", "no endpoint", "no write access",
            "dry run only"} : CommandBlocked(b, type, signed, sourced, e)}

\* A request whose key is known is answered with that command, of whatever type.
CommandKeyFree(k) == k = "none" \/ \A i \in DOMAIN commands : commands[i].key # k

\* prepareBrokerOrderCommandFromPaperPlan, up to its save.
PrepareCommand(d) ==
    /\ orderDesk[d] = Free /\ StatusReadable(env)
    /\ \E k \in CommandKeys, p \in DOMAIN Plans :
          /\ CommandKeyFree(k)
          /\ orderDesk' = [orderDesk EXCEPT ![d] =
                [kind |-> "command", key |-> k, type |-> "submit_order_plan", plan |-> p,
                 blockers |-> CommandBlockers("submit_order_plan", Plans[p].signed,
                                              Plans[p].orders # <<>>, env),
                 targets |-> {}, missed |-> {}]]
    /\ UNCHANGED <<env, atBroker, pilotReady, commands, statuses>>

\* Mutant: only what the broker called open is listed.
OpenByName == {i \in DOMAIN statuses :
    statuses[i].external \in {"submitted", "accepted", "open", "partially_filled"}}
\* listOpenBrokerOrderStatuses
OpenStatuses == {i \in DOMAIN statuses :
    statuses[i].external \in {"submitted", "accepted", "open", "partially_filled",
                              "pending_cancel", "unknown"}}

LiveImported == {o \in {statuses[i].order : i \in DOMAIN statuses} : atBroker[o] \in Live}

\* runBrokerEmergencyCommandDryRun, up to its save.
EmergencyDryRun(d) ==
    /\ orderDesk[d] = Free /\ StatusReadable(env)
    /\ \E k \in CommandKeys, type \in Emergencies :
          /\ CommandKeyFree(k)
          /\ LET listed == IF type = "cancel_open_orders"
                           THEN {statuses[i].order : i \in OpenStatuses} ELSE {}
             IN  orderDesk' = [orderDesk EXCEPT ![d] =
                    [kind |-> "command", key |-> k, type |-> type, plan |-> 0,
                     blockers |-> CommandBlockers(type, FALSE, TRUE, env),
                     targets |-> listed,
                     missed |-> IF type = "cancel_open_orders" THEN LiveImported \ listed
                                ELSE {}]]
    /\ UNCHANGED <<env, atBroker, pilotReady, commands, statuses>>

\* The unique key refuses the insert when another handler used it since.
SaveUnderKey(d) ==
    IF CommandKeyFree(orderDesk[d].key)
    THEN Append(commands, [f \in (DOMAIN orderDesk[d]) \ {"kind"} |-> orderDesk[d][f]])
    ELSE commands

\* saveBrokerOrderCommand
SaveCommand(d) ==
    /\ orderDesk[d].kind = "command"
    /\ Len(SaveUnderKey(d)) <= MaxCommands
    /\ commands' = SaveUnderKey(d)
    /\ orderDesk' = [orderDesk EXCEPT ![d] = Free]
    /\ UNCHANGED <<env, atBroker, pilotReady, statuses>>

-----------------------------------------------------------------------------
(* importBrokerOrderStatus *)

\* resolveBrokerOrderCommandForStatus: the command named, or the plan's latest one.
CommandFor(link) ==
    CASE link.kind = "command" -> link.id
      [] link.kind = "plan" ->
            Max({0} \cup {i \in DOMAIN commands : commands[i].plan = link.id})
      [] OTHER -> 0

IntentsOf(c) == IF commands[c].plan = 0 THEN <<>> ELSE Plans[commands[c].plan].orders

\* resolveBrokerOrderIntentForStatus: the intent named, or the first of the product.
IntentFor(c, link, shape) ==
    LET same == {i \in DOMAIN IntentsOf(c) : IntentsOf(c)[i].product = shape.product}
    IN  IF link.intent # 0 THEN {link.intent} \cap DOMAIN IntentsOf(c)
        ELSE {i \in same : \A j \in same : i <= j}

\* Every command is a dry run, and a dry run has no broker order to match.
ShapeVerdict(shape, intent) == "mismatch"

\* buildBrokerOrderStatusReconciliation
StatusVerdict(c, link, shape) ==
    IF c = 0 THEN [status |-> "unlinked", command |-> 0, intent |-> 0]
    ELSE LET found == IntentFor(c, link, shape)
         IN  IF found = {} THEN [status |-> "mismatch", command |-> c, intent |-> 0]
             ELSE [status |-> ShapeVerdict(shape, IntentsOf(c)[CHOOSE i \in found : TRUE]),
                   command |-> c, intent |-> CHOOSE i \in found : TRUE]

\* The intent is left out, or the second of the command is named.
StatusLinks ==
    [kind: {"none"}, id: {0}, intent: {0}]
        \cup [kind: {"command"}, id: DOMAIN commands, intent: {0, 2}]
        \cup [kind: {"plan"}, id: DOMAIN Plans, intent: {0}]

StatusKnown(o) == \E i \in DOMAIN statuses : statuses[i].order = o

\* The operator reports what the broker shows, or that it is not known; an order whose
\* status is stored is answered with the stored row.
ReadOrderStatus(d) ==
    /\ orderDesk[d] = Free
    /\ \E o \in DOMAIN Placed, link \in StatusLinks :
          /\ atBroker[o] # "none" /\ ~ StatusKnown(o)
          /\ \E reported \in {atBroker[o], "unknown"} :
                orderDesk' = [orderDesk EXCEPT ![d] =
                    [kind |-> "status", order |-> o, external |-> reported,
                     verdict |-> StatusVerdict(CommandFor(link), link, Placed[o])]]
    /\ UNCHANGED <<env, atBroker, pilotReady, commands, statuses>>

SaveOrderStatus(d) ==
    /\ orderDesk[d].kind = "status"
    /\ statuses' = IF StatusKnown(orderDesk[d].order) THEN statuses
                   ELSE Append(statuses,
                          [order |-> orderDesk[d].order, external |-> orderDesk[d].external,
                           status |-> orderDesk[d].verdict.status,
                           command |-> orderDesk[d].verdict.command,
                           intent |-> orderDesk[d].verdict.intent])
    /\ orderDesk' = [orderDesk EXCEPT ![d] = Free]
    /\ UNCHANGED <<env, atBroker, pilotReady, commands>>

OrdersNext ==
    \/ BrokerMoves
    \/ \E d \in OrderDesks :
          \/ PrepareCommand(d) \/ EmergencyDryRun(d) \/ SaveCommand(d)
          \/ ReadOrderStatus(d) \/ SaveOrderStatus(d)

OrdersSpec == OrdersInit /\ [][OrdersNext]_orderVars

-----------------------------------------------------------------------------
(* Properties. *)

\* An emergency cancel names every imported order that is still live at the broker when
\* it lists the open ones.  The stored status is the first one ever seen, so this rests
\* on the list taking in every status an order can still come from.
NoOpenOrderMissed == \A i \in DOMAIN commands : commands[i].missed = {}

=============================================================================
