--------------------------- MODULE BrokerAdapter ---------------------------
(***************************************************************************)
(* What the environment of a deployment lets the broker adapter do.  Two   *)
(* services read the same variables: BrokerAdapterReadinessService for the *)
(* status the operator sees, TossReadOnlyBrokerService for what it polls.  *)
(* A text variable is unset, empty, or set; the fills path may also be set *)
(* to something that is no relative path.                                  *)
(***************************************************************************)
EXTENDS FiniteSets

CONSTANT Environments   \* the environments a deployment is started with

VARIABLE env

Texts == {"unset", "empty", "set"}
Environment ==
    [readOnly: BOOLEAN,         \* BROKER_READ_ONLY_ENABLED
     poller: BOOLEAN,           \* TOSS_READ_ONLY_POLLER_ENABLED
     client: BOOLEAN,           \* client id and secret are both non-empty
     accountSeq: Texts,         \* TOSS_OPEN_API_ACCOUNT_SEQ
     accountRef: Texts,         \* TOSS_OPEN_API_ACCOUNT_REF
     schema: BOOLEAN,           \* TOSS_OPEN_API_SCHEMA_VERIFIED
     fillPoller: BOOLEAN,       \* TOSS_READ_ONLY_FILL_POLLER_ENABLED
     fillSchema: BOOLEAN,       \* TOSS_OPEN_API_FILL_SCHEMA_VERIFIED
     fillsPath: Texts \cup {"malformed"},
     sandbox: BOOLEAN,          \* TOSS_OPEN_API_SANDBOX_VERIFIED
     custody: {"unset", "env", "external_secret_ref"},
     secretRef: Texts]          \* BROKER_CREDENTIAL_SECRET_REF

ASSUME EnvironmentAssumption == Environments \subseteq Environment

-----------------------------------------------------------------------------
(* BrokerAdapterReadinessService.getStatus *)

Configured(e) ==
    e.client /\ (e.accountRef = "set" \/ e.accountSeq = "set")

ReadOnlyEnabled(e) == e.readOnly /\ Configured(e) /\ e.schema

CustodyMode(e) ==
    CASE e.custody # "unset" -> e.custody
      [] e.custody = "unset" /\ e.secretRef = "set" -> "external_secret_ref"
      [] e.custody = "unset" /\ e.secretRef # "set" /\ Configured(e) -> "env"
      [] OTHER -> "missing"

CustodyReady(e) == CustodyMode(e) = "external_secret_ref" /\ e.secretRef = "set"

\* Cancel, flatten and open-order polling are not implemented.
Emergency == [cancel |-> FALSE, flatten |-> FALSE, openOrders |-> FALSE]

Capabilities(e) ==
    LET ready(b) == IF b THEN "ready" ELSE "blocked"
        set(b) == IF b THEN "configured" ELSE "blocked"
    IN  [credentials |-> set(Configured(e)),
         credentialCustody |-> ready(CustodyReady(e)),
         openApiSchema |-> ready(e.schema),
         readOnlyAccountSnapshot |-> ready(ReadOnlyEnabled(e)),
         holdingsSnapshot |-> ready(ReadOnlyEnabled(e)),
         orderPreview |-> "not_implemented",
         paperOrSandbox |-> set(e.sandbox),
         orderPlacement |-> "blocked",
         orderCancelReplace |-> "not_implemented",
         fillPolling |-> set(ReadOnlyEnabled(e) /\ e.fillPoller /\ e.fillSchema
                               /\ e.fillsPath \in {"set", "malformed"}),
         reconciliation |-> "blocked",
         killSwitch |-> "blocked"]

-----------------------------------------------------------------------------
(* TossReadOnlyBrokerService: getConfig and getReadOnlyPollStatus *)

\* The account is ACCOUNT_SEQ ?? ACCOUNT_REF: an empty sequence is not replaced.
PollAccount(e) ==
    \/ e.accountSeq = "set"
    \/ e.accountSeq = "unset" /\ e.accountRef = "set"

\* normalizeReadOnlyPath throws, and with it every reading of the poll status.
StatusReadable(e) == e.fillsPath # "malformed"

CanPoll(e) ==
    /\ StatusReadable(e)
    /\ e.readOnly /\ e.poller
    /\ e.client /\ PollAccount(e)
    /\ e.schema

CanPollFills(e) ==
    CanPoll(e) /\ e.fillPoller /\ e.fillSchema /\ e.fillsPath = "set"

\* The endpoints the adapter may call.
AllowedEndpoints(e) ==
    {"token", "accounts", "holdings"}
        \cup (IF e.fillPoller /\ e.fillSchema /\ e.fillsPath = "set" THEN {"fills"} ELSE {})

-----------------------------------------------------------------------------
\* A deployment has one environment for good; getStatus and the poller read it at every call.
AdapterInit == env \in Environments

\* The two services agree on the safe side: whatever the poller calls, the status
\* shown to the operator reports as read-only ready, and a fill poll only calls an
\* endpoint on the allow-list.
PollsOnlyWhenReported ==
    /\ CanPoll(env) => ReadOnlyEnabled(env)
    /\ CanPollFills(env) => Capabilities(env).fillPolling = "configured"
    /\ CanPollFills(env) => "fills" \in AllowedEndpoints(env)

=============================================================================
