------------------------- MODULE ExecutionControl -------------------------
(***************************************************************************)
(* The control plane of the TEST execution boundary (backend services      *)
(* execution/intents.py, execution/ledger.py, execution/risk.py and the    *)
(* routes that call them), for one TEST account and one instrument.        *)
(*                                                                         *)
(* A paper signal is projected into an intent, an agent claims the intent  *)
(* with a lease, and reports what it did with events: it acknowledges the  *)
(* lease, announces an order, reports its fills and its reconciliation.    *)
(* Every action is one HTTP request, i.e. one database transaction, except *)
(* the announcement of an order: it counts the account's open orders and   *)
(* inserts its own later, under READ COMMITTED and no lock, so the other   *)
(* agents' requests come in between and it is two actions.  An agent waits *)
(* for the answer before it sends its next request.                        *)
(*                                                                         *)
(* Clocks are replaced by what the code compares them for: the age of a    *)
(* signal is a phase, and leaseOver says that a lease's expiry has passed. *)
(* Quantities are whole lots.  The client order ID is a hash of the agent  *)
(* and the lease (execution_agent/wire.py), so an order is named by its    *)
(* lease.                                                                  *)
(***************************************************************************)
EXTENDS Naturals, FiniteSets

CONSTANTS
    Agents,       \* registered execution agents of the account's owner
    NumSignals,   \* signals are numbered in the order of their intents
    MaxAttempt,   \* bound of the model: leases per intent
    MaxOpen,      \* max_open_orders of the account's risk policy
    MaxQty,       \* bound of the model: lots per order
    Trades,       \* provider trade IDs
    Statuses,     \* order_update statuses the agents may report
    Verdicts,     \* reconciliation statuses the agents may report
    KillScopes,   \* kill switch scopes the administrator uses
    NoAgent       \* leaseAgent of a lease that does not exist

ASSUME CountsAssumption ==
    /\ NumSignals \in Nat
    /\ MaxAttempt \in Nat
    /\ MaxOpen \in Nat \ {0}
    /\ MaxQty \in Nat
    /\ IsFiniteSet(Agents)

\* With one account and one instrument the global, account, deployment and
\* instrument switches act alike: "account" stands for them.
ASSUME ScopesAssumption ==
    /\ NoAgent \notin Agents
    /\ KillScopes \subseteq {"account"} \cup Agents

\* execution_agent/agent.py reports these statuses and no other.
ASSUME ReportsAssumption ==
    /\ Statuses \subseteq {"submitted", "partially_filled", "cancelled",
                           "rejected", "unknown"}
    /\ Verdicts \subseteq {"ok", "mismatch"}

Signals == 1..NumSignals
Leases  == Signals \X (1..MaxAttempt)

\* unborn: not generated; aged: older than stale_signal_seconds; closing:
\* less than one second before expires_at; over: expires_at has passed.
Phases == {"unborn", "live", "aged", "closing", "over"}

IntentStatuses == {"none", "pending", "leased", "acked", "rejected",
                   "expired", "consumed"}
LeaseStatuses  == {"none", "leased", "acked", "rejected", "expired"}
OrderStatuses  == {"none", "submitted", "partially_filled", "filled",
                   "cancelled", "rejected", "unknown"}

\* Mutant: a reconciliation mismatch may reopen a filled order.
TransitionsReopen ==
    [ s \in OrderStatuses |-> IF s = "none" THEN {} ELSE OrderStatuses \ {"none"} ]

\* Legal order status changes, of the statuses this system produces.
Transitions ==
    [ s \in OrderStatuses |->
        CASE s = "submitted"        -> {"submitted", "partially_filled",
                                        "filled", "cancelled", "rejected",
                                        "unknown"}
          [] s = "partially_filled" -> {"partially_filled", "filled",
                                        "cancelled", "unknown"}
          [] s = "unknown"          -> {"unknown", "submitted",
                                        "partially_filled", "filled",
                                        "cancelled", "rejected"}
          [] s = "none"             -> {}
          [] OTHER                  -> {s} ]

OpenStatuses     == {"submitted", "partially_filled", "unknown"}
TerminalStatuses == {"filled", "cancelled", "rejected"}

\* An event as record_event sees it; its event_id is a hash of these fields.
EventTypes == {"lease_ack", "lease_reject", "order_submitted",
               "order_update", "fill", "reconciliation"}
Event == [ lease  : Leases,
           type   : EventTypes,
           status : Statuses \cup Verdicts \cup {"-"},
           qty    : 0..MaxQty,
           trade  : Trades \cup {0} ]

VARIABLES
    signal,       \* Signals -> Phases: the paper signal's age
    intent,       \* Signals -> IntentStatuses: the projection of the signal
    leaseStatus,  \* Leases -> LeaseStatuses
    leaseAgent,   \* Leases -> Agents \cup {NoAgent}
    leaseOver,    \* Leases -> BOOLEAN: expires_at has passed
    order,        \* Leases -> OrderStatuses
    orderQty,     \* Leases -> lots of the order
    filled,       \* Leases -> sum of the quantities of the order's fills
    trades,       \* set of the provider trade IDs recorded for the account
    events,       \* set of recorded events
    submitting,   \* Agents -> the order whose limits were checked, not yet inserted
    account,      \* status of the TEST account
    agents,       \* Agents -> status
    policy,       \* a risk policy is active
    killed        \* kill switch scopes that are enabled

marketVars == <<signal>>
leaseVars  == <<intent, leaseStatus, leaseAgent, leaseOver>>
orderVars  == <<order, orderQty, filled, trades>>
eventVars  == <<events, submitting>>
adminVars  == <<account, agents, policy, killed>>
vars == <<marketVars, leaseVars, orderVars, eventVars, adminVars>>

TypeOK ==
    /\ signal \in [Signals -> Phases]
    /\ intent \in [Signals -> IntentStatuses]
    /\ leaseStatus \in [Leases -> LeaseStatuses]
    /\ leaseAgent \in [Leases -> Agents \cup {NoAgent}]
    /\ leaseOver \in [Leases -> BOOLEAN]
    /\ order \in [Leases -> OrderStatuses]
    /\ orderQty \in [Leases -> Nat]
    /\ filled \in [Leases -> Nat]
    /\ trades \subseteq Trades
    /\ events \subseteq Event
    /\ submitting \in [Agents -> SUBSET (Leases \X (1..MaxQty))]
    /\ account \in {"active", "paused"}
    /\ agents \in [Agents -> {"active", "revoked"}]
    /\ policy \in BOOLEAN
    /\ killed \subseteq KillScopes

Init ==
    /\ signal = [s \in Signals |-> "unborn"]
    /\ intent = [s \in Signals |-> "none"]
    /\ leaseStatus = [l \in Leases |-> "none"]
    /\ leaseAgent = [l \in Leases |-> NoAgent]
    /\ leaseOver = [l \in Leases |-> FALSE]
    /\ order = [l \in Leases |-> "none"]
    /\ orderQty = [l \in Leases |-> 0]
    /\ filled = [l \in Leases |-> 0]
    /\ trades = {}
    /\ events = {}
    /\ submitting = [a \in Agents |-> {}]
    /\ account = "active"
    /\ agents = [a \in Agents |-> "active"]
    /\ policy = FALSE
    /\ killed = {}

-----------------------------------------------------------------------------
(***************************************************************************)
(* The environment: paper signals are generated in order and grow old, a   *)
(* lease's ttl elapses.  A lease never outlives its signal: claim_next_    *)
(* lease takes the minimum of the ttl and the time the signal has left.    *)
(***************************************************************************)

GenerateSignal(s) ==
    /\ signal[s] = "unborn"
    /\ \A t \in Signals : t < s => signal[t] # "unborn"
    /\ signal' = [signal EXCEPT ![s] = "live"]
    /\ UNCHANGED <<leaseVars, orderVars, eventVars, adminVars>>

SignalAges(s) ==
    /\ \/ /\ signal[s] = "live"
          /\ \E p \in {"aged", "closing"} : signal' = [signal EXCEPT ![s] = p]
          /\ leaseOver' = leaseOver
       \/ /\ signal[s] \in {"live", "aged", "closing"}
          /\ signal' = [signal EXCEPT ![s] = "over"]
          /\ leaseOver' = [l \in Leases |-> leaseOver[l] \/ l[1] = s]
    /\ UNCHANGED <<intent, leaseStatus, leaseAgent, orderVars, eventVars, adminVars>>

LeaseRunsOut(l) ==
    /\ leaseStatus[l] = "leased"
    /\ ~leaseOver[l]
    /\ leaseOver' = [leaseOver EXCEPT ![l] = TRUE]
    /\ UNCHANGED <<marketVars, intent, leaseStatus, leaseAgent, orderVars,
                   eventVars, adminVars>>

(***************************************************************************)
(* The administrator (api/execution_admin_routes.py).                      *)
(***************************************************************************)

PauseAccount ==
    /\ account' = "paused"
    /\ UNCHANGED <<marketVars, leaseVars, orderVars, eventVars, agents, policy, killed>>

ResumeAccount ==
    /\ account' = "active"
    /\ UNCHANGED <<marketVars, leaseVars, orderVars, eventVars, agents, policy, killed>>

RevokeAgent(a) ==
    /\ agents' = [agents EXCEPT ![a] = "revoked"]
    /\ UNCHANGED <<marketVars, leaseVars, orderVars, eventVars, account, policy, killed>>

CreatePolicy ==
    /\ policy' = TRUE
    /\ UNCHANGED <<marketVars, leaseVars, orderVars, eventVars, account, agents, killed>>

SetKillSwitch(scope) ==
    /\ killed' \in {killed \cup {scope}, killed \ {scope}}
    /\ UNCHANGED <<marketVars, leaseVars, orderVars, eventVars, account, agents, policy>>

-----------------------------------------------------------------------------
(***************************************************************************)
(* GET /lease: one transaction projects the signals, expires what is over, *)
(* and claims the oldest pending intent for the agent.                     *)
(***************************************************************************)

\* risk.policy_allowed without the signal's age; scopes is {} when the
\* caller passes no agent_id.
PolicyAllows(scopes) ==
    /\ account = "active"
    /\ killed \cap ({"account"} \cup scopes) = {}
    /\ policy

\* Mutant: a signal is projected although it has an intent.
ProjectedAgain(s) == signal[s] \in {"live", "closing"} /\ PolicyAllows({})

\* A signal is projected once.  Signals that live at the same time are of
\* different deployments: one expires before its successor (signal_expiry).
Projected(s) ==
    /\ intent[s] = "none"
    /\ signal[s] \in {"live", "closing"}
    /\ PolicyAllows({})

\* The leases expire_leases expires, and what becomes of every intent.
LeasesOver == {l \in Leases : leaseStatus[l] = "leased" /\ leaseOver[l]}

IntentAfterSweep(s) ==
    LET i == IF Projected(s) THEN "pending" ELSE intent[s]
    IN  IF i \in {"pending", "leased", "acked"} /\ signal[s] = "over"
        THEN "expired"
        ELSE IF i = "leased" /\ \E l \in LeasesOver : l[1] = s
             THEN "pending"
             ELSE i

\* Mutant: the lease is given its intent's status.
LeaseAfterSweepPending(l) == IF l \in LeasesOver THEN "pending" ELSE leaseStatus[l]

LeaseAfterSweep(l) == IF l \in LeasesOver THEN "expired" ELSE leaseStatus[l]

HasUnknownOrder == \E l \in Leases : order[l] = "unknown"

\* Mutant: leased intents are offered too.
ClaimableLeased(a, s) ==
    /\ IntentAfterSweep(s) \in {"pending", "leased"}
    /\ signal[s] \in {"live", "closing"}
    /\ PolicyAllows({a})
    /\ ~HasUnknownOrder

Claimable(a, s) ==
    /\ IntentAfterSweep(s) = "pending"
    /\ signal[s] \in {"live", "closing"}
    /\ PolicyAllows({a})
    /\ ~HasUnknownOrder

\* The intent the agent is given: the oldest with a whole second left.
Picked(a, s) ==
    /\ Claimable(a, s)
    /\ signal[s] = "live"
    /\ \A t \in Signals : t < s /\ Claimable(a, t) => signal[t] # "live"

\* Claimable intents the loop meets before it, with no whole second left.
PassedOver(a, s) ==
    /\ Claimable(a, s)
    /\ signal[s] = "closing"
    /\ \A t \in Signals : Picked(a, t) => s < t

\* attempt = max(attempt) + 1
NextAttempt(s, k) ==
    \A j \in 1..MaxAttempt : j < k <=> leaseStatus[<<s, j>>] # "none"

Sweep(a, l) ==
    /\ leaseStatus' = [m \in Leases |-> IF m = l THEN "leased" ELSE LeaseAfterSweep(m)]
    /\ intent' = [s \in Signals |-> IF Picked(a, s) THEN "leased"
                                    ELSE IF PassedOver(a, s) THEN "expired"
                                    ELSE IntentAfterSweep(s)]
    /\ UNCHANGED <<marketVars, orderVars, eventVars, adminVars>>

ClaimLease(a, l) ==
    /\ agents[a] = "active"
    /\ submitting[a] = {}
    /\ Picked(a, l[1])
    /\ NextAttempt(l[1], l[2])
    /\ Sweep(a, l)
    /\ leaseAgent' = [leaseAgent EXCEPT ![l] = a]
    /\ leaseOver' = [leaseOver EXCEPT ![l] = FALSE]

\* No intent to give; the projection and the sweep are committed all the same.
NoLease(a) ==
    /\ agents[a] = "active"
    /\ submitting[a] = {}
    /\ \A s \in Signals : ~Picked(a, s)
    /\ Sweep(a, <<0, 0>>)
    /\ UNCHANGED <<leaseAgent, leaseOver>>

\* GET /intents of the administrator projects, and does nothing else.
ListIntents ==
    /\ intent' = [s \in Signals |-> IF Projected(s) THEN "pending" ELSE intent[s]]
    /\ UNCHANGED <<marketVars, leaseStatus, leaseAgent, leaseOver, orderVars,
                   eventVars, adminVars>>

-----------------------------------------------------------------------------
(***************************************************************************)
(* POST /events: ledger.record_event.  A request that raises is rolled     *)
(* back as a whole: it is refused and is no step.  The event must belong   *)
(* to a lease of the agent that posts it, whatever that lease's status.    *)
(* risk_reject and alert only add a row nothing here reads.                *)
(***************************************************************************)

Accepted(a, e) ==
    /\ agents[a] = "active"
    /\ submitting[a] = {}
    /\ leaseAgent[e.lease] = a
    /\ e \notin events

Recorded(a, e) ==
    /\ Accepted(a, e)
    /\ events' = events \cup {e}
    /\ UNCHANGED <<marketVars, leaseAgent, leaseOver, submitting, adminVars>>

\* "-" and 0 stand for the fields an event of this type does not carry.
Report(l, type, status, qty, trade) ==
    [lease |-> l, type |-> type, status |-> status, qty |-> qty, trade |-> trade]

\* Mutant: the acknowledgement counts as the execution.
IntentAfterAckConsumes(i, accepted) == IF accepted THEN "consumed" ELSE "rejected"

IntentAfterAck(i, accepted) ==
    IF ~accepted THEN "rejected" ELSE IF i = "consumed" THEN i ELSE "acked"

AcknowledgeLease(a, l, accepted) ==
    /\ Recorded(a, Report(l, IF accepted THEN "lease_ack" ELSE "lease_reject",
                         "-", 0, 0))
    /\ leaseStatus[l] = "leased"
    /\ ~leaseOver[l]
    /\ leaseStatus' = [leaseStatus EXCEPT ![l] = IF accepted THEN "acked" ELSE "rejected"]
    /\ intent' = [intent EXCEPT ![l[1]] = IntentAfterAck(@, accepted)]
    /\ UNCHANGED orderVars

OpenOrders == {l \in Leases : order[l] \in OpenStatuses}

\* Mutant: off by one.
BelowOpenLimitOrAt == Cardinality(OpenOrders) <= MaxOpen

BelowOpenLimit == Cardinality(OpenOrders) < MaxOpen

Announcement(l, qty) == Report(l, "order_submitted", "-", qty, 0)

\* _order_submitted, first part: validate_order_risk passes.  The limits on
\* notional and leverage can refuse an order too; a refused order is no step.
CheckOrderRisk(a, l, qty) ==
    /\ Accepted(a, Announcement(l, qty))
    /\ PolicyAllows({a})
    /\ BelowOpenLimit
    /\ submitting' = [submitting EXCEPT ![a] = {<<l, qty>>}]
    /\ UNCHANGED <<marketVars, leaseVars, orderVars, events, adminVars>>

\* Second part: the order is inserted, unless the lease has one already.
\* Neither the limit nor the policy is looked at again.
InsertOrder(a, l, qty) ==
    /\ <<l, qty>> \in submitting[a]
    /\ order[l] # "unknown"
    /\ submitting' = [submitting EXCEPT ![a] = {}]
    /\ events' = events \cup {Announcement(l, qty)}
    /\ IF order[l] = "none"
       THEN /\ order' = [order EXCEPT ![l] = "submitted"]
            /\ orderQty' = [orderQty EXCEPT ![l] = qty]
       ELSE UNCHANGED <<order, orderQty>>
    /\ UNCHANGED <<marketVars, leaseVars, filled, trades, adminVars>>

\* The request fails after the limits passed (cooldown, an unknown order of
\* the same lease, the database, a lost process): it is rolled back.
AbandonOrder(a) ==
    /\ submitting[a] # {}
    /\ submitting' = [submitting EXCEPT ![a] = {}]
    /\ UNCHANGED <<marketVars, leaseVars, orderVars, events, adminVars>>

OrderUpdate(a, l, status) ==
    /\ Recorded(a, Report(l, "order_update", status, 0, 0))
    /\ status \in Transitions[order[l]]
    /\ order' = [order EXCEPT ![l] = status]
    /\ UNCHANGED <<orderQty, filled, trades, intent, leaseStatus>>

\* Mutant: the last lot does not complete the order.
FillStatusOffByOne(l, total) ==
    IF total > orderQty[l] THEN "filled" ELSE "partially_filled"

FillStatus(l, total) ==
    IF total >= orderQty[l] THEN "filled" ELSE "partially_filled"

Fill(a, l, trade, qty) ==
    /\ Recorded(a, Report(l, "fill", "-", qty, trade))
    /\ order[l] # "none"
    /\ IF trade \in trades
       THEN UNCHANGED <<orderVars, intent>>
       ELSE LET total  == filled[l] + qty
                status == FillStatus(l, total)
            IN  /\ qty > 0
                /\ total <= orderQty[l]
                /\ status \in Transitions[order[l]]
                /\ order' = [order EXCEPT ![l] = status]
                /\ filled' = [filled EXCEPT ![l] = total]
                /\ trades' = trades \cup {trade}
                /\ intent' = IF status = "filled"
                             THEN [intent EXCEPT ![l[1]] = "consumed"] ELSE intent
                /\ UNCHANGED orderQty
    /\ UNCHANGED leaseStatus

\* "ok" only stamps last_reconciled_at, which nothing here depends on.
Reconciliation(a, l, verdict) ==
    /\ Recorded(a, Report(l, "reconciliation", verdict, 0, 0))
    /\ IF verdict = "mismatch" /\ order[l] # "none"
       THEN /\ "unknown" \in Transitions[order[l]]
            /\ order' = [order EXCEPT ![l] = "unknown"]
       ELSE UNCHANGED order
    /\ UNCHANGED <<orderQty, filled, trades, intent, leaseStatus>>

PostEvent(a, l) ==
    \/ \E accepted \in BOOLEAN : AcknowledgeLease(a, l, accepted)
    \/ \E qty \in 1..MaxQty : InsertOrder(a, l, qty)
    \/ \E status \in Statuses : OrderUpdate(a, l, status)
    \/ \E trade \in Trades, qty \in 1..MaxQty : Fill(a, l, trade, qty)
    \/ \E verdict \in Verdicts : Reconciliation(a, l, verdict)

Admin ==
    \/ PauseAccount
    \/ ResumeAccount
    \/ \E a \in Agents : RevokeAgent(a)
    \/ CreatePolicy
    \/ \E scope \in KillScopes : SetKillSwitch(scope)
    \/ ListIntents

Next ==
    \/ \E s \in Signals : GenerateSignal(s) \/ SignalAges(s)
    \/ \E l \in Leases : LeaseRunsOut(l)
    \/ \E a \in Agents, l \in Leases : ClaimLease(a, l) \/ PostEvent(a, l)
    \/ \E a \in Agents, l \in Leases, qty \in 1..MaxQty : CheckOrderRisk(a, l, qty)
    \/ \E a \in Agents : NoLease(a) \/ AbandonOrder(a)
    \/ Admin

Spec == Init /\ [][Next]_vars

-----------------------------------------------------------------------------
(***************************************************************************)
(* Properties.                                                             *)
(***************************************************************************)

\* A claim is exclusive and is never lost: an intent that is "leased" has
\* exactly one live lease, and every live lease is on an intent that is
\* leased or that an order has consumed meanwhile.  expire_leases,
\* acknowledge_lease, the claim and the full fill all move this pair.
ExclusiveClaim ==
    /\ \A s \in Signals : intent[s] = "leased" =>
            \E k \in 1..MaxAttempt : leaseStatus[<<s, k>>] = "leased"
    /\ \A l, m \in Leases :
            leaseStatus[l] = "leased" /\ leaseStatus[m] = "leased" /\ l[1] = m[1]
            => l = m
    /\ \A l \in Leases : leaseStatus[l] = "leased" =>
            intent[l[1]] \in {"leased", "consumed"}

\* The ledger agrees with itself: an order is "filled" exactly when the sum
\* of its fills is its quantity, and the sum never exceeds the quantity,
\* whatever order updates, reconciliations and fills arrive in between.
FilledIsComplete ==
    \A l \in Leases :
        /\ filled[l] <= orderQty[l]
        /\ order[l] = "filled" <=> order[l] # "none" /\ filled[l] = orderQty[l]

\* An intent is consumed only by an order, of some lease on it, that is
\* completely filled: no acknowledgement and no expiry consumes one.
ConsumedIsExecuted ==
    \A s \in Signals : intent[s] = "consumed" =>
        \E k \in 1..MaxAttempt : order[<<s, k>>] = "filled"

\* The submissions between the check of their limits and their insertion.
InFlight == {a \in Agents : submitting[a] # {}}

\* max_open_orders can be exceeded only by the announcements that were checked
\* before each other's insertion: by at most one order per further agent,
\* across leases, refusals and unknown orders, and never by accumulation.
OpenOrdersBounded ==
    Cardinality(OpenOrders) + 1 <= MaxOpen + Cardinality(Agents)

\* What the policy's max_open_orders says, as written.
OpenOrdersWithinLimit == Cardinality(OpenOrders) <= MaxOpen

\* What the account has settled stays settled: filled, cancelled and
\* rejected orders keep their status, and an intent that was acknowledged,
\* rejected, consumed or expired is never offered to an agent again.
SettledIsFinal ==
    [][ /\ \A l \in Leases : order[l] \in TerminalStatuses => order'[l] = order[l]
        /\ \A s \in Signals :
              intent[s] \in {"acked", "rejected", "consumed", "expired"} =>
              intent'[s] \notin {"none", "pending", "leased"} ]_vars

\* "Short-lived claim; it cannot extend the projected signal expiry"
\* (models.py, SignalLease): no order is accepted once its signal is over.
NoOrderAfterExpiry ==
    [][ \A l \in Leases : order[l] = "none" /\ order'[l] # "none" =>
            signal[l[1]] # "over" ]_vars
=============================================================================
