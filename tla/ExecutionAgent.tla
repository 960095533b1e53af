-------------------------- MODULE ExecutionAgent --------------------------
(***************************************************************************)
(* The local TEST execution agent (execution-agent/execution_agent): one   *)
(* process that takes leases from the control plane, journals an order in  *)
(* SQLite, announces it, places it at the exchange, and reports what came  *)
(* of it.  The process may die between any two of its calls; the journal   *)
(* and the kill switch file survive it.                                    *)
(*                                                                         *)
(* Every HTTP request is two steps: one sends it, another reads the answer *)
(* or fails.  What the other side does in between, or after a failure, is  *)
(* an action of the exchange or of the control plane: a request that timed *)
(* out may still arrive.                                                   *)
(*                                                                         *)
(* There is one symbol.  A lease is a number, in the order of arrival; an  *)
(* order is named by its lease, because the client order ID is a hash of   *)
(* the agent and the lease.  Quantities are whole lots, and a lot is a     *)
(* trade.                                                                  *)
(***************************************************************************)
EXTENDS Integers, Sequences, SequencesExt, FiniteSetsExt

CONSTANTS
    MaxLease,   \* bound of the model: leases the control plane hands out
    MaxQty,     \* bound of the model: lots per order
    Sides,      \* sides of the orders: 1 buys, -1 sells
    MaxOpen,    \* max_open_orders of the lease's policy
    Faults      \* the faults that may happen

ASSUME CountsAssumption ==
    /\ MaxLease \in Nat
    /\ MaxQty \in Nat \ {0}
    /\ MaxOpen \in Nat \ {0}
    /\ Sides \subseteq {-1, 1}

\* crash: the process dies.  control: a request to the control plane fails
\* or is refused.  timeout: the answer to a placement is lost.  read: any
\* other request to the exchange fails.  manual: the position is changed
\* by something other than the agent.  operator: the kill file is touched
\* while the agent runs.
ASSUME FaultsAssumption ==
    Faults \subseteq {"crash", "control", "timeout", "read", "manual", "operator"}

Leases == 1..MaxLease

JournalStatuses == {"none", "PREPARED", "UNKNOWN", "SUBMITTED", "PARTIAL",
                    "FILLED", "REJECTED", "CANCELLED"}
Unresolved == {"PREPARED", "UNKNOWN"}

\* Mutants: a status is missing from the query of incomplete_orders.
IncompleteButPrepared  == {"UNKNOWN", "SUBMITTED", "PARTIAL"}
IncompleteIsUnresolved == Unresolved

Incomplete == Unresolved \cup {"SUBMITTED", "PARTIAL"}

\* none: unknown to the exchange.  refused: a placement it turned down.
ExchangeStatuses == {"none", "refused", "NEW", "PARTIALLY_FILLED", "FILLED",
                     "CANCELED", "EXPIRED"}
Working == {"NEW", "PARTIALLY_FILLED"}
Known   == ExchangeStatuses \ {"none", "refused"}

\* The event ID is a hash of these fields.  trade is the number of the lot
\* a fill is about.
EventTypes == {"risk_reject", "lease_reject", "lease_ack", "order_submitted",
               "order_update", "fill", "reconciliation"}
Event == [ lease  : Leases,
           type   : EventTypes,
           status : {"-", "submitted", "partially_filled", "cancelled",
                     "rejected", "unknown", "ok", "mismatch"},
           trade  : 0..MaxQty ]

Note(l, type)           == [lease |-> l, type |-> type, status |-> "-", trade |-> 0]
Update(l, status)       == [lease |-> l, type |-> "order_update", status |-> status,
                            trade |-> 0]
FillOf(l, trade)        == [lease |-> l, type |-> "fill", status |-> "-", trade |-> trade]
Reconciled(l, verdict)  == [lease |-> l, type |-> "reconciliation", status |-> verdict,
                            trade |-> 0]

\* Where the process is: the call it is about to make or waiting for.
Steps == { "down", "recover", "recoverTrades", "recoverCancel", "recoverLost",
           "flush", "flushing", "ready", "lease", "positions", "openOrders",
           "prepare", "publish", "posting", "place", "placed", "query",
           "trades", "trip", "reconcile" }

VARIABLES
    \* the memory of the process
    pc,         \* the step it is at
    cur,        \* the lease it works on, 0 for none
    todo,       \* the events it still has to publish
    then,       \* what it does after those
    resp,       \* the status in the exchange's answer about the order
    agree,      \* the position it read is the one its journal adds up to
    recovering, \* incomplete orders startup has not dealt with
    \* the journal and the kill switch file
    order,      \* Leases -> JournalStatuses
    lots,       \* Leases -> signed lots of the order
    fills,      \* Leases -> recorded trades of the order
    journaled,  \* set of journaled events
    pending,    \* sequence of those not marked sent
    verdict,    \* the last reconciliation row
    kill,       \* the kill switch file exists
    \* the exchange
    exch,       \* Leases -> ExchangeStatuses
    executed,   \* Leases -> executed lots
    sends,      \* Leases -> placements sent
    manual,     \* position that is not the agent's doing
    \* the control plane
    handed,     \* leases handed out so far
    posted,     \* events sent to the control plane
    recorded    \* events it has recorded

memory   == <<pc, cur, todo, then, resp, agree, recovering>>
journal  == <<order, lots, fills, journaled, pending, verdict>>
exchange == <<exch, executed, manual>>
control  == <<handed, posted, recorded>>
vars == <<memory, journal, kill, exchange, sends, control>>

TypeOK ==
    /\ pc \in Steps
    /\ cur \in 0..MaxLease
    /\ todo \in Seq(Event)
    /\ then \in {"ready", "place", "reconcile"}
    /\ resp \in ExchangeStatuses
    /\ agree \in BOOLEAN
    /\ recovering \subseteq Leases
    /\ order \in [Leases -> JournalStatuses]
    /\ lots \in [Leases -> -MaxQty..MaxQty]
    /\ fills \in [Leases -> 0..MaxQty]
    /\ journaled \subseteq Event
    /\ pending \in Seq(Event)
    /\ verdict \in {"ok", "mismatch", "unknown"}
    /\ kill \in BOOLEAN
    /\ exch \in [Leases -> ExchangeStatuses]
    /\ executed \in [Leases -> 0..MaxQty]
    /\ sends \in [Leases -> Nat]
    /\ manual \in 0..1
    /\ handed \in 0..MaxLease
    /\ posted \subseteq Event
    /\ recorded \subseteq posted

Init ==
    /\ pc = "down"
    /\ cur = 0
    /\ todo = <<>>
    /\ then = "ready"
    /\ resp = "none"
    /\ agree = TRUE
    /\ recovering = {}
    /\ order = [l \in Leases |-> "none"]
    /\ lots = [l \in Leases |-> 0]
    /\ fills = [l \in Leases |-> 0]
    /\ journaled = {}
    /\ pending = <<>>
    /\ verdict = "ok"
    /\ kill = FALSE
    /\ exch = [l \in Leases |-> "none"]
    /\ executed = [l \in Leases |-> 0]
    /\ sends = [l \in Leases |-> 0]
    /\ manual = 0
    /\ handed = 0
    /\ posted = {}
    /\ recorded = {}

-----------------------------------------------------------------------------
(***************************************************************************)
(* Helpers of the process.                                                 *)
(***************************************************************************)

\* Mutant: _ensure_unblocked forgets the reconciliations.
BlockedByFile == kill

Blocked == kill \/ verdict # "ok"

Goto(step) ==
    /\ pc' = step
    /\ UNCHANGED <<cur, todo, then, resp, agree, recovering>>

\* Memory is back to its initial values: the process has ended, or it has
\* returned from process_lease.
Idle(step) ==
    /\ pc' = step
    /\ cur' = 0
    /\ todo' = <<>>
    /\ then' = "ready"
    /\ resp' = "none"
    /\ agree' = TRUE
    /\ recovering' = {}

Exit == Idle("down")

\* Publish these events, then go on.
PublishThen(events, next) ==
    /\ pc' = "publish"
    /\ todo' = events
    /\ then' = next
    /\ resp' = "none"
    /\ agree' = TRUE
    /\ UNCHANGED <<cur, recovering>>

\* Every refusal before an order exists ends this way.
Refuse == PublishThen(<<Note(cur, "risk_reject"), Note(cur, "lease_reject")>>, "ready")

\* Mutant: a status that is not in the table is kept.
NormalizedOrKept(status) ==
    CASE status = "NEW"              -> "SUBMITTED"
      [] status = "PARTIALLY_FILLED" -> "PARTIAL"
      [] status = "CANCELED"         -> "CANCELLED"
      [] OTHER                       -> status

\* _normalize_order_status
Normalized(status) ==
    CASE status = "NEW"              -> "SUBMITTED"
      [] status = "PARTIALLY_FILLED" -> "PARTIAL"
      [] status = "FILLED"           -> "FILLED"
      [] status = "CANCELED"         -> "CANCELLED"
      [] status = "EXPIRED"          -> "REJECTED"
      [] OTHER                       -> "UNKNOWN"

Sign(l) == IF lots[l] < 0 THEN -1 ELSE 1
Size(l) == IF lots[l] < 0 THEN -lots[l] ELSE lots[l]

LocalPosition  == MapThenSumSet(LAMBDA l : Sign(l) * fills[l], Leases)
RemotePosition == MapThenSumSet(LAMBDA l : Sign(l) * executed[l], Leases) + manual

-----------------------------------------------------------------------------
(***************************************************************************)
(* startup: query every incomplete order, oldest first, and cancel what is *)
(* still working; then send what the journal has not sent.                 *)
(***************************************************************************)

Start ==
    /\ pc = "down"
    /\ pc' = "recover"
    /\ recovering' = {l \in Leases : order[l] \in Incomplete}
    /\ UNCHANGED <<cur, todo, then, resp, agree, journal, kill, exchange, sends, control>>

\* The order startup deals with now.
Oldest == Min(recovering)

RecoverFound ==
    /\ pc = "recover"
    /\ recovering # {}
    /\ exch[Oldest] \in Known
    /\ order' = [order EXCEPT ![Oldest] = Normalized(exch[Oldest])]
    /\ resp' = exch[Oldest]
    /\ pc' = "recoverTrades"
    /\ UNCHANGED <<cur, todo, then, agree, recovering, lots, fills, journaled,
                   pending, verdict, kill, exchange, sends, control>>

RecoverNotFound ==
    /\ pc = "recover"
    /\ recovering # {}
    /\ exch[Oldest] \notin Known
    /\ order' = [order EXCEPT ![Oldest] = "UNKNOWN"]
    /\ Goto("recoverLost")
    /\ UNCHANGED <<lots, fills, journaled, pending, verdict, kill, exchange, sends,
                   control>>

RecoverLost ==
    /\ pc = "recoverLost"
    /\ verdict' = "unknown"
    /\ kill' = TRUE
    /\ Exit
    /\ UNCHANGED <<order, lots, fills, journaled, pending, exchange, sends, control>>

RecoverTrades ==
    /\ pc = "recoverTrades"
    /\ fills' = [fills EXCEPT ![Oldest] = executed[Oldest]]
    /\ IF resp \in Working
       THEN Goto("recoverCancel")
       ELSE /\ pc' = "recover"
            /\ recovering' = recovering \ {Oldest}
            /\ resp' = "none"
            /\ UNCHANGED <<cur, todo, then, agree>>
    /\ UNCHANGED <<order, lots, journaled, pending, verdict, kill, exchange, sends,
                   control>>

\* A cancellation of an order that no longer works is an error; one that is
\* cancelled while the answer is lost is an error too.
RecoverCancel ==
    /\ pc = "recoverCancel"
    /\ pc' = "recover"
    /\ recovering' = recovering \ {Oldest}
    /\ resp' = "none"
    /\ \/ /\ exch[Oldest] \in Working
          /\ exch' = [exch EXCEPT ![Oldest] = "CANCELED"]
          /\ \/ /\ order' = [order EXCEPT ![Oldest] = "CANCELLED"]
                /\ verdict' = verdict
             \/ /\ "read" \in Faults
                /\ verdict' = "unknown"
                /\ order' = order
       \/ /\ exch[Oldest] \notin Working \/ "read" \in Faults
          /\ verdict' = "unknown"
          /\ UNCHANGED <<exch, order>>
    /\ UNCHANGED <<cur, todo, then, agree, lots, fills, journaled, pending, kill,
                   executed, manual, sends, control>>

\* The loop is over.
Recovered ==
    /\ pc = "recover"
    /\ recovering = {}
    /\ IF \E l \in Leases : order[l] \in Incomplete
       THEN kill' = TRUE /\ Exit
       ELSE kill' = kill /\ Goto("flush")
    /\ UNCHANGED <<journal, exchange, sends, control>>

Flush ==
    /\ pc = "flush"
    /\ pending # <<>>
    /\ posted' = posted \cup {Head(pending)}
    /\ Goto("flushing")
    /\ UNCHANGED <<journal, kill, exchange, sends, handed, recorded>>

Flushed ==
    /\ pc = "flushing"
    /\ Head(pending) \in recorded
    /\ pending' = Tail(pending)
    /\ Goto("flush")
    /\ UNCHANGED <<order, lots, fills, journaled, verdict, kill, exchange, sends, control>>

FlushFails ==
    /\ pc = "flushing"
    /\ "control" \in Faults
    /\ kill' = TRUE
    /\ Exit
    /\ UNCHANGED <<journal, exchange, sends, control>>

Admit ==
    /\ pc = "flush"
    /\ pending = <<>>
    /\ IF Blocked THEN Exit ELSE Idle("ready")
    /\ UNCHANGED <<journal, kill, exchange, sends, control>>

-----------------------------------------------------------------------------
(***************************************************************************)
(* run_once and process_lease up to the decision.                          *)
(***************************************************************************)

StopBlocked ==
    /\ pc \in {"ready", "lease"}
    /\ Blocked
    /\ Exit
    /\ UNCHANGED <<journal, kill, exchange, sends, control>>

\* The control plane hands out a lease; its answer may get lost.
GetLease ==
    /\ pc = "ready"
    /\ ~Blocked
    /\ handed < MaxLease
    /\ handed' = handed + 1
    /\ \/ /\ pc' = "lease"
          /\ cur' = handed'
          /\ UNCHANGED <<todo, then, resp, agree, recovering>>
       \/ /\ "control" \in Faults
          /\ UNCHANGED memory
    /\ UNCHANGED <<journal, kill, exchange, sends, posted, recorded>>

\* validate: the lease may have expired or be malformed.
ValidateLease ==
    /\ pc = "lease"
    /\ ~Blocked
    /\ Goto("positions") \/ Refuse
    /\ UNCHANGED <<journal, kill, exchange, sends, control>>

ReadPositions ==
    /\ pc = "positions"
    /\ agree' = (LocalPosition = RemotePosition)
    /\ pc' = "openOrders"
    /\ UNCHANGED <<cur, todo, then, resp, recovering>>
    /\ UNCHANGED <<journal, kill, exchange, sends, control>>

OpenAtExchange == {l \in Leases : exch[l] \in Working}

\* The open orders are read after the positions; then the reconciliation is
\* recorded and evaluate_order decides: no, no order needed, or an order.
ReadOpenOrders ==
    /\ pc = "openOrders"
    /\ verdict' = IF agree THEN "ok" ELSE "mismatch"
    /\ kill' = (kill \/ ~agree)
    /\ \/ Refuse
       \/ /\ agree
          /\ Cardinality(OpenAtExchange) < MaxOpen
          /\ PublishThen(<<Note(cur, "lease_ack")>>, "ready") \/ Goto("prepare")
    /\ UNCHANGED <<order, lots, fills, journaled, pending, exchange, sends, control>>

ReadFails ==
    /\ pc \in {"positions", "openOrders"}
    /\ "read" \in Faults
    /\ Refuse
    /\ UNCHANGED <<journal, kill, exchange, sends, control>>

-----------------------------------------------------------------------------
(***************************************************************************)
(* process_lease from the order on.                                        *)
(***************************************************************************)

Prepare ==
    /\ pc = "prepare"
    /\ IF order[cur] = "none"
       THEN /\ order' = [order EXCEPT ![cur] = "PREPARED"]
            /\ \E side \in Sides, n \in 1..MaxQty : lots' = [lots EXCEPT ![cur] = side * n]
       ELSE UNCHANGED <<order, lots>>
    /\ PublishThen(<<Note(cur, "order_submitted")>>, "place")
    /\ UNCHANGED <<fills, journaled, pending, verdict, kill, exchange, sends,
                   control>>

Place ==
    /\ pc = "place"
    /\ sends' = [sends EXCEPT ![cur] = @ + 1]
    /\ Goto("placed")
    /\ UNCHANGED <<journal, kill, exchange, control>>

\* The answer of the placement, or of the query after a timeout, knows the
\* order: record_exchange_order.
OrderAnswered ==
    /\ pc \in {"placed", "query"}
    /\ exch[cur] \in Known
    /\ order' = [order EXCEPT ![cur] = Normalized(exch[cur])]
    /\ resp' = exch[cur]
    /\ pc' = "trades"
    /\ UNCHANGED <<cur, todo, then, agree, recovering, lots, fills, journaled,
                   pending, verdict, kill, exchange, sends, control>>

\* BinanceError: the exchange refuses the placement, or the query after a
\* timeout fails (BinanceTimeout is a BinanceError).
OrderRejected ==
    /\ \/ pc = "placed" /\ exch[cur] = "refused"
       \/ pc = "query" /\ "read" \in Faults
    /\ order' = [order EXCEPT ![cur] = "REJECTED"]
    /\ PublishThen(<<Update(cur, "rejected"), Note(cur, "lease_reject")>>, "ready")
    /\ UNCHANGED <<lots, fills, journaled, pending, verdict, kill, exchange, sends,
                   control>>

PlaceTimesOut ==
    /\ pc = "placed"
    /\ "timeout" \in Faults
    /\ Goto("query")
    /\ UNCHANGED <<journal, kill, exchange, sends, control>>

\* Mutant: place again an order the exchange does not know.
OrderUnresolvedPlacesAgain ==
    /\ pc = "query"
    /\ exch[cur] \notin Known
    /\ Goto("place")
    /\ UNCHANGED <<journal, kill, exchange, sends, control>>

OrderUnresolved ==
    /\ pc = "query"
    /\ exch[cur] \notin Known
    /\ order' = [order EXCEPT ![cur] = "UNKNOWN"]
    /\ Goto("trip")
    /\ UNCHANGED <<lots, fills, journaled, pending, verdict, kill, exchange, sends,
                   control>>

\* Mutant: the kill switch is not tripped.
TripForgets ==
    /\ pc = "trip"
    /\ PublishThen(<<Update(cur, "unknown"), Note(cur, "lease_ack")>>, "ready")
    /\ UNCHANGED <<journal, kill, exchange, sends, control>>

Trip ==
    /\ pc = "trip"
    /\ kill' = TRUE
    /\ PublishThen(<<Update(cur, "unknown"), Note(cur, "lease_ack")>>, "ready")
    /\ UNCHANGED <<journal, exchange, sends, control>>

\* What is published once the trades are read.
Cancelled == resp \in {"CANCELED", "EXPIRED"}

\* Mutant: the lease of an order that did not live is not rejected.
AfterTradesSilent ==
    IF Cancelled
    THEN PublishThen(<<Update(cur, "cancelled")>>, "ready")
    ELSE PublishThen(<<Update(cur, "submitted")>>, "reconcile")

AfterTrades ==
    IF Cancelled
    THEN PublishThen(<<Update(cur, "cancelled"), Note(cur, "lease_reject")>>, "ready")
    ELSE PublishThen(
           <<Update(cur, IF resp = "PARTIALLY_FILLED" THEN "partially_filled"
                         ELSE "submitted")>>
           \o [i \in 1..executed[cur] |-> FillOf(cur, i)], "reconcile")

ReadTrades ==
    /\ pc = "trades"
    /\ fills' = [fills EXCEPT ![cur] = executed[cur]]
    /\ AfterTrades
    /\ UNCHANGED <<order, lots, journaled, pending, verdict, kill, exchange, sends,
                   control>>

\* user_trades or the second account snapshot fails: run_loop goes on.
Swallowed ==
    /\ pc \in {"trades", "reconcile"}
    /\ "read" \in Faults
    /\ Idle("ready")
    /\ UNCHANGED <<journal, kill, exchange, sends, control>>

Reconcile ==
    /\ pc = "reconcile"
    /\ LET ok == LocalPosition = RemotePosition
       IN  /\ verdict' = IF ok THEN "ok" ELSE "mismatch"
           /\ kill' = (kill \/ ~ok)
           /\ PublishThen(<<Reconciled(cur, verdict'), Note(cur, "lease_ack")>>, "ready")
    /\ UNCHANGED <<order, lots, fills, journaled, pending, exchange, sends, control>>

-----------------------------------------------------------------------------
(***************************************************************************)
(* _publish: journal the event, post it, mark it sent.                     *)
(***************************************************************************)

\* An event that is journaled already is not posted again.
Record ==
    /\ pc = "publish"
    /\ todo # <<>>
    /\ IF Head(todo) \in journaled
       THEN /\ todo' = Tail(todo)
            /\ UNCHANGED <<pc, journaled, pending, posted>>
       ELSE /\ journaled' = journaled \cup {Head(todo)}
            /\ pending' = Append(pending, Head(todo))
            /\ posted' = posted \cup {Head(todo)}
            /\ pc' = "posting"
            /\ todo' = todo
    /\ UNCHANGED <<cur, then, resp, agree, recovering, order, lots, fills, verdict,
                   kill, exchange, sends, handed, recorded>>

Post ==
    /\ pc = "posting"
    /\ Head(todo) \in recorded
    /\ \E i \in DOMAIN pending :
          pending[i] = Head(todo) /\ pending' = RemoveAt(pending, i)
    /\ todo' = Tail(todo)
    /\ pc' = "publish"
    /\ UNCHANGED <<cur, then, resp, agree, recovering, order, lots, fills, journaled,
                   verdict, kill, exchange, sends, control>>

\* Mutant: the order is placed although its announcement failed.
PostFailsGoesOn ==
    /\ pc = "posting"
    /\ "control" \in Faults
    /\ kill' = TRUE
    /\ todo' = Tail(todo)
    /\ pc' = "publish"
    /\ UNCHANGED <<cur, then, resp, agree, recovering, journal, exchange, sends, control>>

\* Only the announcement of an order stops process_lease.
PostFails ==
    /\ pc = "posting"
    /\ "control" \in Faults
    /\ kill' = TRUE
    /\ IF then = "place"
       THEN Idle("ready")
       ELSE /\ todo' = Tail(todo)
            /\ pc' = "publish"
            /\ UNCHANGED <<cur, then, resp, agree, recovering>>
    /\ UNCHANGED <<journal, exchange, sends, control>>

Published ==
    /\ pc = "publish"
    /\ todo = <<>>
    /\ IF then = "ready" THEN Idle("ready") ELSE Goto(then)
    /\ UNCHANGED <<journal, kill, exchange, sends, control>>

-----------------------------------------------------------------------------
(***************************************************************************)
(* The process dies; the operator; the other sides of the requests.        *)
(***************************************************************************)

Crash ==
    /\ "crash" \in Faults
    /\ pc # "down"
    /\ Exit
    /\ UNCHANGED <<journal, kill, exchange, sends, control>>

\* The operator stops the service before clearing the kill file (runbook).
OperatorClears ==
    /\ pc = "down"
    /\ kill
    /\ kill' = FALSE
    /\ UNCHANGED <<memory, journal, exchange, sends, control>>

OperatorKills ==
    /\ "operator" \in Faults
    /\ kill' = TRUE
    /\ UNCHANGED <<memory, journal, exchange, sends, control>>

Operator == OperatorClears \/ OperatorKills

\* A placement arrives, late or not; the exchange takes it or turns it down.
PlacementArrives(l) ==
    /\ sends[l] > 0
    /\ exch[l] = "none"
    /\ \E answer \in {"NEW", "refused"} : exch' = [exch EXCEPT ![l] = answer]
    /\ UNCHANGED <<memory, journal, kill, executed, sends, manual, control>>

ExchangeFills(l) ==
    /\ exch[l] \in Working
    /\ executed' = [executed EXCEPT ![l] = @ + 1]
    /\ exch' = [exch EXCEPT ![l] = IF executed[l] + 1 = Size(l) THEN "FILLED"
                                   ELSE "PARTIALLY_FILLED"]
    /\ UNCHANGED <<memory, journal, kill, sends, manual, control>>

ExchangeExpires(l) ==
    /\ exch[l] \in Working
    /\ exch' = [exch EXCEPT ![l] = "EXPIRED"]
    /\ UNCHANGED <<memory, journal, kill, executed, sends, manual, control>>

ManualTrade ==
    /\ "manual" \in Faults
    /\ manual = 0
    /\ manual' = 1
    /\ UNCHANGED <<memory, journal, kill, exch, executed, sends, control>>

ControlRecords(e) ==
    /\ e \notin recorded
    /\ recorded' = recorded \cup {e}
    /\ UNCHANGED <<memory, journal, kill, exchange, sends, handed, posted>>

Recover ==
    \/ Start \/ RecoverFound \/ RecoverNotFound \/ RecoverLost
    \/ RecoverTrades \/ RecoverCancel \/ Recovered
    \/ Flush \/ Flushed \/ FlushFails \/ Admit

ProcessLease ==
    \/ StopBlocked \/ GetLease \/ ValidateLease
    \/ ReadPositions \/ ReadOpenOrders \/ ReadFails
    \/ Prepare \/ Place \/ OrderAnswered \/ OrderRejected \/ PlaceTimesOut
    \/ OrderUnresolved \/ Trip \/ ReadTrades \/ Swallowed \/ Reconcile

Publish == Record \/ Post \/ PostFails \/ Published

Agent == Recover \/ ProcessLease \/ Publish

Exchange ==
    \/ \E l \in Leases :
          PlacementArrives(l) \/ ExchangeFills(l) \/ ExchangeExpires(l)
    \/ ManualTrade

Control == \E e \in posted : ControlRecords(e)

Next == Agent \/ Crash \/ Operator \/ Exchange \/ Control

Spec == Init /\ [][Next]_vars

\* The process runs, every placement arrives, the control plane handles
\* every request.  Nothing is assumed of fills, crashes or operators.
Fairness ==
    /\ WF_vars(Agent)
    /\ \A l \in Leases : WF_vars(PlacementArrives(l))
    /\ WF_vars(Control)

FairSpec == Spec /\ Fairness

-----------------------------------------------------------------------------
(***************************************************************************)
(* Properties.                                                             *)
(***************************************************************************)

\* "never blind-resubmits" (execution-agent/README.md), "must not create a
\* second logical order" (runbook): one lease places at most once, through
\* timeouts, crashes and restarts.
NeverResubmitted == \A l \in Leases : sends[l] <= 1

\* An order leaves the process only when the journal has it and the control
\* plane has recorded its announcement.
WriteAhead ==
    \A l \in Leases : sends[l] > 0 =>
        order[l] # "none" /\ Note(l, "order_submitted") \in recorded

\* The agent keeps the promise of WriteAheadPlacement.
Stage(l) ==
    IF sends[l] > 0 THEN "placed"
    ELSE IF Note(l, "order_submitted") \in recorded THEN "announced"
    ELSE IF order[l] # "none" THEN "prepared"
    ELSE "idle"

Placing == pc = "place" \/ (pc \in {"publish", "posting"} /\ then = "place")

Promise == INSTANCE WriteAheadPlacement
             WITH Orders <- Leases, NoOrder <- 0,
                  stage <- [l \in Leases |-> Stage(l)],
                  live <- IF Placing THEN cur ELSE 0

KeepsPromise == Promise!Spec

\* While the fate of an order is unresolved no other order is placed.
UnresolvedStopsPlacing ==
    [][ \A l \in Leases : sends'[l] # sends[l] =>
          \A m \in Leases \ {l} : order[m] \notin Unresolved ]_vars

\* An agent that waits for its next lease has no unresolved order, or it is
\* blocked: the journal and the kill switch cannot disagree about it.
QuarantineHolds ==
    pc \in {"ready", "lease"} /\ (\E l \in Leases : order[l] \in Unresolved) => Blocked

\* A position mismatch latches: no later step of the agent, and no restart,
\* turns the last reconciliation into "ok".
MismatchLatched == [][ verdict # "ok" => verdict' # "ok" ]_vars

\* A restarted agent polls only when its journal knows how every order
\* ended, and nothing it cancelled or saw filled is still working.
RestartResolves ==
    [][ pc = "flush" /\ pc' = "ready" =>
          \A l \in Leases :
             /\ order[l] \in {"none", "FILLED", "REJECTED", "CANCELLED"}
             /\ order[l] \in {"FILLED", "CANCELLED"} => exch[l] \notin Working ]_vars

Answered(l) ==
    \E e \in recorded : e.lease = l /\ e.type \in {"lease_ack", "lease_reject"}

\* Without faults every lease the agent takes is acknowledged or rejected.
EveryLeaseIsAnswered == \A l \in Leases : handed = l ~> Answered(l)

\* "Timeout or ambiguous 503 becomes UNKNOWN" (execution-agent/README.md):
\* an order the journal calls rejected does not work at the exchange.
RejectedIsNotWorking ==
    \A l \in Leases : order[l] = "REJECTED" => exch[l] \notin Working

\* "A persistent KILL_SWITCH file stops new execution"
\* (execution-agent/README.md).
KillStopsPlacing == [][ kill => sends' = sends ]_vars

\* "Each case must converge or remain blocked" (runbook): an order that has
\* ended at the exchange ends in the journal, or the agent is blocked.
Converges ==
    \A l \in Leases :
        exch[l] = "EXPIRED" ~> order[l] \notin Incomplete \/ Blocked
=============================================================================
