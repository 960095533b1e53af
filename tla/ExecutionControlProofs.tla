---------------------- MODULE ExecutionControlProofs ----------------------
(***************************************************************************)
(* Machine-checked proofs about ExecutionControl, for any number of        *)
(* agents, signals, leases and lots.                                       *)
(***************************************************************************)
EXTENDS ExecutionControl, FiniteSetTheorems, TLAPS

\* What the transition table contains: only statuses, terminal rows that do
\* not move, and no row that leads out of "none".
LEMMA TransitionsFacts ==
    /\ \A s \in OrderStatuses : Transitions[s] \subseteq OrderStatuses \ {"none"}
    /\ \A s \in TerminalStatuses : Transitions[s] = {s}
    /\ Transitions["none"] = {}
BY DEF Transitions, OrderStatuses, TerminalStatuses

LEMMA LeaseFacts ==
    \A l \in Leases : l[1] \in Signals /\ l = <<l[1], l[2]>> /\ l[2] \in 1..MaxAttempt
BY DEF Leases

\* What the agents post are events.
LEMMA EventFacts ==
    ASSUME NEW l \in Leases
    PROVE  /\ \A type \in EventTypes : Report(l, type, "-", 0, 0) \in Event
           /\ \A qty \in 1..MaxQty : Report(l, "order_submitted", "-", qty, 0) \in Event
           /\ \A status \in Statuses : Report(l, "order_update", status, 0, 0) \in Event
           /\ \A trade \in Trades, qty \in 1..MaxQty :
                Report(l, "fill", "-", qty, trade) \in Event
           /\ \A verdict \in Verdicts :
                Report(l, "reconciliation", verdict, 0, 0) \in Event
<1>1. 0 \in 0..MaxQty /\ 1..MaxQty \subseteq 0..MaxQty
  BY CountsAssumption
<1>2. QED
  BY <1>1 DEF Report, Event, EventTypes

-----------------------------------------------------------------------------
\* The initial state is typed.
LEMMA TypeInitially == ASSUME Init PROVE TypeOK
<1>1. /\ signal \in [Signals -> Phases]
      /\ intent \in [Signals -> IntentStatuses]
      /\ account \in {"active", "paused"}
      /\ agents \in [Agents -> {"active", "revoked"}]
      /\ policy \in BOOLEAN
  BY DEF Init, Phases, IntentStatuses
<1>2. /\ leaseStatus \in [Leases -> LeaseStatuses]
      /\ leaseAgent \in [Leases -> Agents \cup {NoAgent}]
      /\ leaseOver \in [Leases -> BOOLEAN]
      /\ order \in [Leases -> OrderStatuses]
      /\ orderQty \in [Leases -> Nat]
      /\ filled \in [Leases -> Nat]
  BY DEF Init, LeaseStatuses, OrderStatuses
<1>3. QED
  BY <1>1, <1>2 DEF Init, TypeOK

\* Every step leaves the variables in their types.
LEMMA TypePreserved == ASSUME TypeOK, [Next]_vars PROVE TypeOK'
<1> USE DEF TypeOK, marketVars, leaseVars, orderVars, eventVars, adminVars
<1>1. ASSUME NEW s \in Signals, GenerateSignal(s) PROVE TypeOK'
  BY <1>1 DEF GenerateSignal, Phases
<1>2. ASSUME NEW s \in Signals, SignalAges(s) PROVE TypeOK'
  BY <1>2, LeaseFacts DEF SignalAges, Phases
<1>3. ASSUME NEW l \in Leases, LeaseRunsOut(l) PROVE TypeOK'
  BY <1>3 DEF LeaseRunsOut
<1>4. ASSUME NEW a \in Agents, NEW l, Sweep(a, l)
      PROVE  /\ leaseStatus' \in [Leases -> LeaseStatuses]
             /\ intent' \in [Signals -> IntentStatuses]
  BY <1>4 DEF Sweep, LeaseAfterSweep, IntentAfterSweep, LeaseStatuses, IntentStatuses
<1>5. ASSUME NEW a \in Agents, NEW l \in Leases, ClaimLease(a, l) PROVE TypeOK'
  BY <1>4, <1>5 DEF ClaimLease, Sweep
<1>6. ASSUME NEW a \in Agents, NoLease(a) PROVE TypeOK'
  BY <1>4, <1>6 DEF NoLease, Sweep
<1>7. ASSUME NEW a \in Agents, NEW l \in Leases, PostEvent(a, l) PROVE TypeOK'
  <2> USE LeaseFacts, EventFacts, TransitionsFacts DEF Recorded, Announcement
  <2>1. ASSUME NEW accepted \in BOOLEAN, AcknowledgeLease(a, l, accepted) PROVE TypeOK'
    BY <2>1 DEF AcknowledgeLease, IntentAfterAck, LeaseStatuses, IntentStatuses,
                EventTypes
  <2>2. ASSUME NEW qty \in 1..MaxQty, InsertOrder(a, l, qty) PROVE TypeOK'
    <3>1. /\ \/ UNCHANGED <<order, orderQty>>
             \/ /\ order' = [order EXCEPT ![l] = "submitted"]
                /\ orderQty' = [orderQty EXCEPT ![l] = qty]
          /\ submitting' = [submitting EXCEPT ![a] = {}]
          /\ events' = events \cup {Report(l, "order_submitted", "-", qty, 0)}
          /\ UNCHANGED <<marketVars, leaseVars, filled, trades, adminVars>>
      BY <2>2 DEF InsertOrder
    <3>2. order' \in [Leases -> OrderStatuses] /\ orderQty' \in [Leases -> Nat]
      <4>1. qty \in Nat /\ "submitted" \in OrderStatuses
        BY CountsAssumption DEF OrderStatuses
      <4>2. order \in [Leases -> OrderStatuses] /\ orderQty \in [Leases -> Nat]
        OBVIOUS
      <4>3. CASE UNCHANGED <<order, orderQty>>
        BY <4>3
      <4>4. CASE /\ order' = [order EXCEPT ![l] = "submitted"]
                 /\ orderQty' = [orderQty EXCEPT ![l] = qty]
        BY <4>1, <4>2, <4>4
      <4>5. QED
        BY <3>1, <4>3, <4>4
    <3>3. submitting' \in [Agents -> SUBSET (Leases \X (1..MaxQty))]
      BY <3>1
    <3>4. events' \subseteq Event
      BY <3>1
    <3>5. QED
      BY <3>1, <3>2, <3>3, <3>4
  <2>3. ASSUME NEW status \in Statuses, OrderUpdate(a, l, status) PROVE TypeOK'
    BY <2>3 DEF OrderUpdate
  <2>4. ASSUME NEW trade \in Trades, NEW qty \in 1..MaxQty, Fill(a, l, trade, qty)
        PROVE TypeOK'
    <3>1. CASE trade \in trades
      BY <2>4, <3>1 DEF Fill
    <3>2. CASE trade \notin trades
      <4> DEFINE status == FillStatus(l, filled[l] + qty)
      <4>1. qty \in Nat
        BY CountsAssumption
      <4>2. /\ filled' = [filled EXCEPT ![l] = filled[l] + qty]
            /\ order' = [order EXCEPT ![l] = status]
            /\ trades' = trades \cup {trade}
            /\ intent' = IF status = "filled"
                         THEN [intent EXCEPT ![l[1]] = "consumed"] ELSE intent
            /\ events' = events \cup {Report(l, "fill", "-", qty, trade)}
            /\ UNCHANGED <<orderQty, leaseStatus, marketVars, leaseAgent,
                           leaseOver, submitting, adminVars>>
        BY <2>4, <3>2 DEF Fill
      <4>3. status \in OrderStatuses
        BY DEF FillStatus, OrderStatuses
      <4>4. /\ filled' \in [Leases -> Nat]
            /\ order' \in [Leases -> OrderStatuses]
            /\ intent' \in [Signals -> IntentStatuses]
        BY <4>1, <4>2, <4>3 DEF IntentStatuses
      <4>5. QED
        BY <4>2, <4>4
    <3>3. QED
      BY <3>1, <3>2
  <2>5. ASSUME NEW verdict \in Verdicts, Reconciliation(a, l, verdict) PROVE TypeOK'
    BY <2>5 DEF Reconciliation
  <2>6. QED
    BY <1>7, <2>1, <2>2, <2>3, <2>4, <2>5 DEF PostEvent
<1>8. ASSUME Admin PROVE TypeOK'
  BY <1>8, ScopesAssumption
     DEF Admin, PauseAccount, ResumeAccount, RevokeAgent, CreatePolicy,
         SetKillSwitch, ListIntents, IntentStatuses
<1>9. CASE UNCHANGED vars
  BY <1>9 DEF vars
<1>10. ASSUME NEW a \in Agents, NEW l \in Leases, NEW qty \in 1..MaxQty,
              CheckOrderRisk(a, l, qty)
       PROVE  TypeOK'
  BY <1>10 DEF CheckOrderRisk
<1>11. ASSUME NEW a \in Agents, AbandonOrder(a) PROVE TypeOK'
  BY <1>11 DEF AbandonOrder
<1>12. QED
  BY <1>1, <1>2, <1>3, <1>5, <1>6, <1>7, <1>8, <1>9, <1>10, <1>11 DEF Next

\* The variables always hold values of their types (TypeOK).
THEOREM TypeCorrect == Spec => []TypeOK
<1>1. Init => TypeOK
  BY TypeInitially
<1>2. TypeOK /\ [Next]_vars => TypeOK'
  BY TypePreserved
<1>3. QED
  BY <1>1, <1>2, PTL DEF Spec

-----------------------------------------------------------------------------
\* What a sweep makes of an intent: a settled one stays settled, none becomes
\* consumed, and it is leased only if it is picked or was leased before.
LEMMA SweepFacts ==
    ASSUME TypeOK, NEW s \in Signals
    PROVE  /\ intent[s] \in {"acked", "rejected", "consumed", "expired"} =>
                IntentAfterSweep(s) \in {"acked", "rejected", "consumed", "expired"}
           /\ IntentAfterSweep(s) = "consumed" <=> intent[s] = "consumed"
BY DEF IntentAfterSweep, Projected, TypeOK, IntentStatuses

\* Every step of one order moves it along Transitions, or creates it.
LEMMA OrderSteps ==
    ASSUME TypeOK, [Next]_vars, NEW l \in Leases, order[l] # "none"
    PROVE  order'[l] = order[l] \/ order'[l] \in Transitions[order[l]]
<1> USE DEF TypeOK, marketVars, leaseVars, orderVars, eventVars, adminVars
<1>1. CASE UNCHANGED order
  BY <1>1
<1>2. ASSUME NEW a \in Agents, NEW m \in Leases, PostEvent(a, m)
      PROVE  order'[l] = order[l] \/ order'[l] \in Transitions[order[l]]
  <2>1. ASSUME NEW accepted \in BOOLEAN, AcknowledgeLease(a, m, accepted)
        PROVE  UNCHANGED order
    BY <2>1 DEF AcknowledgeLease
  <2>2. ASSUME NEW qty \in 1..MaxQty, InsertOrder(a, m, qty)
        PROVE  order'[l] = order[l]
    BY <2>2 DEF InsertOrder
  <2>3. ASSUME NEW status \in Statuses, OrderUpdate(a, m, status)
        PROVE  order'[l] = order[l] \/ order'[l] \in Transitions[order[l]]
    BY <2>3 DEF OrderUpdate
  <2>4. ASSUME NEW trade \in Trades, NEW qty \in 1..MaxQty, Fill(a, m, trade, qty)
        PROVE  order'[l] = order[l] \/ order'[l] \in Transitions[order[l]]
    BY <2>4 DEF Fill
  <2>5. ASSUME NEW verdict \in Verdicts, Reconciliation(a, m, verdict)
        PROVE  order'[l] = order[l] \/ order'[l] \in Transitions[order[l]]
    BY <2>5 DEF Reconciliation
  <2>6. QED
    BY <1>1, <1>2, <2>1, <2>2, <2>3, <2>4, <2>5 DEF PostEvent
<1>3. ASSUME NEW a \in Agents, NEW m \in Leases, ClaimLease(a, m) PROVE UNCHANGED order
  BY <1>3 DEF ClaimLease, Sweep
<1>4. ASSUME NEW a \in Agents, NoLease(a) PROVE UNCHANGED order
  BY <1>4 DEF NoLease, Sweep
<1>5. ASSUME Admin PROVE UNCHANGED order
  BY <1>5 DEF Admin, PauseAccount, ResumeAccount, RevokeAgent, CreatePolicy,
              SetKillSwitch, ListIntents
<1>6. ASSUME NEW s \in Signals, GenerateSignal(s) \/ SignalAges(s) PROVE UNCHANGED order
  BY <1>6 DEF GenerateSignal, SignalAges
<1>7. ASSUME NEW m \in Leases, LeaseRunsOut(m) PROVE UNCHANGED order
  BY <1>7 DEF LeaseRunsOut
<1>8. ASSUME NEW a \in Agents,
             AbandonOrder(a) \/ \E m \in Leases, qty \in 1..MaxQty : CheckOrderRisk(a, m, qty)
      PROVE  UNCHANGED order
  BY <1>8 DEF AbandonOrder, CheckOrderRisk
<1>9. QED
  BY <1>1, <1>2, <1>3, <1>4, <1>5, <1>6, <1>7, <1>8 DEF Next, vars

\* Every step of an intent: a sweep, a listing, or an event of a lease on it.
LEMMA IntentSteps ==
    ASSUME TypeOK, [Next]_vars, NEW s \in Signals,
           intent[s] \in {"acked", "rejected", "consumed", "expired"}
    PROVE  intent'[s] \in {"acked", "rejected", "consumed", "expired"}
<1> USE DEF TypeOK, marketVars, leaseVars, orderVars, eventVars, adminVars
<1>1. CASE UNCHANGED intent
  BY <1>1
<1>2. ASSUME NEW a \in Agents, NEW l, Sweep(a, l)
      PROVE  intent'[s] \in {"acked", "rejected", "consumed", "expired"}
  BY <1>2, SweepFacts DEF Sweep, Picked, PassedOver, Claimable
<1>3. ASSUME NEW a \in Agents, NEW l \in Leases, PostEvent(a, l)
      PROVE  intent'[s] \in {"acked", "rejected", "consumed", "expired"}
  <2>1. ASSUME NEW accepted \in BOOLEAN, AcknowledgeLease(a, l, accepted)
        PROVE  intent'[s] \in {"acked", "rejected", "consumed", "expired"}
    BY <2>1, LeaseFacts DEF AcknowledgeLease, IntentAfterAck
  <2>2. ASSUME NEW qty \in 1..MaxQty, InsertOrder(a, l, qty) PROVE UNCHANGED intent
    BY <2>2 DEF InsertOrder
  <2>3. ASSUME NEW status \in Statuses, OrderUpdate(a, l, status) PROVE UNCHANGED intent
    BY <2>3 DEF OrderUpdate
  <2>4. ASSUME NEW trade \in Trades, NEW qty \in 1..MaxQty, Fill(a, l, trade, qty)
        PROVE  intent'[s] \in {"acked", "rejected", "consumed", "expired"}
    BY <2>4, LeaseFacts DEF Fill
  <2>5. ASSUME NEW verdict \in Verdicts, Reconciliation(a, l, verdict)
        PROVE  UNCHANGED intent
    BY <2>5 DEF Reconciliation
  <2>6. QED
    BY <1>1, <1>3, <2>1, <2>2, <2>3, <2>4, <2>5 DEF PostEvent
<1>4. ASSUME Admin PROVE intent'[s] \in {"acked", "rejected", "consumed", "expired"}
  BY <1>4 DEF Admin, PauseAccount, ResumeAccount, RevokeAgent, CreatePolicy,
              SetKillSwitch, ListIntents, Projected
<1>5. ASSUME NEW t \in Signals, GenerateSignal(t) \/ SignalAges(t) PROVE UNCHANGED intent
  BY <1>5 DEF GenerateSignal, SignalAges
<1>6. ASSUME NEW l \in Leases, LeaseRunsOut(l) PROVE UNCHANGED intent
  BY <1>6 DEF LeaseRunsOut
<1>7. ASSUME NEW a \in Agents,
             AbandonOrder(a) \/ \E l \in Leases, qty \in 1..MaxQty : CheckOrderRisk(a, l, qty)
      PROVE  UNCHANGED intent
  BY <1>7 DEF AbandonOrder, CheckOrderRisk
<1>8. QED
  BY <1>1, <1>2, <1>3, <1>4, <1>5, <1>6, <1>7 DEF Next, vars, ClaimLease, NoLease

\* What is settled stays settled (SettledIsFinal): no event reopens a filled,
\* cancelled or rejected order, and no sweep offers a settled intent again.
THEOREM SettledStays == Spec => SettledIsFinal
<1>1. TypeOK /\ [Next]_vars =>
        [ /\ \A l \in Leases : order[l] \in TerminalStatuses => order'[l] = order[l]
          /\ \A s \in Signals :
                intent[s] \in {"acked", "rejected", "consumed", "expired"} =>
                intent'[s] \notin {"none", "pending", "leased"} ]_vars
  <2> SUFFICES ASSUME TypeOK, [Next]_vars
               PROVE  /\ \A l \in Leases : order[l] \in TerminalStatuses => order'[l] = order[l]
                      /\ \A s \in Signals :
                            intent[s] \in {"acked", "rejected", "consumed", "expired"} =>
                            intent'[s] \notin {"none", "pending", "leased"}
    OBVIOUS
  <2>1. ASSUME NEW l \in Leases, order[l] \in TerminalStatuses PROVE order'[l] = order[l]
    BY <2>1, OrderSteps, TransitionsFacts DEF TerminalStatuses
  <2>2. ASSUME NEW s \in Signals,
               intent[s] \in {"acked", "rejected", "consumed", "expired"}
        PROVE  intent'[s] \notin {"none", "pending", "leased"}
    BY <2>2, IntentSteps
  <2>3. QED
    BY <2>1, <2>2
<1>2. QED
  BY <1>1, TypeCorrect, PTL DEF Spec, SettledIsFinal
-----------------------------------------------------------------------------
\* The order ledger.  What makes FilledIsComplete inductive: an order that
\* was not announced has neither quantity nor fills.
NoneIsEmpty ==
    \A l \in Leases : order[l] = "none" => orderQty[l] = 0 /\ filled[l] = 0

LedgerInv == TypeOK /\ FilledIsComplete /\ NoneIsEmpty

\* An event of one lease touches no other lease's order.
LEMMA LedgerStep ==
    ASSUME LedgerInv, NEW a \in Agents, NEW m \in Leases, PostEvent(a, m)
    PROVE  (FilledIsComplete /\ NoneIsEmpty)'
<1> USE DEF LedgerInv, TypeOK, FilledIsComplete, NoneIsEmpty, marketVars, leaseVars,
            orderVars, eventVars, adminVars
<1>1. ASSUME NEW accepted \in BOOLEAN, AcknowledgeLease(a, m, accepted)
      PROVE  (FilledIsComplete /\ NoneIsEmpty)'
  BY <1>1 DEF AcknowledgeLease
<1>2. ASSUME NEW qty \in 1..MaxQty, InsertOrder(a, m, qty)
      PROVE  (FilledIsComplete /\ NoneIsEmpty)'
  <2>1. qty \in Nat /\ qty > 0
    BY CountsAssumption
  <2>2. CASE order[m] = "none"
    BY <1>2, <2>1, <2>2 DEF InsertOrder
  <2>3. CASE order[m] # "none"
    BY <1>2, <2>3 DEF InsertOrder
  <2>4. QED
    BY <2>2, <2>3
<1>3. ASSUME NEW status \in Statuses, OrderUpdate(a, m, status)
      PROVE  (FilledIsComplete /\ NoneIsEmpty)'
  <2>1. /\ status \in Transitions[order[m]]
        /\ order' = [order EXCEPT ![m] = status]
        /\ UNCHANGED <<orderQty, filled>>
        /\ status # "filled"
    BY <1>3, ReportsAssumption DEF OrderUpdate
  <2>2. order[m] \notin {"none", "filled"}
    BY <2>1, TransitionsFacts DEF TerminalStatuses
  <2>3. status # "none"
    BY <2>1, TransitionsFacts
  <2>4. QED
    BY <2>1, <2>2, <2>3
<1>4. ASSUME NEW trade \in Trades, NEW qty \in 1..MaxQty, Fill(a, m, trade, qty)
      PROVE  (FilledIsComplete /\ NoneIsEmpty)'
  <2>1. CASE trade \in trades
    BY <1>4, <2>1 DEF Fill
  <2>2. CASE trade \notin trades
    <3> DEFINE total == filled[m] + qty
    <3>1. /\ order[m] # "none"
          /\ total <= orderQty[m]
          /\ order' = [order EXCEPT ![m] = FillStatus(m, total)]
          /\ filled' = [filled EXCEPT ![m] = total]
          /\ UNCHANGED orderQty
      BY <1>4, <2>2 DEF Fill
    <3>2. total \in Nat /\ orderQty[m] \in Nat
      BY CountsAssumption
    <3>3. /\ FillStatus(m, total) \in {"filled", "partially_filled"}
          /\ FillStatus(m, total) = "filled" <=> total = orderQty[m]
      BY <3>1, <3>2 DEF FillStatus
    <3> HIDE DEF total
    <3>4. QED
      BY <3>1, <3>2, <3>3
  <2>3. QED
    BY <2>1, <2>2
<1>5. ASSUME NEW verdict \in Verdicts, Reconciliation(a, m, verdict)
      PROVE  (FilledIsComplete /\ NoneIsEmpty)'
  <2>1. CASE verdict = "mismatch" /\ order[m] # "none"
    <3>1. /\ "unknown" \in Transitions[order[m]]
          /\ order' = [order EXCEPT ![m] = "unknown"]
          /\ UNCHANGED <<orderQty, filled>>
      BY <1>5, <2>1 DEF Reconciliation
    <3>2. order[m] \notin {"none", "filled"}
      BY <3>1, TransitionsFacts DEF TerminalStatuses
    <3>3. QED
      BY <3>1, <3>2
  <2>2. CASE ~(verdict = "mismatch" /\ order[m] # "none")
    BY <1>5, <2>2 DEF Reconciliation
  <2>3. QED
    BY <2>1, <2>2
<1>6. QED
  BY <1>1, <1>2, <1>3, <1>4, <1>5 DEF PostEvent

\* Only events change the order ledger.
LEMMA LedgerUntouched ==
    ASSUME [Next]_vars,
           ~ \E a \in Agents, l \in Leases : PostEvent(a, l)
    PROVE  UNCHANGED <<order, orderQty, filled>>
<1> USE DEF marketVars, leaseVars, orderVars, eventVars, adminVars
<1>1. ASSUME NEW s \in Signals, GenerateSignal(s) \/ SignalAges(s)
      PROVE  UNCHANGED <<order, orderQty, filled>>
  BY <1>1 DEF GenerateSignal, SignalAges
<1>2. ASSUME NEW l \in Leases, LeaseRunsOut(l) PROVE UNCHANGED <<order, orderQty, filled>>
  BY <1>2 DEF LeaseRunsOut
<1>3. ASSUME NEW a \in Agents, NEW l, Sweep(a, l) PROVE UNCHANGED <<order, orderQty, filled>>
  BY <1>3 DEF Sweep
<1>4. ASSUME Admin PROVE UNCHANGED <<order, orderQty, filled>>
  BY <1>4 DEF Admin, PauseAccount, ResumeAccount, RevokeAgent, CreatePolicy,
              SetKillSwitch, ListIntents
<1>5. ASSUME NEW a \in Agents,
             AbandonOrder(a) \/ \E l \in Leases, qty \in 1..MaxQty : CheckOrderRisk(a, l, qty)
      PROVE  UNCHANGED <<order, orderQty, filled>>
  BY <1>5 DEF AbandonOrder, CheckOrderRisk
<1>6. QED
  BY <1>1, <1>2, <1>3, <1>4, <1>5 DEF Next, vars, ClaimLease, NoLease

\* An order is "filled" exactly when its fills add up to its quantity, and
\* never exceeds it (FilledIsComplete): record_event's arithmetic and its
\* transition table agree for every quantity and every order of reports.
THEOREM LedgerAgrees == Spec => []FilledIsComplete
<1>1. Init => LedgerInv
  <2> SUFFICES ASSUME Init PROVE LedgerInv
    OBVIOUS
  <2>1. TypeOK
    BY TypeInitially
  <2>2. QED
    BY <2>1 DEF Init, LedgerInv, FilledIsComplete, NoneIsEmpty
<1>2. LedgerInv /\ [Next]_vars => LedgerInv'
  <2> SUFFICES ASSUME LedgerInv, [Next]_vars PROVE LedgerInv'
    OBVIOUS
  <2>1. TypeOK'
    BY TypePreserved DEF LedgerInv
  <2>2. CASE \E a \in Agents, l \in Leases : PostEvent(a, l)
    BY <2>1, <2>2, LedgerStep DEF LedgerInv
  <2>3. CASE ~ \E a \in Agents, l \in Leases : PostEvent(a, l)
    BY <2>1, <2>3, LedgerUntouched DEF LedgerInv, FilledIsComplete, NoneIsEmpty
  <2>4. QED
    BY <2>2, <2>3
<1>3. LedgerInv => FilledIsComplete
  BY DEF LedgerInv
<1>4. QED
  BY <1>1, <1>2, <1>3, PTL DEF Spec
-----------------------------------------------------------------------------
\* An intent is consumed only by an order that is completely filled.
ConsumedInv == TypeOK /\ ConsumedIsExecuted

\* The only step that consumes an intent fills an order of a lease on it.
LEMMA ConsumingStep ==
    ASSUME TypeOK, [Next]_vars, NEW s \in Signals, intent'[s] = "consumed"
    PROVE  \/ intent[s] = "consumed"
           \/ \E k \in 1..MaxAttempt : order'[<<s, k>>] = "filled"
<1> USE DEF TypeOK, marketVars, leaseVars, orderVars, eventVars, adminVars
<1>1. CASE UNCHANGED intent
  BY <1>1
<1>2. ASSUME NEW a \in Agents, NEW l, Sweep(a, l) PROVE intent[s] = "consumed"
  BY <1>2, SweepFacts DEF Sweep
<1>3. ASSUME NEW a \in Agents, NEW l \in Leases, PostEvent(a, l)
      PROVE  \/ intent[s] = "consumed"
             \/ \E k \in 1..MaxAttempt : order'[<<s, k>>] = "filled"
  <2>1. ASSUME NEW accepted \in BOOLEAN, AcknowledgeLease(a, l, accepted)
        PROVE  intent[s] = "consumed"
    BY <2>1, LeaseFacts DEF AcknowledgeLease, IntentAfterAck
  <2>2. ASSUME NEW qty \in 1..MaxQty, InsertOrder(a, l, qty) PROVE UNCHANGED intent
    BY <2>2 DEF InsertOrder
  <2>3. ASSUME NEW status \in Statuses, OrderUpdate(a, l, status) PROVE UNCHANGED intent
    BY <2>3 DEF OrderUpdate
  <2>4. ASSUME NEW trade \in Trades, NEW qty \in 1..MaxQty, Fill(a, l, trade, qty)
        PROVE  \/ intent[s] = "consumed"
               \/ \E k \in 1..MaxAttempt : order'[<<s, k>>] = "filled"
    <3>1. CASE trade \in trades
      BY <2>4, <3>1 DEF Fill
    <3>2. CASE trade \notin trades
      <4> DEFINE status == FillStatus(l, filled[l] + qty)
      <4>1. /\ order' = [order EXCEPT ![l] = status]
            /\ intent' = IF status = "filled"
                         THEN [intent EXCEPT ![l[1]] = "consumed"] ELSE intent
        BY <2>4, <3>2 DEF Fill
      <4>2. l[1] \in Signals /\ l = <<l[1], l[2]>> /\ l[2] \in 1..MaxAttempt
        BY LeaseFacts
      <4> HIDE DEF status
      <4>3. CASE intent[s] # "consumed"
        <5>1. status = "filled" /\ s = l[1]
          BY <4>1, <4>3
        <5>2. order'[<<s, l[2]>>] = "filled"
          BY <4>1, <4>2, <5>1
        <5>3. QED
          BY <4>2, <5>2
      <4>4. QED
        BY <4>3
    <3>3. QED
      BY <3>1, <3>2
  <2>5. ASSUME NEW verdict \in Verdicts, Reconciliation(a, l, verdict)
        PROVE  UNCHANGED intent
    BY <2>5 DEF Reconciliation
  <2>6. QED
    BY <1>1, <1>3, <2>1, <2>2, <2>3, <2>4, <2>5 DEF PostEvent
<1>4. ASSUME Admin PROVE intent[s] = "consumed"
  BY <1>4 DEF Admin, PauseAccount, ResumeAccount, RevokeAgent, CreatePolicy,
              SetKillSwitch, ListIntents
<1>5. ASSUME NEW t \in Signals, GenerateSignal(t) \/ SignalAges(t) PROVE UNCHANGED intent
  BY <1>5 DEF GenerateSignal, SignalAges
<1>6. ASSUME NEW l \in Leases, LeaseRunsOut(l) PROVE UNCHANGED intent
  BY <1>6 DEF LeaseRunsOut
<1>7. ASSUME NEW a \in Agents,
             AbandonOrder(a) \/ \E l \in Leases, qty \in 1..MaxQty : CheckOrderRisk(a, l, qty)
      PROVE  UNCHANGED intent
  BY <1>7 DEF AbandonOrder, CheckOrderRisk
<1>8. QED
  BY <1>1, <1>2, <1>3, <1>4, <1>5, <1>6, <1>7 DEF Next, vars, ClaimLease, NoLease

\* No acknowledgement, sweep or partial fill consumes an intent, and the
\* order that consumed it stays filled (ConsumedIsExecuted).
THEOREM ConsumptionIsExecution == Spec => []ConsumedIsExecuted
<1>1. Init => ConsumedInv
  <2> SUFFICES ASSUME Init PROVE ConsumedInv
    OBVIOUS
  <2>1. TypeOK
    BY TypeInitially
  <2>2. QED
    BY <2>1 DEF Init, ConsumedInv, ConsumedIsExecuted
<1>2. ConsumedInv /\ [Next]_vars => ConsumedInv'
  <2> SUFFICES ASSUME ConsumedInv, [Next]_vars PROVE ConsumedInv'
    OBVIOUS
  <2>1. TypeOK /\ TypeOK'
    BY TypePreserved DEF ConsumedInv
  <2>2. ASSUME NEW s \in Signals, intent'[s] = "consumed"
        PROVE  \E k \in 1..MaxAttempt : order'[<<s, k>>] = "filled"
    <3>1. CASE intent[s] = "consumed"
      <4>1. PICK k \in 1..MaxAttempt : order[<<s, k>>] = "filled"
        BY <3>1 DEF ConsumedInv, ConsumedIsExecuted
      <4>2. <<s, k>> \in Leases
        BY DEF Leases
      <4>3. order'[<<s, k>>] = "filled"
        BY <2>1, <4>1, <4>2, OrderSteps, TransitionsFacts DEF TerminalStatuses
      <4>4. QED
        BY <4>3
    <3>2. CASE intent[s] # "consumed"
      BY <2>1, <2>2, <3>2, ConsumingStep
    <3>3. QED
      BY <3>1, <3>2
  <2>3. QED
    BY <2>1, <2>2 DEF ConsumedInv, ConsumedIsExecuted
<1>3. ConsumedInv => ConsumedIsExecuted
  BY DEF ConsumedInv
<1>4. QED
  BY <1>1, <1>2, <1>3, PTL DEF Spec

-----------------------------------------------------------------------------
\* Claims.  What makes ExclusiveClaim inductive: a live lease of a signal
\* that is over has run out, so a sweep that expires the intent expires the
\* lease with it.
OverMarksLease ==
    \A l \in Leases : leaseStatus[l] = "leased" /\ signal[l[1]] = "over" => leaseOver[l]

ClaimInv == TypeOK /\ ExclusiveClaim /\ OverMarksLease

\* At most one intent is picked.
LEMMA PickedOnce ==
    ASSUME NEW a, NEW s \in Signals, NEW t \in Signals, Picked(a, s), Picked(a, t)
    PROVE  s = t
<1>1. s \in Nat /\ t \in Nat
  BY CountsAssumption DEF Signals
<1>2. ~(s < t) /\ ~(t < s)
  BY DEF Picked
<1>3. QED
  BY <1>1, <1>2

\* After the sweep of a state that satisfies ClaimInv, a lease still leased
\* has not run out, its intent is as it was, and no intent it could be on
\* is claimable.
LEMMA SurvivorFacts ==
    ASSUME ClaimInv, NEW l \in Leases, LeaseAfterSweep(l) = "leased"
    PROVE  /\ leaseStatus[l] = "leased" /\ ~leaseOver[l]
           /\ IntentAfterSweep(l[1]) = intent[l[1]]
           /\ intent[l[1]] \in {"leased", "consumed"}
<1> USE DEF ClaimInv, TypeOK, ExclusiveClaim, OverMarksLease
<1>1. leaseStatus[l] = "leased" /\ ~leaseOver[l]
  BY DEF LeaseAfterSweep, LeasesOver
<1>2. intent[l[1]] \in {"leased", "consumed"} /\ signal[l[1]] # "over"
  BY <1>1
<1>3. ~ \E m \in LeasesOver : m[1] = l[1]
  BY <1>1 DEF LeasesOver
<1>4. IntentAfterSweep(l[1]) = intent[l[1]]
  BY <1>2, <1>3 DEF IntentAfterSweep, Projected
<1>5. QED
  BY <1>1, <1>2, <1>4

\* An intent the sweep leaves leased was leased and keeps its lease.
LEMMA StillLeased ==
    ASSUME ClaimInv, NEW s \in Signals, IntentAfterSweep(s) = "leased"
    PROVE  \E k \in 1..MaxAttempt : LeaseAfterSweep(<<s, k>>) = "leased"
<1>1. intent[s] = "leased" /\ ~ \E l \in LeasesOver : l[1] = s
  BY DEF IntentAfterSweep, Projected
<1>2. PICK k \in 1..MaxAttempt : leaseStatus[<<s, k>>] = "leased"
  BY <1>1 DEF ClaimInv, ExclusiveClaim
<1>3. <<s, k>> \notin LeasesOver
  BY <1>1
<1>4. QED
  BY <1>2, <1>3 DEF LeaseAfterSweep

\* The claim of an intent keeps claims exclusive.
LEMMA ClaimStep ==
    ASSUME ClaimInv, NEW a \in Agents, NEW l \in Leases, ClaimLease(a, l)
    PROVE  (ExclusiveClaim /\ OverMarksLease)'
<1>1. /\ Picked(a, l[1])
      /\ leaseStatus' = [m \in Leases |-> IF m = l THEN "leased" ELSE LeaseAfterSweep(m)]
      /\ intent' = [s \in Signals |-> IF Picked(a, s) THEN "leased"
                                      ELSE IF PassedOver(a, s) THEN "expired"
                                      ELSE IntentAfterSweep(s)]
      /\ UNCHANGED signal
      /\ leaseOver' = [leaseOver EXCEPT ![l] = FALSE]
  BY DEF ClaimLease, Sweep, marketVars
<1>2. l[1] \in Signals /\ l = <<l[1], l[2]>> /\ l[2] \in 1..MaxAttempt
  BY LeaseFacts
<1>3. signal[l[1]] = "live" /\ IntentAfterSweep(l[1]) = "pending"
  BY <1>1 DEF Picked, Claimable
<1>4. ASSUME NEW m \in Leases, leaseStatus'[m] = "leased", m # l
      PROVE  /\ m[1] \in Signals /\ m[1] # l[1]
             /\ LeaseAfterSweep(m) = "leased"
             /\ intent'[m[1]] \in {"leased", "consumed"}
  <2>1. m[1] \in Signals /\ LeaseAfterSweep(m) = "leased"
    BY <1>1, <1>4, LeaseFacts
  <2>2. IntentAfterSweep(m[1]) \in {"leased", "consumed"}
    BY <2>1, SurvivorFacts
  <2>3. m[1] # l[1]
    BY <1>3, <2>2
  <2>4. intent'[m[1]] \in {"leased", "consumed"}
    BY <1>1, <2>1, <2>2 DEF Picked, PassedOver, Claimable
  <2>5. QED
    BY <2>1, <2>3, <2>4
<1>5. ASSUME NEW s \in Signals, intent'[s] = "leased"
      PROVE  \E k \in 1..MaxAttempt : leaseStatus'[<<s, k>>] = "leased"
  <2>1. CASE Picked(a, s)
    <3>1. s = l[1]
      BY <1>1, <1>2, <2>1, PickedOnce
    <3>2. leaseStatus'[<<s, l[2]>>] = "leased"
      BY <1>1, <1>2, <3>1
    <3>3. QED
      BY <1>2, <3>2
  <2>2. CASE ~Picked(a, s)
    <3>1. IntentAfterSweep(s) = "leased"
      BY <1>1, <1>5, <2>2
    <3>2. PICK k \in 1..MaxAttempt : LeaseAfterSweep(<<s, k>>) = "leased"
      BY <3>1, StillLeased
    <3>3. <<s, k>> \in Leases
      BY DEF Leases
    <3>4. leaseStatus'[<<s, k>>] = "leased"
      BY <1>1, <3>2, <3>3
    <3>5. QED
      BY <3>4
  <2>3. QED
    BY <2>1, <2>2
<1>6. ASSUME NEW m \in Leases, NEW n \in Leases, m[1] = n[1],
             leaseStatus'[m] = "leased", leaseStatus'[n] = "leased"
      PROVE  m = n
  <2>1. CASE m = l \/ n = l
    BY <1>4, <1>6, <2>1
  <2>2. CASE m # l /\ n # l
    <3>1. leaseStatus[m] = "leased" /\ leaseStatus[n] = "leased"
      BY <1>4, <1>6, <2>2, SurvivorFacts
    <3>2. QED
      BY <1>6, <3>1 DEF ClaimInv, ExclusiveClaim
  <2>3. QED
    BY <2>1, <2>2
<1>7. ASSUME NEW m \in Leases, leaseStatus'[m] = "leased"
      PROVE  intent'[m[1]] \in {"leased", "consumed"}
  <2>1. CASE m = l
    BY <1>1, <1>2, <2>1
  <2>2. CASE m # l
    BY <1>4, <1>7, <2>2
  <2>3. QED
    BY <2>1, <2>2
<1>8. ASSUME NEW m \in Leases, leaseStatus'[m] = "leased", signal'[m[1]] = "over"
      PROVE  leaseOver'[m]
  <2>1. m # l
    BY <1>1, <1>3, <1>8
  <2>2. leaseStatus[m] = "leased" /\ ~leaseOver[m]
    BY <1>4, <1>8, <2>1, SurvivorFacts
  <2>3. QED
    BY <1>1, <1>8, <2>2 DEF ClaimInv, OverMarksLease
<1>9. QED
  BY <1>5, <1>6, <1>7, <1>8 DEF ExclusiveClaim, OverMarksLease

\* So does a sweep that claims nothing.
LEMMA NoLeaseStep ==
    ASSUME ClaimInv, NEW a \in Agents, NoLease(a)
    PROVE  (ExclusiveClaim /\ OverMarksLease)'
<1>1. <<0, 0>> \notin Leases
  BY CountsAssumption DEF Leases, Signals
<1>2. /\ \A m \in Leases : leaseStatus'[m] = LeaseAfterSweep(m)
      /\ \A s \in Signals : intent'[s] = IF PassedOver(a, s) THEN "expired"
                                         ELSE IntentAfterSweep(s)
      /\ UNCHANGED <<signal, leaseOver>>
  BY <1>1 DEF NoLease, Sweep, marketVars
<1>3. ASSUME NEW m \in Leases, leaseStatus'[m] = "leased"
      PROVE  leaseStatus[m] = "leased" /\ intent'[m[1]] \in {"leased", "consumed"}
  <2>1. LeaseAfterSweep(m) = "leased" /\ m[1] \in Signals
    BY <1>2, <1>3, LeaseFacts
  <2>2. /\ leaseStatus[m] = "leased"
        /\ IntentAfterSweep(m[1]) \in {"leased", "consumed"}
    BY <2>1, SurvivorFacts
  <2>3. QED
    BY <1>2, <2>1, <2>2 DEF PassedOver, Claimable
<1>4. ASSUME NEW s \in Signals, intent'[s] = "leased"
      PROVE  \E k \in 1..MaxAttempt : leaseStatus'[<<s, k>>] = "leased"
  <2>1. PICK k \in 1..MaxAttempt : LeaseAfterSweep(<<s, k>>) = "leased"
    BY <1>2, <1>4, StillLeased
  <2>2. <<s, k>> \in Leases
    BY DEF Leases
  <2>3. QED
    BY <1>2, <2>1, <2>2
<1>5. QED
  BY <1>2, <1>3, <1>4 DEF ClaimInv, ExclusiveClaim, OverMarksLease

\* Events move a lease and its intent together, or only consume the intent.
LEMMA EventClaimStep ==
    ASSUME ClaimInv, NEW a \in Agents, NEW l \in Leases, PostEvent(a, l)
    PROVE  (ExclusiveClaim /\ OverMarksLease)'
<1> USE DEF ClaimInv, TypeOK, ExclusiveClaim, OverMarksLease, Recorded,
            marketVars, leaseVars, orderVars, eventVars, adminVars
<1>1. ASSUME NEW accepted \in BOOLEAN, AcknowledgeLease(a, l, accepted)
      PROVE  (ExclusiveClaim /\ OverMarksLease)'
  <2>1. /\ leaseStatus[l] = "leased"
        /\ leaseStatus' = [leaseStatus EXCEPT ![l] = IF accepted THEN "acked" ELSE "rejected"]
        /\ intent' = [intent EXCEPT ![l[1]] = IntentAfterAck(intent[l[1]], accepted)]
        /\ UNCHANGED <<signal, leaseOver>>
    BY <1>1 DEF AcknowledgeLease
  <2>2. IntentAfterAck(intent[l[1]], accepted) # "leased"
    BY DEF IntentAfterAck
  <2>3. ASSUME NEW m \in Leases, leaseStatus'[m] = "leased"
        PROVE  /\ leaseStatus[m] = "leased" /\ m[1] # l[1]
               /\ intent'[m[1]] = intent[m[1]]
    BY <2>1, <2>3, LeaseFacts
  <2>4. ASSUME NEW s \in Signals, intent'[s] = "leased"
        PROVE  \E k \in 1..MaxAttempt : leaseStatus'[<<s, k>>] = "leased"
    <3>1. s # l[1] /\ intent[s] = "leased"
      BY <2>1, <2>2, <2>4, LeaseFacts
    <3>2. PICK k \in 1..MaxAttempt : leaseStatus[<<s, k>>] = "leased"
      BY <3>1
    <3>3. <<s, k>> # l /\ <<s, k>> \in Leases
      BY <3>1 DEF Leases
    <3>4. QED
      BY <2>1, <3>2, <3>3
  <2>5. QED
    BY <2>1, <2>3, <2>4
<1>2. ASSUME NEW qty \in 1..MaxQty, InsertOrder(a, l, qty)
      PROVE  UNCHANGED <<intent, leaseStatus, leaseOver, signal>>
  BY <1>2 DEF InsertOrder
<1>3. ASSUME NEW status \in Statuses, OrderUpdate(a, l, status)
      PROVE  UNCHANGED <<intent, leaseStatus, leaseOver, signal>>
  BY <1>3 DEF OrderUpdate
<1>4. ASSUME NEW trade \in Trades, NEW qty \in 1..MaxQty, Fill(a, l, trade, qty)
      PROVE  (ExclusiveClaim /\ OverMarksLease)'
  <2>1. /\ \/ UNCHANGED intent
           \/ intent' = [intent EXCEPT ![l[1]] = "consumed"]
        /\ UNCHANGED <<leaseStatus, leaseOver, signal>>
    BY <1>4 DEF Fill
  <2>2. QED
    BY <2>1, LeaseFacts
<1>5. ASSUME NEW verdict \in Verdicts, Reconciliation(a, l, verdict)
      PROVE  UNCHANGED <<intent, leaseStatus, leaseOver, signal>>
  BY <1>5 DEF Reconciliation
<1>6. CASE UNCHANGED <<intent, leaseStatus, leaseOver, signal>>
  BY <1>6
<1>7. QED
  BY <1>1, <1>2, <1>3, <1>4, <1>5, <1>6 DEF PostEvent

\* A leased intent has exactly one live lease and a live lease an intent that
\* is leased or consumed (ExclusiveClaim), whatever claims, expiries,
\* acknowledgements and fills come in between.
THEOREM ClaimsAreExclusive == Spec => []ExclusiveClaim
<1>1. Init => ClaimInv
  <2> SUFFICES ASSUME Init PROVE ClaimInv
    OBVIOUS
  <2>1. TypeOK
    BY TypeInitially
  <2>2. QED
    BY <2>1 DEF Init, ClaimInv, ExclusiveClaim, OverMarksLease
<1>2. ClaimInv /\ [Next]_vars => ClaimInv'
  <2> SUFFICES ASSUME ClaimInv, [Next]_vars PROVE (ExclusiveClaim /\ OverMarksLease)'
    BY TypePreserved DEF ClaimInv
  <2> USE DEF marketVars, leaseVars, orderVars, eventVars, adminVars
  <2>1. ASSUME NEW s \in Signals, GenerateSignal(s)
        PROVE  (ExclusiveClaim /\ OverMarksLease)'
    BY <2>1, LeaseFacts DEF GenerateSignal, ClaimInv, TypeOK, ExclusiveClaim, OverMarksLease
  <2>2. ASSUME NEW s \in Signals, SignalAges(s)
        PROVE  (ExclusiveClaim /\ OverMarksLease)'
    BY <2>2, LeaseFacts DEF SignalAges, ClaimInv, TypeOK, ExclusiveClaim, OverMarksLease
  <2>3. ASSUME NEW l \in Leases, LeaseRunsOut(l)
        PROVE  (ExclusiveClaim /\ OverMarksLease)'
    BY <2>3 DEF LeaseRunsOut, ClaimInv, TypeOK, ExclusiveClaim, OverMarksLease
  <2>4. ASSUME NEW a \in Agents, NEW l \in Leases, ClaimLease(a, l) \/ PostEvent(a, l)
        PROVE  (ExclusiveClaim /\ OverMarksLease)'
    BY <2>4, ClaimStep, EventClaimStep
  <2>5. ASSUME NEW a \in Agents, NoLease(a)
        PROVE  (ExclusiveClaim /\ OverMarksLease)'
    BY <2>5, NoLeaseStep
  <2>6. ASSUME Admin PROVE (ExclusiveClaim /\ OverMarksLease)'
    <3>1. /\ UNCHANGED <<signal, leaseStatus, leaseOver>>
          /\ \/ UNCHANGED intent
             \/ intent' = [s \in Signals |-> IF Projected(s) THEN "pending" ELSE intent[s]]
      BY <2>6 DEF Admin, PauseAccount, ResumeAccount, RevokeAgent, CreatePolicy,
                  SetKillSwitch, ListIntents
    <3>2. intent \in [Signals -> IntentStatuses]
      BY DEF ClaimInv, TypeOK
    <3>3. \A s \in Signals : intent[s] # "none" => intent'[s] = intent[s]
      BY <3>1, <3>2 DEF Projected
    <3>4. \A s \in Signals : intent'[s] = "leased" => intent[s] = "leased"
      BY <3>1, <3>2
    <3>5. QED
      BY <3>1, <3>3, <3>4, LeaseFacts DEF ClaimInv, ExclusiveClaim, OverMarksLease
  <2>7. CASE UNCHANGED vars
    BY <2>7 DEF vars, ClaimInv, ExclusiveClaim, OverMarksLease
  <2>8. ASSUME NEW a \in Agents,
               AbandonOrder(a) \/ \E l \in Leases, qty \in 1..MaxQty : CheckOrderRisk(a, l, qty)
        PROVE  (ExclusiveClaim /\ OverMarksLease)'
    BY <2>8 DEF AbandonOrder, CheckOrderRisk, ClaimInv, ExclusiveClaim, OverMarksLease
  <2>9. QED
    BY <2>1, <2>2, <2>3, <2>4, <2>5, <2>6, <2>7, <2>8 DEF Next
<1>3. ClaimInv => ExclusiveClaim
  BY DEF ClaimInv
<1>4. QED
  BY <1>1, <1>2, <1>3, PTL DEF Spec

-----------------------------------------------------------------------------
\* There are finitely many leases, so the open orders can be counted.
LEMMA LeasesFinite == IsFiniteSet(Leases)
<1>1. IsFiniteSet(Signals) /\ IsFiniteSet(1..MaxAttempt)
  BY FS_Interval, CountsAssumption DEF Signals
<1>2. QED
  BY <1>1, FS_Product DEF Leases

\* An order is created only by the insertion of one whose limits were
\* checked, and that ends its agent's submission.
LEMMA CreatingStep ==
    ASSUME TypeOK, [Next]_vars, NEW l \in Leases, order[l] = "none", order'[l] # "none"
    PROVE  \E a \in InFlight : /\ InFlight' = InFlight \ {a}
                              /\ \A m \in Leases \ {l} : order'[m] = order[m]
<1> USE DEF TypeOK, marketVars, leaseVars, orderVars, eventVars, adminVars
<1>1. PICK a \in Agents, m \in Leases : PostEvent(a, m)
  BY LedgerUntouched
<1>2. ASSUME NEW accepted \in BOOLEAN, AcknowledgeLease(a, m, accepted) PROVE FALSE
  BY <1>2 DEF AcknowledgeLease
<1>3. ASSUME NEW status \in Statuses, OrderUpdate(a, m, status) PROVE FALSE
  BY <1>3, TransitionsFacts DEF OrderUpdate
<1>4. ASSUME NEW trade \in Trades, NEW qty \in 1..MaxQty, Fill(a, m, trade, qty)
      PROVE  FALSE
  BY <1>4 DEF Fill
<1>5. ASSUME NEW verdict \in Verdicts, Reconciliation(a, m, verdict) PROVE FALSE
  BY <1>5 DEF Reconciliation
<1>6. PICK qty \in 1..MaxQty : InsertOrder(a, m, qty)
  BY <1>1, <1>2, <1>3, <1>4, <1>5 DEF PostEvent
<1>7. /\ submitting' = [submitting EXCEPT ![a] = {}]
      /\ submitting[a] # {}
      /\ m = l
      /\ \A n \in Leases \ {l} : order'[n] = order[n]
  BY <1>6 DEF InsertOrder
<1>8. a \in InFlight /\ InFlight' = InFlight \ {a}
  BY <1>7 DEF InFlight
<1>9. QED
  BY <1>7, <1>8

\* A submission gets under way only below the limit, and one at a time.
LEMMA CheckingStep ==
    ASSUME TypeOK, [Next]_vars, NEW a \in InFlight', a \notin InFlight
    PROVE  BelowOpenLimit /\ UNCHANGED order
<1> USE DEF TypeOK, marketVars, leaseVars, orderVars, eventVars, adminVars
<1>1. a \in Agents /\ submitting[a] = {} /\ submitting'[a] # {}
  BY DEF InFlight
<1>2. ASSUME NEW b \in Agents, NEW l \in Leases, PostEvent(b, l) PROVE FALSE
  <2>1. \/ UNCHANGED submitting
        \/ submitting' = [submitting EXCEPT ![b] = {}]
    BY <1>2 DEF PostEvent, AcknowledgeLease, InsertOrder, OrderUpdate, Fill,
                Reconciliation, Recorded
  <2>2. QED
    BY <1>1, <2>1
<1>3. ASSUME NEW s \in Signals, GenerateSignal(s) \/ SignalAges(s) PROVE FALSE
  BY <1>1, <1>3 DEF GenerateSignal, SignalAges
<1>4. ASSUME NEW l \in Leases, LeaseRunsOut(l) PROVE FALSE
  BY <1>1, <1>4 DEF LeaseRunsOut
<1>5. ASSUME NEW b \in Agents, NEW l, Sweep(b, l) PROVE FALSE
  BY <1>1, <1>5 DEF Sweep
<1>6. ASSUME Admin PROVE FALSE
  BY <1>1, <1>6 DEF Admin, PauseAccount, ResumeAccount, RevokeAgent, CreatePolicy,
                    SetKillSwitch, ListIntents
<1>7. ASSUME NEW b \in Agents, AbandonOrder(b) PROVE FALSE
  BY <1>1, <1>7 DEF AbandonOrder
<1>8. PICK b \in Agents, l \in Leases, qty \in 1..MaxQty : CheckOrderRisk(b, l, qty)
  BY <1>1, <1>2, <1>3, <1>4, <1>5, <1>6, <1>7 DEF Next, vars, ClaimLease, NoLease
<1>9. QED
  BY <1>8 DEF CheckOrderRisk

\* No order that has ended becomes open again.
LEMMA OpenOnlyIfOpen ==
    ASSUME TypeOK, [Next]_vars, NEW l \in Leases, order[l] # "none",
           order'[l] \in OpenStatuses
    PROVE  order[l] \in OpenStatuses
<1>1. order'[l] = order[l] \/ order'[l] \in Transitions[order[l]]
  BY OrderSteps
<1>2. CASE order[l] \in TerminalStatuses
  BY <1>1, <1>2, TransitionsFacts DEF OpenStatuses, TerminalStatuses
<1>3. CASE order[l] \notin TerminalStatuses
  BY <1>3 DEF TypeOK, OrderStatuses, OpenStatuses, TerminalStatuses
<1>4. QED
  BY <1>2, <1>3

\* What makes OpenOrdersBounded inductive: an order whose limits were checked
\* counts as if it were open already.
SubmissionsBounded ==
    Cardinality(OpenOrders) + Cardinality(InFlight) + 1 <= MaxOpen + Cardinality(Agents)

LEMMA CountFacts ==
    ASSUME TypeOK
    PROVE  /\ IsFiniteSet(OpenOrders) /\ Cardinality(OpenOrders) \in Nat
           /\ IsFiniteSet(InFlight) /\ Cardinality(InFlight) \in Nat
           /\ Cardinality(InFlight) <= Cardinality(Agents)
           /\ Cardinality(Agents) \in Nat
BY LeasesFinite, CountsAssumption, FS_Subset, FS_CardinalityType DEF OpenOrders, InFlight

\* max_open_orders is exceeded by at most one order per further agent
\* (OpenOrdersBounded), however many announcements are checked before each
\* other's insertion: the limit is looked at only before the insertion.
THEOREM LimitHolds == Spec => []OpenOrdersBounded
<1>1. Init => SubmissionsBounded
  <2> SUFFICES ASSUME Init PROVE SubmissionsBounded
    OBVIOUS
  <2>1. OpenOrders = {} /\ InFlight = {}
    BY DEF Init, OpenOrders, OpenStatuses, InFlight
  <2>2. Cardinality(OpenOrders) = 0 /\ Cardinality(InFlight) = 0
    BY <2>1, FS_EmptySet
  <2>3. Cardinality(Agents) \in Nat
    BY CountsAssumption, FS_CardinalityType
  <2>4. QED
    BY <2>2, <2>3, CountsAssumption DEF SubmissionsBounded
<1>2. TypeOK /\ TypeOK' /\ SubmissionsBounded /\ [Next]_vars => SubmissionsBounded'
  <2> SUFFICES ASSUME TypeOK, TypeOK', SubmissionsBounded, [Next]_vars
               PROVE  SubmissionsBounded'
    OBVIOUS
  <2> USE DEF SubmissionsBounded
  <2>1. /\ IsFiniteSet(OpenOrders) /\ Cardinality(OpenOrders) \in Nat
        /\ IsFiniteSet(InFlight) /\ Cardinality(InFlight) \in Nat
        /\ Cardinality(Agents) \in Nat
    BY CountFacts
  <2>2. /\ IsFiniteSet(OpenOrders') /\ Cardinality(OpenOrders') \in Nat
        /\ IsFiniteSet(InFlight') /\ Cardinality(InFlight') \in Nat
        /\ Cardinality(InFlight') <= Cardinality(Agents)
    <3>1. InFlight' \subseteq Agents
      BY DEF InFlight
    <3>2. OpenOrders' \subseteq Leases
      BY DEF OpenOrders
    <3>3. QED
      BY <3>1, <3>2, LeasesFinite, CountsAssumption, FS_Subset, FS_CardinalityType
  <2>3. CASE \E l \in Leases : order[l] = "none" /\ order'[l] # "none"
    <3>1. PICK l \in Leases : order[l] = "none" /\ order'[l] # "none"
      BY <2>3
    <3>2. PICK a \in InFlight : /\ InFlight' = InFlight \ {a}
                               /\ \A m \in Leases \ {l} : order'[m] = order[m]
      BY <3>1, CreatingStep
    <3>3. OpenOrders' \subseteq OpenOrders \cup {l}
      BY <3>2 DEF OpenOrders
    <3>4. /\ IsFiniteSet(OpenOrders \cup {l})
          /\ Cardinality(OpenOrders \cup {l}) <= Cardinality(OpenOrders) + 1
      <4>1. IsFiniteSet(OpenOrders) /\ Cardinality(OpenOrders) \in Nat
        BY <2>1
      <4>2. QED
        BY <4>1, FS_AddElement
    <3>5. Cardinality(OpenOrders') <= Cardinality(OpenOrders \cup {l})
      BY <3>3, <3>4, FS_Subset
    <3>6. Cardinality(OpenOrders \cup {l}) \in Nat
      BY <3>4, FS_CardinalityType
    <3>7. Cardinality(InFlight') = Cardinality(InFlight) - 1
      BY <2>1, <3>2, FS_RemoveElement
    <3>8. QED
      BY <2>1, <2>2, <3>4, <3>5, <3>6, <3>7, CountsAssumption
  <2>4. ASSUME ~ \E l \in Leases : order[l] = "none" /\ order'[l] # "none"
        PROVE  Cardinality(OpenOrders') <= Cardinality(OpenOrders)
    <3>1. OpenOrders' \subseteq OpenOrders
      BY <2>4, OpenOnlyIfOpen DEF OpenOrders, OpenStatuses
    <3>2. QED
      BY <2>1, <3>1, FS_Subset
  <2>5. CASE InFlight' \subseteq InFlight
    <3>1. Cardinality(InFlight') <= Cardinality(InFlight)
      BY <2>1, <2>5, FS_Subset
    <3>2. QED
      BY <2>1, <2>2, <2>3, <2>4, <3>1, CountsAssumption
  <2>6. CASE ~(InFlight' \subseteq InFlight)
    <3>1. PICK a \in InFlight' : a \notin InFlight
      BY <2>6
    <3>2. BelowOpenLimit /\ UNCHANGED order
      BY <3>1, CheckingStep
    <3>3. Cardinality(OpenOrders') < MaxOpen
      BY <3>2 DEF BelowOpenLimit, OpenOrders
    <3>4. QED
      BY <2>2, <2>1, <3>3, CountsAssumption
  <2>7. QED
    BY <2>5, <2>6
<1>3. TypeOK /\ SubmissionsBounded => OpenOrdersBounded
  BY CountFacts, CountsAssumption DEF SubmissionsBounded, OpenOrdersBounded
<1>4. QED
  BY <1>1, <1>2, <1>3, TypeCorrect, PTL DEF Spec
=============================================================================
