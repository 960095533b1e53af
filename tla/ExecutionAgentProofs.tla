----------------------- MODULE ExecutionAgentProofs -----------------------
(***************************************************************************)
(* Machine-checked proofs about ExecutionAgent, for any number of leases   *)
(* and lots and any of the faults.                                         *)
(***************************************************************************)
EXTENDS ExecutionAgent, WellFoundedInduction, TLAPS

Announcement(l) == Note(l, "order_submitted")

\* What the process is about when it is not starting up or waiting.
Deciding  == {"positions", "openOrders", "prepare"}
Ordering  == {"place", "placed", "query", "trades", "trip", "reconcile"}
Reporting == {"publish", "posting"}
Busy      == {"lease"} \cup Deciding \cup Ordering \cup Reporting

\* It works on a lease that was handed out, and it decides only about one that
\* has no order yet: no lease is handed out twice.
WorksOnLease ==
    /\ pc \in Busy => cur \in 1..handed
    /\ \A l \in Leases : l > handed => order[l] = "none"
    /\ pc \in {"lease"} \cup Deciding => order[cur] = "none"
    /\ pc \in Ordering \ {"reconcile"} => order[cur] # "none"

\* Only orders the journal has are recovered, published or posted about.
RecoversOrders ==
    /\ \A l \in recovering : order[l] # "none"
    /\ pc \in {"recoverTrades", "recoverCancel"} => recovering # {}

AnnouncesOrders ==
    /\ \A l \in Leases : Announcement(l) \in journaled => order[l] # "none"
    /\ \A i \in DOMAIN pending : pending[i] \in journaled
    /\ posted \subseteq journaled
    /\ then # "place" => \A i \in DOMAIN todo : todo[i].type # "order_submitted"

PostsAnEvent   == pc = "posting" => todo # <<>>
FlushesAnEvent == pc = "flushing" => pending # <<>>

\* What is placed was announced, and is placed once.
PlacesOnce == \A l \in Leases :
    /\ sends[l] <= 1
    /\ sends[l] > 0 => order[l] # "none" /\ Announcement(l) \in recorded

\* The order that is about to be placed is journaled, and is announced before
\* the process gets there.
AnnouncesFirst == Placing =>
    /\ sends[cur] = 0 /\ order[cur] # "none"
    /\ pc = "publish" => \/ todo = <<Announcement(cur)>> /\ Announcement(cur) \notin journaled
                         \/ todo = <<>> /\ Announcement(cur) \in recorded
    /\ pc = "posting" => todo = <<Announcement(cur)>>
    /\ pc = "place" => Announcement(cur) \in recorded

\* While the process works on a lease it went on with, its last
\* reconciliation was right.
VerdictIsOk ==
    pc \in Deciding \cup Ordering \/ (pc \in Reporting /\ then # "ready") => verdict = "ok"

\* Unresolved orders: none when startup is over, none but the one it works on
\* while the process is busy, and that one blocks whatever follows.
OthersResolved ==
    /\ pc \in {"flush", "flushing"} => \A l \in Leases : order[l] \notin Unresolved
    /\ pc \in Deciding \cup Ordering \cup Reporting =>
        \A l \in Leases \ {cur} : order[l] \notin Unresolved
    /\ pc \in {"trades", "reconcile"} \/ (pc \in Reporting /\ then = "reconcile") =>
        order[cur] \notin Unresolved
    /\ pc \in Reporting /\ then # "place" /\ order[cur] \in Unresolved => kill

\* What the exchange executed fits the order.
FillsFit == \A l \in Leases :
    /\ exch[l] # "none" => sends[l] > 0
    /\ exch[l] = "none" => executed[l] = 0
    /\ order[l] # "none" => lots[l] # 0
    /\ exch[l] \in Working => executed[l] < Size(l)

IInv ==
    /\ TypeOK /\ WorksOnLease /\ RecoversOrders /\ AnnouncesOrders
    /\ PostsAnEvent /\ FlushesAnEvent
    /\ PlacesOnce /\ AnnouncesFirst /\ VerdictIsOk /\ OthersResolved
    /\ QuarantineHolds /\ FillsFit

-----------------------------------------------------------------------------
LEMMA ShiftFacts ==
    \A i, j, n \in Int : j > i - 1 /\ j <= (i - 1) + (n - i) => j - (i - 1) \in 1..(n - i)
OBVIOUS

\* Removing one place of a sequence leaves elements of the sequence.
LEMMA RemoveAtFacts == ASSUME NEW S, NEW s \in Seq(S), NEW i \in DOMAIN s
  PROVE /\ RemoveAt(s, i) \in Seq(S)
        /\ \A j \in DOMAIN RemoveAt(s, i) : \E k \in DOMAIN s : RemoveAt(s, i)[j] = s[k]
<1>1. i \in 1..Len(s) /\ Len(s) \in Nat
  OBVIOUS
<1> DEFINE a == SubSeq(s, 1, i-1)
           b == SubSeq(s, i+1, Len(s))
<1>2. a \in Seq(S) /\ Len(a) = i - 1 /\ \A j \in 1..(i-1) : a[j] = s[j]
  BY <1>1
<1>3. b \in Seq(S) /\ Len(b) = Len(s) - i /\ \A j \in 1..(Len(s)-i) : b[j] = s[i + j]
  BY <1>1
<1>4. RemoveAt(s, i) = a \o b
  BY DEF RemoveAt
<1>5. a \o b \in Seq(S)
  BY <1>2, <1>3
<1>6. ASSUME NEW j \in DOMAIN (a \o b) PROVE \E k \in DOMAIN s : (a \o b)[j] = s[k]
  <2>. HIDE DEF a, b
  <2>1. j \in 1..(Len(a) + Len(b))
    BY <1>2, <1>3, <1>6
  <2>2. CASE j <= Len(a)
    <3>1. (a \o b)[j] = a[j]
      BY <1>2, <1>3, <2>1, <2>2
    <3>2. j \in 1..(i-1) /\ j \in DOMAIN s
      BY <1>1, <1>2, <2>1, <2>2
    <3>3. QED
      BY <1>2, <3>1, <3>2
  <2>3. CASE j > Len(a)
    <3>1. (a \o b)[j] = b[j - Len(a)]
      <4>1. a \in Seq(S) /\ b \in Seq(S) /\ Len(a) \in Nat /\ Len(b) \in Nat
        BY <1>2, <1>3
      <4>2. QED
        BY <4>1, <2>1, <2>3
    <3>2. j - Len(a) \in 1..(Len(s) - i)
      <4>1. Len(a) = i - 1 /\ Len(b) = Len(s) - i /\ i \in Int /\ Len(s) \in Int
        BY <1>1, <1>2, <1>3
      <4>2. j \in Int /\ j > i - 1 /\ j <= (i - 1) + (Len(s) - i)
        BY <2>1, <2>3, <4>1
      <4>3. j - (i - 1) \in 1..(Len(s) - i)
        BY <4>1, <4>2, ShiftFacts
      <4>4. QED
        BY <4>1, <4>3
    <3>3. PICK n \in 1..(Len(s) - i) : n = j - Len(a)
      BY <3>2
    <3>4. i + n \in 1..Len(s)
      <4>1. n \in Int /\ i \in Int /\ Len(s) \in Int /\ 1 <= n /\ n <= Len(s) - i /\ 1 <= i
        BY <1>1
      <4>2. QED
        BY <4>1
    <3>5. (a \o b)[j] = s[i + n]
      BY <1>3, <3>1, <3>3
    <3>6. QED
      BY <3>4, <3>5
  <2>4. QED
    BY <1>2, <1>3, <2>1, <2>2, <2>3
<1>7. QED
  BY <1>4, <1>5, <1>6

\* The numbers are well-founded, so the oldest of some leases is one of them.
LessThan == {p \in Nat \X Nat : p[1] < p[2]}

LEMMA LessThanIsWellFounded == IsWellFoundedOn(LessThan, Nat)
<1>1. OpToRel(<, Nat) = LessThan
  BY Zenon DEF OpToRel, LessThan
<1>2. QED
  BY <1>1, NatLessThanWellFounded, Zenon

LEMMA OldestIsRecovering ==
    ASSUME recovering \subseteq Leases, recovering # {} PROVE Oldest \in recovering
<1>1. recovering \subseteq Nat
  BY CountsAssumption DEF Leases
<1>2. PICK n \in recovering : \A m \in recovering : ~ (<<m, n>> \in LessThan)
  BY <1>1, WFMin, LessThanIsWellFounded
<1>3. ASSUME NEW m \in recovering PROVE n <= m
  <2>1. m \in Nat /\ n \in Nat
    BY <1>1
  <2>2. ~ (m < n)
    BY <1>2, <2>1 DEF LessThan
  <2>3. QED
    BY <2>1, <2>2
<1>4. QED
  BY <1>3 DEF Oldest, Min

\* The order that startup deals with.
LEMMA OldestFacts ==
    ASSUME IInv, recovering # {} PROVE Oldest \in Leases /\ order[Oldest] # "none"
<1>1. Oldest \in recovering
  BY OldestIsRecovering DEF IInv, TypeOK
<1>2. QED
  BY <1>1 DEF IInv, TypeOK, RecoversOrders

\* What the process publishes are events.
LEMMA EventFacts ==
    ASSUME NEW l \in Leases
    PROVE  /\ \A type \in EventTypes : Note(l, type) \in Event /\ Note(l, type).type = type
           /\ \A status \in {"submitted", "partially_filled", "cancelled", "rejected", "unknown"} :
                Update(l, status) \in Event /\ Update(l, status).type = "order_update"
           /\ \A trade \in 0..MaxQty :
                FillOf(l, trade) \in Event /\ FillOf(l, trade).type = "fill"
           /\ \A v \in {"ok", "mismatch"} :
                Reconciled(l, v) \in Event /\ Reconciled(l, v).type = "reconciliation"
<1>1. 0 \in 0..MaxQty
  BY CountsAssumption
<1>2. QED
  BY <1>1 DEF Note, Update, FillOf, Reconciled, Event, EventTypes

LEMMA AnnouncementFacts ==
    ASSUME NEW l \in Leases, NEW m \in Leases
    PROVE  Announcement(l) \in Event /\ (Announcement(l) = Announcement(m) => l = m)
BY EventFacts DEF Announcement, Note, EventTypes

\* What is published about an order the exchange has.
TradesOf(l, status) == <<Update(l, status)>> \o [i \in 1..executed[l] |-> FillOf(l, i)]

LEMMA TradesFacts ==
    ASSUME NEW l \in Leases, executed[l] \in 0..MaxQty,
           NEW status \in {"submitted", "partially_filled"}
    PROVE  /\ TradesOf(l, status) \in Seq(Event)
           /\ \A i \in DOMAIN TradesOf(l, status) : TradesOf(l, status)[i].type # "order_submitted"
<1> DEFINE first == <<Update(l, status)>>
           rest  == [i \in 1..executed[l] |-> FillOf(l, i)]
           Some  == {e \in Event : e.type # "order_submitted"}
<1>1. Update(l, status) \in Some
  BY EventFacts
<1>2. \A i \in 1..executed[l] : FillOf(l, i) \in Some
  <2>1. \A i \in 1..executed[l] : i \in 0..MaxQty
    BY CountsAssumption
  <2>2. QED
    BY <2>1, EventFacts
<1>3. first \in Seq(Some)
  BY <1>1
<1>4. rest \in Seq(Some)
  BY <1>2
<1>5. first \o rest \in Seq(Some)
  <2> HIDE DEF first, rest, Some
  <2>1. QED
    BY <1>3, <1>4
<1>6. \A s \in Seq(Some) : s \in Seq(Event) /\ \A i \in DOMAIN s : s[i] \in Some
  OBVIOUS
<1>7. QED
  BY <1>5, <1>6 DEF TradesOf

\* A status of the exchange becomes one of the journal, and is resolved when the
\* exchange knows the order.
LEMMA NormalizedFacts ==
    ASSUME NEW s \in ExchangeStatuses
    PROVE  /\ Normalized(s) \in JournalStatuses \ {"none"}
           /\ s \in Known => Normalized(s) \notin Unresolved
BY DEF ExchangeStatuses, JournalStatuses, Normalized, Known, Unresolved

-----------------------------------------------------------------------------
(***************************************************************************)
(* What a step can do to one variable.                                     *)
(***************************************************************************)

\* The journal's order: a new one is prepared, or one it has gets a status.
LEMMA OrderStep ==
    ASSUME IInv, [Next]_vars
    PROVE  \/ UNCHANGED <<order, lots>>
           \/ Prepare /\ order[cur] = "none"
           \/ /\ UNCHANGED lots
              /\ \E l \in Leases, s \in JournalStatuses \ {"none"} :
                    order[l] # "none" /\ order' = [order EXCEPT ![l] = s]
<1>1. CASE RecoverFound \/ RecoverNotFound \/ RecoverCancel
  <2>1. recovering # {}
    BY <1>1 DEF RecoverFound, RecoverNotFound, RecoverCancel, IInv, RecoversOrders
  <2>2. Normalized(exch[Oldest]) \in JournalStatuses \ {"none"}
    BY <2>1, OldestFacts, NormalizedFacts DEF IInv, TypeOK
  <2>3. QED
    BY <1>1, <2>1, <2>2, OldestFacts DEF RecoverFound, RecoverNotFound, RecoverCancel, JournalStatuses
<1>2. CASE OrderAnswered \/ OrderRejected \/ OrderUnresolved
  <2>1. pc \in {"placed", "query"} /\ cur \in Leases /\ order[cur] # "none"
    BY <1>2 DEF OrderAnswered, OrderRejected, OrderUnresolved, IInv, TypeOK, WorksOnLease,
                Busy, Ordering, Leases
  <2>2. Normalized(exch[cur]) \in JournalStatuses \ {"none"}
    BY <2>1, NormalizedFacts DEF IInv, TypeOK
  <2>3. QED
    BY <1>2, <2>1, <2>2 DEF OrderAnswered, OrderRejected, OrderUnresolved, JournalStatuses
<1>3. CASE Recover /\ ~ (RecoverFound \/ RecoverNotFound \/ RecoverCancel)
  BY <1>3 DEF Recover, Start, RecoverLost, RecoverTrades, Recovered, Flush, Flushed,
              FlushFails, Admit, journal
<1>4. CASE ProcessLease /\ ~ (OrderAnswered \/ OrderRejected \/ OrderUnresolved)
  BY <1>4 DEF ProcessLease, StopBlocked, GetLease, ValidateLease, ReadPositions,
              ReadOpenOrders, ReadFails, Prepare, Place, PlaceTimesOut, Trip,
              ReadTrades, Swallowed, Reconcile, journal
<1>5. CASE Publish \/ Crash \/ Operator \/ Exchange \/ Control
  BY <1>5 DEF Publish, Record, Post, PostFails, Published, Crash, Operator,
              OperatorClears, OperatorKills, Exchange, PlacementArrives, ExchangeFills,
              ExchangeExpires, ManualTrade, Control, ControlRecords, journal
<1>6. CASE UNCHANGED vars
  BY <1>6 DEF vars, journal
<1>7. QED
  BY <1>1, <1>2, <1>3, <1>4, <1>5, <1>6 DEF Next, Agent

\* Placements are sent by Place.
LEMMA SendsStep == ASSUME [Next]_vars PROVE UNCHANGED sends \/ Place
BY DEF vars, Next, Agent, Recover, Start, RecoverFound, RecoverNotFound, RecoverLost,
       RecoverTrades, RecoverCancel, Recovered, Flush, Flushed, FlushFails, Admit,
       ProcessLease, StopBlocked, GetLease, ValidateLease, ReadPositions, ReadOpenOrders,
       ReadFails, Prepare, OrderAnswered, OrderRejected, PlaceTimesOut, OrderUnresolved,
       Trip, ReadTrades, Swallowed, Reconcile, Publish, Record, Post, PostFails, Published,
       Crash, Operator, OperatorClears, OperatorKills, Exchange, PlacementArrives,
       ExchangeFills, ExchangeExpires, ManualTrade, Control, ControlRecords

\* The control plane records what was posted, and keeps it.
LEMMA RecordedStep ==
    ASSUME [Next]_vars PROVE UNCHANGED recorded \/ Control
BY DEF vars, Next, Agent, Recover, Start, RecoverFound, RecoverNotFound, RecoverLost,
       RecoverTrades, RecoverCancel, Recovered, Flush, Flushed, FlushFails, Admit,
       ProcessLease, StopBlocked, GetLease, ValidateLease, ReadPositions, ReadOpenOrders,
       ReadFails, Prepare, Place, OrderAnswered, OrderRejected, PlaceTimesOut, OrderUnresolved,
       Trip, ReadTrades, Swallowed, Reconcile, Publish, Record, Post, PostFails, Published,
       Crash, Operator, OperatorClears, OperatorKills, Exchange, PlacementArrives,
       ExchangeFills, ExchangeExpires, ManualTrade, control

\* An order the journal has it keeps.
LEMMA OrderStays ==
    ASSUME IInv, [Next]_vars, NEW l \in Leases, order[l] # "none" PROVE order'[l] # "none"
<1>1. CASE Prepare /\ order[cur] = "none"
  BY <1>1 DEF Prepare, IInv, TypeOK
<1>2. QED
  BY <1>1, OrderStep DEF IInv, TypeOK

LEMMA RecordedStays == ASSUME [Next]_vars PROVE recorded \subseteq recorded'
BY RecordedStep DEF Control, ControlRecords

\* Steps of the other sides leave the process and its journal alone.
LEMMA Environment ==
    ASSUME Operator \/ Exchange \/ Control
    PROVE  UNCHANGED <<pc, cur, todo, then, resp, agree, recovering, order, lots, fills,
                       journaled, pending, verdict, sends, handed, posted>>
BY DEF Operator, OperatorClears, OperatorKills, Exchange, PlacementArrives, ExchangeFills,
       ExchangeExpires, ManualTrade, Control, ControlRecords, memory, journal, control

-----------------------------------------------------------------------------
(***************************************************************************)
(* Every step keeps each part of the invariant.                            *)
(***************************************************************************)

LEMMA PlacesOnceKept == ASSUME IInv, [Next]_vars PROVE PlacesOnce'
<1>1. CASE UNCHANGED sends
  BY <1>1, OrderStays, RecordedStays DEF IInv, PlacesOnce
<1>2. CASE Place
  <2>1. cur \in Leases
    BY <1>2 DEF Place, IInv, TypeOK, WorksOnLease, Busy, Ordering, Leases
  <2>2. sends[cur] = 0 /\ order[cur] # "none" /\ Announcement(cur) \in recorded
    BY <1>2 DEF Place, Placing, IInv, AnnouncesFirst
  <2>3. sends' = [sends EXCEPT ![cur] = 1]
    BY <1>2, <2>2 DEF Place
  <2>4. UNCHANGED <<order, recorded>>
    BY <1>2 DEF Place, journal, control
  <2>5. QED
    BY <2>1, <2>2, <2>3, <2>4 DEF IInv, TypeOK, PlacesOnce
<1>3. QED
  BY <1>1, <1>2, SendsStep

LEMMA WorksOnLeaseKept == ASSUME IInv, [Next]_vars PROVE WorksOnLease'
<1> USE DEF IInv, TypeOK, WorksOnLease, Busy, Deciding, Ordering, Reporting, Leases, journal,
            control
<1>1. CASE Recover \/ Crash
  <2>1. pc' \notin Busy /\ UNCHANGED handed
    BY <1>1 DEF Recover, Start, RecoverFound, RecoverNotFound, RecoverLost, RecoverTrades,
        RecoverCancel, Recovered, Flush, Flushed, FlushFails, Admit, Crash, Exit, Idle, Goto
  <2>2. UNCHANGED order \/ \E l \in Leases, s \in JournalStatuses \ {"none"} :
                    order[l] # "none" /\ order' = [order EXCEPT ![l] = s]
    BY <1>1, OrderStep DEF Recover, Start, RecoverFound, RecoverNotFound, RecoverLost,
        RecoverTrades, RecoverCancel, Recovered, Flush, Flushed, FlushFails, Admit, Crash,
        Exit, Idle, Goto, Prepare
  <2>3. QED
    BY <2>1, <2>2
<1>2. CASE ProcessLease
  <2>1. CASE StopBlocked \/ Swallowed
    BY <2>1 DEF StopBlocked, Swallowed, Exit, Idle
  <2>2. CASE GetLease
    <3>1. handed' = handed + 1 /\ handed' \in Leases /\ UNCHANGED order
      <4>1. handed \in Nat /\ MaxLease \in Nat /\ handed < MaxLease /\ handed' = handed + 1
        BY <2>2, CountsAssumption DEF GetLease
      <4>2. QED
        BY <2>2, <4>1 DEF GetLease
    <3>2. CASE pc' = "lease" /\ cur' = handed'
      BY <3>1, <3>2
    <3>3. CASE UNCHANGED memory
      BY <2>2, <3>1, <3>3 DEF memory, GetLease
    <3>4. QED
      BY <2>2, <3>2, <3>3 DEF GetLease
  <2>3. CASE ValidateLease \/ ReadPositions \/ ReadOpenOrders \/ ReadFails
    BY <2>3 DEF ValidateLease, ReadPositions, ReadOpenOrders, ReadFails, Refuse, PublishThen, Goto
  <2>4. CASE Prepare
    <3>1. cur \in Leases /\ order' = [order EXCEPT ![cur] = "PREPARED"]
      BY <2>4 DEF Prepare
    <3>2. UNCHANGED <<cur, handed>> /\ pc' = "publish"
      BY <2>4 DEF Prepare, PublishThen
    <3>3. QED
      BY <2>4, <3>1, <3>2 DEF Prepare
  <2>5. CASE Place \/ PlaceTimesOut \/ Trip \/ ReadTrades \/ Reconcile
    BY <2>5 DEF Place, PlaceTimesOut, Trip, ReadTrades, Reconcile, AfterTrades, PublishThen, Goto
  <2>6. CASE OrderAnswered \/ OrderRejected \/ OrderUnresolved
    <3>1. cur \in Leases /\ order[cur] # "none"
      BY <2>6 DEF OrderAnswered, OrderRejected, OrderUnresolved
    <3>2. PICK s \in JournalStatuses \ {"none"} : order' = [order EXCEPT ![cur] = s]
      BY <2>6, <3>1, NormalizedFacts
         DEF OrderAnswered, OrderRejected, OrderUnresolved, JournalStatuses
    <3>3. UNCHANGED <<cur, handed>> /\ pc' \in {"trades", "publish", "trip"}
      BY <2>6 DEF OrderAnswered, OrderRejected, OrderUnresolved, PublishThen, Goto
    <3>4. cur \in 1..handed
      BY <2>6 DEF OrderAnswered, OrderRejected, OrderUnresolved
    <3>5. \A l \in Leases : l > handed => order'[l] = "none"
      BY <3>1, <3>2, <3>4
    <3>6. QED
      BY <3>1, <3>2, <3>3, <3>4, <3>5
  <2>7. QED
    BY <1>2, <2>1, <2>2, <2>3, <2>4, <2>5, <2>6 DEF ProcessLease
<1>3. CASE Publish
  <2>1. CASE Record \/ Post \/ PostFails
    BY <2>1 DEF Record, Post, PostFails, Idle
  <2>2. CASE Published
    BY <2>2 DEF Published, Idle, Goto, AnnouncesFirst, Placing
  <2>3. QED
    BY <1>3, <2>1, <2>2 DEF Publish
<1>4. CASE Operator \/ Exchange \/ Control \/ UNCHANGED vars
  BY <1>4, Environment DEF vars, memory
<1>5. QED
  BY <1>1, <1>2, <1>3, <1>4 DEF Next, Agent

LEMMA RecoversOrdersKept == ASSUME IInv, [Next]_vars PROVE RecoversOrders'
<1>1. \A l \in Leases : order[l] # "none" => order'[l] # "none"
  BY OrderStays
<1>2. CASE Recover \/ Crash
  BY <1>1, <1>2, OldestFacts
     DEF IInv, TypeOK, RecoversOrders, Recover, Start, RecoverFound, RecoverNotFound,
         RecoverLost, RecoverTrades, RecoverCancel, Recovered, Flush, Flushed, FlushFails,
         Admit, Crash, Exit, Idle, Goto, Incomplete, Unresolved
<1>3. CASE ProcessLease \/ Publish
  <2>1. recovering' \subseteq recovering /\ pc' \notin {"recoverTrades", "recoverCancel"}
    BY <1>3
       DEF IInv, TypeOK, ProcessLease, StopBlocked, GetLease, ValidateLease, ReadPositions, ReadOpenOrders,
           ReadFails, Prepare, Place, OrderAnswered, OrderRejected, PlaceTimesOut,
           OrderUnresolved, Trip, ReadTrades, Swallowed, Reconcile, Publish, Record, Post,
           PostFails, Published, Exit, Idle, Goto, PublishThen, Refuse, AfterTrades, memory
  <2>2. QED
    BY <1>1, <2>1 DEF IInv, TypeOK, RecoversOrders
<1>4. CASE Operator \/ Exchange \/ Control \/ UNCHANGED vars
  BY <1>4, Environment DEF vars, memory, journal, IInv, RecoversOrders
<1>5. QED
  BY <1>2, <1>3, <1>4 DEF Next, Agent

LEMMA PostsAnEventKept == ASSUME IInv, [Next]_vars PROVE PostsAnEvent'
<1>1. CASE Recover \/ Crash \/ ProcessLease \/ Publish
  BY <1>1
     DEF IInv, PostsAnEvent, Recover, Start, RecoverFound, RecoverNotFound, RecoverLost,
         RecoverTrades, RecoverCancel, Recovered, Flush, Flushed, FlushFails, Admit, Crash,
         ProcessLease, StopBlocked, GetLease, ValidateLease, ReadPositions, ReadOpenOrders,
         ReadFails, Prepare, Place, OrderAnswered, OrderRejected, PlaceTimesOut,
         OrderUnresolved, Trip, ReadTrades, Swallowed, Reconcile, Publish, Record, Post,
         PostFails, Published, Exit, Idle, Goto, PublishThen, Refuse, AfterTrades, memory,
         TypeOK
<1>2. CASE Operator \/ Exchange \/ Control \/ UNCHANGED vars
  BY <1>2, Environment DEF vars, memory, IInv, PostsAnEvent
<1>3. QED
  BY <1>1, <1>2 DEF Next, Agent

LEMMA FlushesAnEventKept == ASSUME IInv, [Next]_vars PROVE FlushesAnEvent'
<1>1. CASE Recover \/ Crash \/ ProcessLease \/ Publish
  BY <1>1
     DEF IInv, FlushesAnEvent, Recover, Start, RecoverFound, RecoverNotFound, RecoverLost,
         RecoverTrades, RecoverCancel, Recovered, Flush, Flushed, FlushFails, Admit, Crash,
         ProcessLease, StopBlocked, GetLease, ValidateLease, ReadPositions, ReadOpenOrders,
         ReadFails, Prepare, Place, OrderAnswered, OrderRejected, PlaceTimesOut,
         OrderUnresolved, Trip, ReadTrades, Swallowed, Reconcile, Publish, Record, Post,
         PostFails, Published, journal, Exit, Idle, Goto, PublishThen, Refuse, AfterTrades, memory,
         TypeOK
<1>2. CASE Operator \/ Exchange \/ Control \/ UNCHANGED vars
  BY <1>2, Environment DEF vars, memory, journal, IInv, FlushesAnEvent
<1>3. QED
  BY <1>1, <1>2 DEF Next, Agent

\* Publishing an event that is no announcement announces nothing.
LEMMA AnnouncesOrdersKept == ASSUME IInv, [Next]_vars PROVE AnnouncesOrders'
<1>1. \A l \in Leases : order[l] # "none" => order'[l] # "none"
  BY OrderStays
<1>2. CASE Record
  <2>1. todo \in Seq(Event) /\ todo # <<>> /\ pending \in Seq(Event)
    BY <1>2 DEF Record, IInv, TypeOK
  <2>2. CASE Head(todo) \in journaled
    <3>1. UNCHANGED <<journaled, pending, posted, then, order>> /\ todo' = Tail(todo)
      BY <1>2, <2>2 DEF Record
    <3>2. \A i \in DOMAIN todo' : i + 1 \in DOMAIN todo /\ todo'[i] = todo[i + 1]
      BY <2>1, <3>1
    <3>3. QED
      BY <3>1, <3>2 DEF IInv, AnnouncesOrders
  <2>3. CASE Head(todo) \notin journaled
    <3>1. /\ UNCHANGED <<todo, then, order>> /\ journaled' = journaled \cup {Head(todo)}
          /\ pending' = Append(pending, Head(todo)) /\ posted' = posted \cup {Head(todo)}
      BY <1>2, <2>3 DEF Record
    <3>2. ASSUME NEW l \in Leases, Announcement(l) = Head(todo) PROVE order[l] # "none"
      <4>1. Head(todo) = todo[1] /\ 1 \in DOMAIN todo /\ Announcement(l).type = "order_submitted"
        BY <2>1, <3>2, EventFacts DEF Announcement, EventTypes
      <4>2. then = "place"
        BY <3>2, <4>1 DEF IInv, AnnouncesOrders
      <4>3. Head(todo) = Announcement(cur) /\ order[cur] # "none" /\ cur \in Leases
        BY <1>2, <2>1, <4>2 DEF Record, IInv, AnnouncesFirst, Placing, WorksOnLease, Busy,
                           Reporting, Leases, TypeOK
      <4>4. QED
        BY <3>2, <4>3, AnnouncementFacts
    <3>3. \A i \in DOMAIN pending' : pending'[i] \in journaled'
      BY <2>1, <3>1 DEF IInv, AnnouncesOrders
    <3>4. QED
      BY <3>1, <3>2, <3>3 DEF IInv, AnnouncesOrders
  <2>4. QED
    BY <2>2, <2>3
<1>3. CASE Post \/ PostFails
  <2>1. todo \in Seq(Event) /\ pending \in Seq(Event) /\ pc = "posting"
    BY <1>3 DEF Post, PostFails, IInv, TypeOK
  <2>2. UNCHANGED <<journaled, posted, order>>
    BY <1>3 DEF Post, PostFails, journal, control
  <2>3. \A i \in DOMAIN pending' : \E k \in DOMAIN pending : pending'[i] = pending[k]
    BY <1>3, <2>1, RemoveAtFacts DEF Post, PostFails, journal
  <2>4. /\ then' = then \/ (then' = "ready" /\ todo' = <<>>)
        /\ todo' = Tail(todo) \/ todo' = <<>>
    <3>1. CASE Post
      BY <3>1 DEF Post
    <3>2. CASE PostFails
      BY <3>2 DEF PostFails, Idle
    <3>3. QED
      BY <1>3, <3>1, <3>2
  <2>5. \A i \in DOMAIN Tail(todo) : i + 1 \in DOMAIN todo /\ Tail(todo)[i] = todo[i + 1]
    BY <2>1 DEF IInv, PostsAnEvent
  <2>6. then' # "place" => \A i \in DOMAIN todo' : todo'[i].type # "order_submitted"
    <3>1. SUFFICES ASSUME then' # "place", NEW i \in DOMAIN todo'
                   PROVE  todo'[i].type # "order_submitted"
      OBVIOUS
    <3>2. todo' = Tail(todo) /\ then' = then
      BY <2>4, <3>1
    <3>3. i + 1 \in DOMAIN todo /\ todo'[i] = todo[i + 1]
      BY <2>5, <3>1, <3>2
    <3>4. QED
      BY <3>1, <3>2, <3>3 DEF IInv, AnnouncesOrders
  <2>7. \A i \in DOMAIN pending' : pending'[i] \in journaled'
    BY <2>2, <2>3 DEF IInv, AnnouncesOrders
  <2>8. QED
    BY <2>2, <2>6, <2>7 DEF IInv, AnnouncesOrders
<1>4. CASE Flush \/ Flushed
  <2>1. pending \in Seq(Event) /\ UNCHANGED <<journaled, todo, then, order>>
    BY <1>4 DEF Flush, Flushed, IInv, TypeOK, Goto, journal
  <2>2. CASE Flush
    <3>1. pending # <<>> /\ UNCHANGED pending /\ posted' = posted \cup {Head(pending)}
      BY <2>2 DEF Flush, journal
    <3>2. Head(pending) \in journaled
      BY <2>1, <3>1 DEF IInv, AnnouncesOrders
    <3>3. QED
      BY <2>1, <3>1, <3>2 DEF IInv, AnnouncesOrders
  <2>3. CASE Flushed
    <3>1. pending' = Tail(pending) /\ UNCHANGED posted
      BY <2>3 DEF Flushed, control
    <3>2. QED
      BY <2>1, <3>1 DEF IInv, AnnouncesOrders
  <2>4. QED
    BY <1>4, <2>2, <2>3
<1>5. CASE (Recover \/ Crash) /\ ~ (Flush \/ Flushed)
  <2>1. UNCHANGED <<journaled, pending, posted>>
    BY <1>5 DEF Recover, Start, RecoverFound, RecoverNotFound, RecoverLost, RecoverTrades,
           RecoverCancel, Recovered, FlushFails, Admit, Crash, journal, control
  <2>2. UNCHANGED <<todo, then>> \/ todo' = <<>>
    BY <1>5 DEF Recover, Start, RecoverFound, RecoverNotFound, RecoverLost, RecoverTrades,
           RecoverCancel, Recovered, FlushFails, Admit, Crash, Exit, Idle, Goto
  <2>3. QED
    BY <1>1, <2>1, <2>2 DEF IInv, AnnouncesOrders
<1>6. CASE ProcessLease \/ Published
  <2>1. UNCHANGED <<journaled, pending, posted>>
    BY <1>6 DEF ProcessLease, StopBlocked, GetLease, ValidateLease, ReadPositions,
           ReadOpenOrders, ReadFails, Prepare, Place, OrderAnswered, OrderRejected,
           PlaceTimesOut, OrderUnresolved, Trip, ReadTrades, Swallowed, Reconcile, Published,
           journal, control
  <2>2. then' # "place" => \A i \in DOMAIN todo' : todo'[i].type # "order_submitted"
    <3>1. CASE StopBlocked \/ GetLease \/ ReadPositions \/ Place \/ OrderAnswered
               \/ PlaceTimesOut \/ OrderUnresolved \/ Swallowed \/ Published
      BY <3>1 DEF StopBlocked, GetLease, ReadPositions, Place, OrderAnswered, PlaceTimesOut,
             OrderUnresolved, Swallowed, Published, Exit, Idle, Goto, memory, IInv, AnnouncesOrders
    <3>2. CASE Prepare
      BY <3>2 DEF Prepare, PublishThen
    <3>3. CASE ValidateLease \/ ReadOpenOrders \/ ReadFails \/ OrderRejected \/ Trip \/ Reconcile
      <4>1. CASE UNCHANGED <<todo, then>>
        BY <4>1 DEF IInv, AnnouncesOrders
      <4>2. cur \in Leases
        BY <3>3 DEF ValidateLease, ReadOpenOrders, ReadFails, OrderRejected, Trip, Reconcile,
               IInv, WorksOnLease, Busy, Deciding, Ordering, Leases, TypeOK
      <4>3. UNCHANGED <<todo, then>> \/ \E e, f \in Event : /\ todo' \in {<<e>>, <<e, f>>}
                              /\ e.type # "order_submitted" /\ f.type # "order_submitted"
        BY <3>3, <4>2, EventFacts
           DEF ValidateLease, ReadOpenOrders, ReadFails, OrderRejected, Trip, Reconcile,
               Refuse, PublishThen, Goto, EventTypes
      <4>4. QED
        BY <4>1, <4>3
    <3>4. CASE ReadTrades
      <4>1. cur \in Leases /\ executed[cur] \in 0..MaxQty
        BY <3>4 DEF ReadTrades, IInv, WorksOnLease, Busy, Ordering, Leases, TypeOK
      <4>2. CASE Cancelled
        BY <3>4, <4>1, <4>2, EventFacts DEF ReadTrades, AfterTrades, PublishThen, EventTypes
      <4>3. CASE ~ Cancelled
        <5>1. PICK status \in {"submitted", "partially_filled"} : todo' = TradesOf(cur, status)
          BY <3>4, <4>3 DEF ReadTrades, AfterTrades, PublishThen, TradesOf
        <5>2. QED
          BY <4>1, <5>1, TradesFacts
      <4>4. QED
        BY <4>2, <4>3
    <3>5. QED
      BY <1>6, <3>1, <3>2, <3>3, <3>4 DEF ProcessLease
  <2>3. QED
    BY <1>1, <2>1, <2>2 DEF IInv, AnnouncesOrders
<1>7. CASE Operator \/ Exchange \/ Control \/ UNCHANGED vars
  BY <1>7, Environment DEF vars, memory, journal, control, IInv, AnnouncesOrders
<1>8. QED
  BY <1>2, <1>3, <1>4, <1>5, <1>6, <1>7 DEF Next, Agent, Publish

\* The process announces an order before it places it.
LEMMA AnnouncesFirstKept == ASSUME IInv, [Next]_vars PROVE AnnouncesFirst'
<1>1. SUFFICES ASSUME Placing' PROVE AnnouncesFirst'
  BY DEF AnnouncesFirst
<1>2. CASE Prepare
  <2>1. cur \in Leases /\ order[cur] = "none"
    BY <1>2 DEF Prepare, IInv, TypeOK, WorksOnLease, Busy, Deciding, Leases
  <2>2. /\ pc' = "publish" /\ todo' = <<Announcement(cur)>> /\ cur' = cur
        /\ order'[cur] # "none" /\ UNCHANGED <<sends, journaled>>
    BY <1>2, <2>1 DEF Prepare, PublishThen, Announcement, IInv, TypeOK
  <2>3. sends[cur] = 0 /\ Announcement(cur) \notin journaled
    BY <2>1 DEF IInv, TypeOK, PlacesOnce, AnnouncesOrders
  <2>4. QED
    BY <2>1, <2>2, <2>3 DEF AnnouncesFirst, IInv, TypeOK
<1>3. CASE Record
  <2>1. Placing /\ pc = "publish" /\ todo # <<>>
    BY <1>1, <1>3 DEF Record, Placing
  <2>2. todo = <<Announcement(cur)>> /\ Announcement(cur) \notin journaled
    BY <2>1 DEF IInv, AnnouncesFirst
  <2>3. pc' = "posting" /\ UNCHANGED <<todo, cur, sends, order>>
    BY <1>3, <2>2 DEF Record
  <2>4. QED
    BY <2>1, <2>2, <2>3 DEF IInv, AnnouncesFirst
<1>4. CASE Post
  <2>1. Placing /\ pc = "posting"
    BY <1>1, <1>4 DEF Post, Placing
  <2>2. todo = <<Announcement(cur)>> /\ sends[cur] = 0 /\ order[cur] # "none"
    BY <2>1 DEF IInv, AnnouncesFirst
  <2>3. /\ pc' = "publish" /\ todo' = <<>> /\ Announcement(cur) \in recorded
        /\ UNCHANGED <<cur, sends, order, recorded>>
    BY <1>4, <2>2 DEF Post, control
  <2>4. QED
    BY <2>2, <2>3 DEF AnnouncesFirst, Announcement
<1>5. CASE Published
  <2>1. pc = "publish" /\ todo = <<>> /\ then = "place"
    BY <1>1, <1>5 DEF Published, Placing, Idle, Goto, IInv, TypeOK
  <2>2. sends[cur] = 0 /\ order[cur] # "none" /\ Announcement(cur) \in recorded
    BY <2>1 DEF IInv, AnnouncesFirst, Placing
  <2>3. pc' = "place" /\ UNCHANGED <<cur, sends, order, recorded>>
    BY <1>5, <2>1 DEF Published, Goto, journal, control
  <2>4. QED
    BY <2>2, <2>3 DEF AnnouncesFirst, Announcement
<1>6. CASE PostFails
  BY <1>1, <1>6 DEF PostFails, Idle, Placing, IInv, TypeOK
<1>7. CASE Recover \/ Crash
  BY <1>1, <1>7 DEF Recover, Start, RecoverFound, RecoverNotFound, RecoverLost,
         RecoverTrades, RecoverCancel, Recovered, Flush, Flushed, FlushFails, Admit, Crash,
         Exit, Idle, Goto, Placing
<1>8. CASE ProcessLease /\ ~ Prepare
  BY <1>1, <1>8
     DEF ProcessLease, StopBlocked, GetLease, ValidateLease, ReadPositions, ReadOpenOrders,
         ReadFails, Place, OrderAnswered, OrderRejected, PlaceTimesOut, OrderUnresolved,
         Trip, ReadTrades, Swallowed, Reconcile, Exit, Idle, Goto, PublishThen, Refuse,
         AfterTrades, memory, Placing
<1>9. CASE Operator \/ Exchange \/ Control \/ UNCHANGED vars
  <2>1. UNCHANGED <<pc, cur, todo, then, order, sends, journaled>>
    BY <1>9, Environment DEF vars, memory, journal
  <2>2. recorded \subseteq recorded'
    BY RecordedStays
  <2>3. QED
    BY <2>1, <2>2 DEF IInv, AnnouncesFirst, Placing, Announcement
<1>10. QED
  BY <1>2, <1>3, <1>4, <1>5, <1>6, <1>7, <1>8, <1>9 DEF Next, Agent, Publish

\* A step that turns the last reconciliation into "ok" finds it "ok".
LEMMA VerdictStep == ASSUME IInv, [Next]_vars PROVE verdict # "ok" => verdict' # "ok"
<1>1. CASE ReadOpenOrders \/ Reconcile
  BY <1>1 DEF ReadOpenOrders, Reconcile, IInv, VerdictIsOk, Deciding, Ordering
<1>2. CASE Recover \/ Crash
  BY <1>2 DEF Recover, Start, RecoverFound, RecoverNotFound, RecoverLost,
         RecoverTrades, RecoverCancel, Recovered, Flush, Flushed, FlushFails, Admit, Crash,
         journal
<1>3. CASE (ProcessLease \/ Publish) /\ ~ (ReadOpenOrders \/ Reconcile)
  BY <1>3
     DEF ProcessLease, StopBlocked, GetLease, ValidateLease, ReadPositions, ReadFails,
         Prepare, Place, OrderAnswered, OrderRejected, PlaceTimesOut, OrderUnresolved, Trip,
         ReadTrades, Swallowed, Publish, Record, Post, PostFails, Published, journal
<1>4. CASE Operator \/ Exchange \/ Control \/ UNCHANGED vars
  BY <1>4, Environment DEF vars, journal
<1>5. QED
  BY <1>1, <1>2, <1>3, <1>4 DEF Next, Agent

LEMMA VerdictIsOkKept == ASSUME IInv, [Next]_vars PROVE VerdictIsOk'
<1> USE DEF VerdictIsOk, Deciding, Ordering, Reporting
<1>1. CASE Recover \/ Crash
  BY <1>1 DEF Recover, Start, RecoverFound, RecoverNotFound, RecoverLost,
         RecoverTrades, RecoverCancel, Recovered, Flush, Flushed, FlushFails, Admit, Crash,
         Exit, Idle, Goto
<1>2. CASE StopBlocked \/ GetLease \/ ValidateLease \/ ReadPositions \/ ReadOpenOrders \/ ReadFails
  BY <1>2 DEF StopBlocked, GetLease, ValidateLease, ReadPositions, ReadOpenOrders, ReadFails,
         Exit, Idle, Goto, PublishThen, Refuse, memory, journal, Blocked, IInv
<1>3. CASE Prepare \/ Place \/ OrderAnswered \/ OrderRejected \/ PlaceTimesOut \/ OrderUnresolved
  BY <1>3 DEF Prepare, Place, OrderAnswered, OrderRejected, PlaceTimesOut, OrderUnresolved,
         Goto, PublishThen, journal, IInv
<1>4. CASE Trip \/ ReadTrades \/ Swallowed \/ Reconcile
  BY <1>4 DEF Trip, ReadTrades, Swallowed, Reconcile, Idle, PublishThen, AfterTrades, journal,
         IInv
<1>5. CASE Publish
  BY <1>5 DEF Publish, Record, Post, PostFails, Published, Idle, Goto, journal, IInv, TypeOK
<1>6. CASE Operator \/ Exchange \/ Control \/ UNCHANGED vars
  BY <1>6, Environment DEF vars, memory, journal, IInv
<1>7. QED
  BY <1>1, <1>2, <1>3, <1>4, <1>5, <1>6 DEF Next, Agent, ProcessLease

\* A step that resolves nothing and prepares nothing leaves the unresolved orders
\* as they are.
LEMMA OthersResolvedKept == ASSUME IInv, [Next]_vars PROVE OthersResolved' /\ QuarantineHolds'
<1> USE DEF OthersResolved, QuarantineHolds, Deciding, Ordering, Reporting, Busy
<1>1. CASE Recover \/ Crash
  <2>1. CASE Admit
    BY <2>1 DEF Admit, Exit, Idle, journal, IInv
  <2>2. CASE Recovered
    BY <2>2 DEF Recovered, Exit, Idle, Goto, journal, Incomplete
  <2>3. CASE Flush \/ Flushed
    BY <2>3 DEF Flush, Flushed, Goto, journal, IInv
  <2>4. CASE Start \/ RecoverFound \/ RecoverNotFound \/ RecoverLost \/ RecoverTrades
             \/ RecoverCancel \/ FlushFails \/ Crash
    BY <2>4 DEF Start, RecoverFound, RecoverNotFound, RecoverLost, RecoverTrades,
           RecoverCancel, FlushFails, Crash, Exit, Idle, Goto
  <2>5. QED
    BY <1>1, <2>1, <2>2, <2>3, <2>4 DEF Recover
<1>2. CASE StopBlocked \/ GetLease
  BY <1>2 DEF StopBlocked, GetLease, Exit, Idle, memory, journal, Blocked, IInv
<1>3. CASE ValidateLease \/ ReadPositions \/ ReadOpenOrders \/ ReadFails
  <2>1. cur \in Leases /\ order[cur] = "none" /\ UNCHANGED <<order, cur>>
    BY <1>3 DEF ValidateLease, ReadPositions, ReadOpenOrders, ReadFails, Goto, Refuse,
           PublishThen, journal, IInv, TypeOK, WorksOnLease, Leases
  <2>2. \A l \in Leases : order[l] \notin Unresolved
    BY <1>3, <2>1 DEF ValidateLease, ReadPositions, ReadOpenOrders, ReadFails, IInv, Unresolved
  <2>3. pc' \notin {"ready", "lease", "flush", "flushing"}
    BY <1>3 DEF ValidateLease, ReadPositions, ReadOpenOrders, ReadFails, Goto, Refuse,
           PublishThen
  <2>4. QED
    BY <2>1, <2>2, <2>3
<1>4. CASE Prepare
  BY <1>4 DEF Prepare, PublishThen, IInv, TypeOK
<1>5. CASE Place \/ PlaceTimesOut
  BY <1>5 DEF Place, PlaceTimesOut, Goto, journal, IInv
<1>6. CASE OrderAnswered \/ OrderRejected \/ OrderUnresolved
  <2>1. cur \in Leases /\ UNCHANGED cur
    BY <1>6 DEF OrderAnswered, OrderRejected, OrderUnresolved, Goto, PublishThen, IInv,
           TypeOK, WorksOnLease, Leases
  <2>2. \A l \in Leases \ {cur} : order'[l] \notin Unresolved
    BY <1>6, <2>1 DEF OrderAnswered, OrderRejected, OrderUnresolved, IInv, TypeOK
  <2>3. CASE OrderAnswered
    <3>1. order'[cur] \notin Unresolved
      BY <2>1, <2>3, NormalizedFacts DEF OrderAnswered, IInv, TypeOK
    <3>2. QED
      BY <2>1, <2>2, <2>3, <3>1 DEF OrderAnswered
  <2>4. CASE OrderRejected
    <3>1. order'[cur] \notin Unresolved
      BY <2>1, <2>4 DEF OrderRejected, IInv, TypeOK, Unresolved
    <3>2. QED
      BY <2>1, <2>2, <2>4, <3>1 DEF OrderRejected, PublishThen
  <2>5. CASE OrderUnresolved
    BY <2>1, <2>2, <2>5 DEF OrderUnresolved, Goto
  <2>6. QED
    BY <1>6, <2>3, <2>4, <2>5
<1>7. CASE Trip \/ ReadTrades \/ Swallowed \/ Reconcile
  <2>1. UNCHANGED order
    BY <1>7 DEF Trip, ReadTrades, Swallowed, Reconcile, journal
  <2>2. CASE Trip
    BY <2>1, <2>2 DEF Trip, PublishThen, IInv
  <2>3. CASE ReadTrades
    BY <2>1, <2>3 DEF ReadTrades, AfterTrades, PublishThen, IInv
  <2>4. CASE Swallowed
    BY <2>1, <2>4 DEF Swallowed, Idle, IInv
  <2>5. CASE Reconcile
    BY <2>1, <2>5 DEF Reconcile, PublishThen, IInv
  <2>6. QED
    BY <1>7, <2>2, <2>3, <2>4, <2>5
<1>8. CASE Publish
  <2>1. UNCHANGED order /\ (kill => kill')
    BY <1>8 DEF Publish, Record, Post, PostFails, Published, journal
  <2>2. CASE Record \/ Post
    BY <2>1, <2>2 DEF Record, Post, IInv
  <2>3. CASE PostFails
    BY <2>1, <2>3 DEF PostFails, Idle, Blocked, IInv
  <2>4. CASE Published
    <3>1. pc = "publish" /\ UNCHANGED <<order, verdict, kill>>
      BY <2>4 DEF Published, journal
    <3>2. CASE then = "ready"
      <4>1. pc' = "ready" /\ (order[cur] \in Unresolved => kill)
        BY <2>4, <3>1, <3>2 DEF Published, Idle, IInv
      <4>2. \A l \in Leases \ {cur} : order[l] \notin Unresolved
        BY <3>1 DEF IInv
      <4>3. QED
        BY <3>1, <4>1, <4>2 DEF Blocked
    <3>3. CASE then # "ready"
      <4>1. pc' = then /\ then \in {"place", "reconcile"} /\ UNCHANGED cur
        BY <2>4, <3>3 DEF Published, Goto, IInv, TypeOK
      <4>2. QED
        BY <3>1, <4>1 DEF IInv
    <3>4. QED
      BY <3>2, <3>3
  <2>5. QED
    BY <1>8, <2>2, <2>3, <2>4 DEF Publish
<1>9. CASE Operator \/ Exchange \/ Control \/ UNCHANGED vars
  <2>1. UNCHANGED <<pc, cur, then, order, verdict>>
    BY <1>9, Environment DEF vars, memory, journal
  <2>2. pc = "down" \/ (kill => kill')
    BY <1>9 DEF Operator, OperatorClears, OperatorKills, Exchange, PlacementArrives,
           ExchangeFills, ExchangeExpires, ManualTrade, Control, ControlRecords, vars
  <2>3. QED
    BY <2>1, <2>2 DEF IInv, Blocked
<1>10. QED
  BY <1>1, <1>2, <1>3, <1>4, <1>5, <1>6, <1>7, <1>8, <1>9 DEF Next, Agent, ProcessLease

-----------------------------------------------------------------------------
(***************************************************************************)
(* The exchange, and the types.                                            *)
(***************************************************************************)

\* The exchange's side of an order: a placement arrives, a lot is executed, or
\* an order that works ends.
LEMMA ExchangeStep ==
    ASSUME IInv, [Next]_vars
    PROVE  \/ UNCHANGED <<exch, executed>>
           \/ \E l \in Leases : PlacementArrives(l) \/ ExchangeFills(l)
           \/ /\ UNCHANGED executed
              /\ \E l \in Leases, s \in {"CANCELED", "EXPIRED"} :
                    exch[l] \in Working /\ exch' = [exch EXCEPT ![l] = s]
<1>1. CASE RecoverCancel
  <2>1. Oldest \in Leases
    BY <1>1, OldestFacts DEF RecoverCancel, IInv, RecoversOrders
  <2>2. QED
    BY <1>1, <2>1 DEF RecoverCancel
<1>2. CASE Recover /\ ~ RecoverCancel
  BY <1>2 DEF Recover, Start, RecoverFound, RecoverNotFound, RecoverLost, RecoverTrades,
         Recovered, Flush, Flushed, FlushFails, Admit, exchange
<1>3. CASE ProcessLease \/ Publish \/ Crash \/ UNCHANGED vars
  BY <1>3
     DEF ProcessLease, StopBlocked, GetLease, ValidateLease, ReadPositions, ReadOpenOrders,
         ReadFails, Prepare, Place, OrderAnswered, OrderRejected, PlaceTimesOut,
         OrderUnresolved, Trip, ReadTrades, Swallowed, Reconcile, Publish, Record, Post,
         PostFails, Published, Crash, exchange, vars
<1>4. CASE Operator \/ Exchange \/ Control
  BY <1>4 DEF Operator, OperatorClears, OperatorKills, Exchange, ExchangeExpires, ManualTrade,
         Control, ControlRecords, exchange
<1>5. QED
  BY <1>1, <1>2, <1>3, <1>4 DEF Next, Agent

\* The lots of an order are not changed once the journal has it.
LEMMA LotsStep ==
    ASSUME IInv, [Next]_vars
    PROVE  /\ lots' \in [Leases -> -MaxQty..MaxQty]
           /\ \A l \in Leases : order[l] # "none" => lots'[l] = lots[l]
           /\ \A l \in Leases : order[l] = "none" /\ order'[l] # "none" => lots'[l] # 0
<1>1. CASE UNCHANGED <<order, lots>>
  BY <1>1 DEF IInv, TypeOK
<1>2. CASE Prepare /\ order[cur] = "none"
  <2>1. cur \in Leases
    BY <1>2 DEF Prepare, IInv, TypeOK, WorksOnLease, Busy, Deciding, Leases
  <2>2. PICK side \in Sides, n \in 1..MaxQty : lots' = [lots EXCEPT ![cur] = side * n]
    BY <1>2 DEF Prepare
  <2>3. side * n \in -MaxQty..MaxQty /\ side * n # 0
    <3>1. side \in {-1, 1} /\ n \in Int /\ n >= 1 /\ n <= MaxQty /\ MaxQty \in Int
      BY <2>2, CountsAssumption
    <3>2. CASE side = 1
      <4>1. side * n = n
        BY <3>1, <3>2
      <4>2. QED
        BY <3>1, <4>1
    <3>3. CASE side = -1
      <4>1. side * n = -n
        BY <3>1, <3>3
      <4>2. QED
        BY <3>1, <4>1
    <3>4. QED
      BY <3>1, <3>2, <3>3
  <2>4. QED
    BY <1>2, <2>1, <2>2, <2>3 DEF Prepare, IInv, TypeOK
<1>3. CASE UNCHANGED lots /\ \E l \in Leases, s \in JournalStatuses \ {"none"} :
                    order[l] # "none" /\ order' = [order EXCEPT ![l] = s]
  BY <1>3 DEF IInv, TypeOK
<1>4. QED
  BY <1>1, <1>2, <1>3, OrderStep

LEMMA SizeFacts ==
    ASSUME IInv, NEW l \in Leases
    PROVE  Size(l) \in 0..MaxQty /\ (lots[l] # 0 => Size(l) > 0)
<1>1. lots[l] \in -MaxQty..MaxQty /\ MaxQty \in Nat
  BY CountsAssumption DEF IInv, TypeOK
<1>2. QED
  BY <1>1 DEF Size

\* The exchange executes no more than the order.
LEMMA ExecutedKept == ASSUME IInv, [Next]_vars
  PROVE /\ exch' \in [Leases -> ExchangeStatuses] /\ executed' \in [Leases -> 0..MaxQty]
        /\ \A l \in Leases : /\ exch[l] = "none" /\ exch'[l] # "none" => sends[l] > 0
                             /\ exch[l] # "none" => exch'[l] # "none"
                             /\ exch'[l] = "none" => executed'[l] = 0
                             /\ exch'[l] \in Working => executed'[l] < Size(l)
<1>1. CASE UNCHANGED <<exch, executed>>
  BY <1>1 DEF IInv, TypeOK, FillsFit
<1>2. CASE \E l \in Leases : PlacementArrives(l)
  <2>. PICK l \in Leases : PlacementArrives(l)
    BY <1>2
  <2>1. sends[l] > 0 /\ exch[l] = "none" /\ executed[l] = 0 /\ UNCHANGED executed
    BY DEF PlacementArrives, IInv, FillsFit
  <2>2. Size(l) > 0
    BY <2>1, SizeFacts DEF IInv, PlacesOnce, FillsFit
  <2>3. PICK answer \in {"NEW", "refused"} : exch' = [exch EXCEPT ![l] = answer]
    BY DEF PlacementArrives
  <2>4. QED
    BY <2>1, <2>2, <2>3 DEF IInv, TypeOK, FillsFit, ExchangeStatuses
<1>3. CASE \E l \in Leases : ExchangeFills(l)
  <2>. PICK l \in Leases : ExchangeFills(l)
    BY <1>3
  <2>1. exch[l] \in Working /\ executed[l] \in Nat /\ executed[l] < Size(l) /\ Size(l) \in 0..MaxQty
    BY SizeFacts, CountsAssumption DEF ExchangeFills, IInv, TypeOK, FillsFit
  <2>2. executed[l] + 1 \in 0..MaxQty /\ (executed[l] + 1 # Size(l) => executed[l] + 1 < Size(l))
    BY <2>1, CountsAssumption
  <2>3. executed' = [executed EXCEPT ![l] = executed[l] + 1]
    BY DEF ExchangeFills
  <2>4. exch' = [exch EXCEPT ![l] = IF executed[l] + 1 = Size(l) THEN "FILLED"
                                    ELSE "PARTIALLY_FILLED"]
    BY DEF ExchangeFills
  <2>5. QED
    BY <2>1, <2>2, <2>3, <2>4 DEF IInv, TypeOK, FillsFit, ExchangeStatuses, Working
<1>4. CASE /\ UNCHANGED executed
           /\ \E l \in Leases, s \in {"CANCELED", "EXPIRED"} :
                 exch[l] \in Working /\ exch' = [exch EXCEPT ![l] = s]
  BY <1>4 DEF IInv, TypeOK, FillsFit, ExchangeStatuses, Working
<1>5. QED
  BY <1>1, <1>2, <1>3, <1>4, ExchangeStep

LEMMA FillsFitKept == ASSUME IInv, [Next]_vars PROVE FillsFit'
<1> SUFFICES ASSUME NEW l \in Leases
             PROVE  /\ exch'[l] # "none" => sends'[l] > 0
                    /\ exch'[l] = "none" => executed'[l] = 0
                    /\ order'[l] # "none" => lots'[l] # 0
                    /\ exch'[l] \in Working => executed'[l] < Size(l)'
  BY DEF FillsFit
<1>1. sends[l] \in Nat /\ (sends[l] > 0 => sends'[l] > 0)
  <2>1. CASE UNCHANGED sends
    BY <2>1 DEF IInv, TypeOK
  <2>2. CASE Place
    BY <2>2 DEF Place, IInv, TypeOK
  <2>3. QED
    BY <2>1, <2>2, SendsStep
<1>2. exch'[l] # "none" => sends[l] > 0
  BY ExecutedKept DEF IInv, FillsFit
<1>3. order'[l] # "none" => lots'[l] # 0
  BY LotsStep DEF IInv, FillsFit
<1>4. sends[l] > 0 => Size(l)' = Size(l)
  BY LotsStep DEF IInv, PlacesOnce, Size
<1>5. exch'[l] \in Working => exch'[l] # "none"
  BY DEF Working
<1>6. QED
  BY <1>1, <1>2, <1>3, <1>4, <1>5, ExecutedKept

\* The types, one part of the state at a time.
LEMMA MemoryTyped == ASSUME IInv, [Next]_vars
  PROVE /\ pc' \in Steps /\ cur' \in 0..MaxLease /\ then' \in {"ready", "place", "reconcile"}
        /\ resp' \in ExchangeStatuses /\ agree' \in BOOLEAN /\ recovering' \subseteq Leases
        /\ handed' \in 0..MaxLease
<1>1. handed < MaxLease => handed + 1 \in 0..MaxLease
  BY CountsAssumption DEF IInv, TypeOK
<1>2. 0 \in 0..MaxLease
  BY CountsAssumption
<1>3. CASE Recover \/ Crash
  BY <1>2, <1>3, OldestFacts
     DEF IInv, TypeOK, Steps, ExchangeStatuses, Known, Recover, Start, RecoverFound, RecoverNotFound,
         RecoverLost, RecoverTrades, RecoverCancel, Recovered, Flush, Flushed, FlushFails,
         Admit, Crash, Exit, Idle, Goto, control
<1>4. CASE ProcessLease
  <2>1. CASE StopBlocked \/ GetLease \/ ValidateLease \/ ReadPositions \/ ReadOpenOrders
             \/ ReadFails \/ Prepare \/ Place
    BY <1>1, <1>2, <2>1
       DEF IInv, TypeOK, Steps, ExchangeStatuses, StopBlocked, GetLease, ValidateLease,
           ReadPositions, ReadOpenOrders, ReadFails, Prepare, Place, Exit, Idle, Goto,
           PublishThen, Refuse, memory, control
  <2>2. CASE OrderAnswered \/ OrderRejected \/ PlaceTimesOut \/ OrderUnresolved \/ Trip
             \/ ReadTrades \/ Swallowed \/ Reconcile
    BY <1>2, <2>2
       DEF IInv, TypeOK, Steps, ExchangeStatuses, Known, OrderAnswered, OrderRejected, PlaceTimesOut,
           OrderUnresolved, Trip, ReadTrades, Swallowed, Reconcile, Idle, Goto, PublishThen,
           AfterTrades, control
  <2>3. QED
    BY <1>4, <2>1, <2>2 DEF ProcessLease
<1>5. CASE Publish
  BY <1>2, <1>5
     DEF IInv, TypeOK, Steps, ExchangeStatuses, Publish, Record, Post, PostFails, Published,
         Idle, Goto, control
<1>6. CASE Operator \/ Exchange \/ Control \/ UNCHANGED vars
  BY <1>6, Environment DEF IInv, TypeOK, vars, memory, control
<1>7. QED
  BY <1>3, <1>4, <1>5, <1>6 DEF Next, Agent

LEMMA TodoTyped == ASSUME IInv, [Next]_vars PROVE todo' \in Seq(Event)
<1>1. todo \in Seq(Event) /\ <<>> \in Seq(Event)
  BY DEF IInv, TypeOK
<1>2. CASE Recover \/ Crash
  <2>1. todo' = todo \/ todo' = <<>>
    BY <1>2 DEF Recover, Start, RecoverFound, RecoverNotFound, RecoverLost, RecoverTrades,
           RecoverCancel, Recovered, Flush, Flushed, FlushFails, Admit, Crash, Exit, Idle, Goto
  <2>2. QED
    BY <1>1, <2>1
<1>3. CASE ProcessLease
  <2>1. CASE StopBlocked \/ GetLease \/ ReadPositions \/ Place \/ OrderAnswered
             \/ PlaceTimesOut \/ OrderUnresolved \/ Swallowed
    <3>1. todo' = todo \/ todo' = <<>>
      BY <2>1 DEF StopBlocked, GetLease, ReadPositions, Place, OrderAnswered, PlaceTimesOut,
             OrderUnresolved, Swallowed, Exit, Idle, Goto, memory
    <3>2. QED
      BY <1>1, <3>1
  <2>2. CASE ValidateLease \/ ReadOpenOrders \/ ReadFails \/ Prepare \/ OrderRejected \/ Trip
             \/ Reconcile
    <3>1. cur \in Leases
      BY <2>2 DEF ValidateLease, ReadOpenOrders, ReadFails, Prepare, OrderRejected, Trip,
             Reconcile, IInv, WorksOnLease, Busy, Deciding, Ordering, Leases, TypeOK
    <3>2. todo' = todo \/ \E e, f \in Event : todo' \in {<<e>>, <<e, f>>}
      BY <2>2, <3>1, EventFacts
         DEF ValidateLease, ReadOpenOrders, ReadFails, Prepare, OrderRejected, Trip, Reconcile,
             Refuse, PublishThen, Goto, EventTypes
    <3>3. \A e, f \in Event : <<e>> \in Seq(Event) /\ <<e, f>> \in Seq(Event)
      OBVIOUS
    <3>4. QED
      BY <1>1, <3>2, <3>3
  <2>3. CASE ReadTrades
    <3>1. cur \in Leases /\ executed[cur] \in 0..MaxQty
      BY <2>3 DEF ReadTrades, IInv, WorksOnLease, Busy, Ordering, Leases, TypeOK
    <3>2. CASE Cancelled
      <4>1. todo' = <<Update(cur, "cancelled"), Note(cur, "lease_reject")>>
        BY <2>3, <3>2 DEF ReadTrades, AfterTrades, PublishThen
      <4>2. Update(cur, "cancelled") \in Event /\ Note(cur, "lease_reject") \in Event
        BY <3>1, EventFacts DEF EventTypes
      <4>3. QED
        BY <4>1, <4>2
    <3>3. CASE ~ Cancelled
      <4>1. PICK status \in {"submitted", "partially_filled"} : todo' = TradesOf(cur, status)
        BY <2>3, <3>3 DEF ReadTrades, AfterTrades, PublishThen, TradesOf
      <4>2. QED
        BY <3>1, <4>1, TradesFacts
    <3>4. QED
      BY <3>2, <3>3
  <2>4. QED
    BY <1>3, <2>1, <2>2, <2>3 DEF ProcessLease
<1>4. CASE Publish
  <2>1. todo # <<>> => Tail(todo) \in Seq(Event)
    BY <1>1
  <2>2. CASE Record \/ Post \/ PostFails
    <3>1. todo' = todo \/ todo' = <<>> \/ (todo # <<>> /\ todo' = Tail(todo))
      BY <2>2 DEF Record, Post, PostFails, Idle, IInv, PostsAnEvent
    <3>2. QED
      BY <1>1, <2>1, <3>1
  <2>3. CASE Published
    BY <1>1, <2>3 DEF Published, Idle, Goto
  <2>4. QED
    BY <1>4, <2>2, <2>3 DEF Publish
<1>5. CASE Operator \/ Exchange \/ Control \/ UNCHANGED vars
  BY <1>1, <1>5, Environment DEF vars, memory
<1>6. QED
  BY <1>2, <1>3, <1>4, <1>5 DEF Next, Agent

LEMMA EventsTyped == ASSUME IInv, [Next]_vars
  PROVE /\ journaled' \subseteq Event /\ pending' \in Seq(Event)
        /\ posted' \subseteq Event /\ recorded' \subseteq posted'
<1>1. /\ journaled \subseteq Event /\ pending \in Seq(Event) /\ posted \subseteq Event
      /\ recorded \subseteq posted /\ todo \in Seq(Event)
  BY DEF IInv, TypeOK
<1>2. CASE Flush
  <2>1. pending # <<>> => Head(pending) \in Event
    BY <1>1
  <2>2. QED
    BY <1>1, <1>2, <2>1 DEF Flush, journal
<1>3. CASE Flushed
  <2>1. pending # <<>>
    BY <1>3 DEF Flushed, IInv, FlushesAnEvent
  <2>2. Tail(pending) \in Seq(Event)
    BY <1>1, <2>1
  <2>3. QED
    BY <1>1, <1>3, <2>2 DEF Flushed, control
<1>4. CASE Record
  <2>1. Head(todo) \in Event
    BY <1>1, <1>4 DEF Record
  <2>2. Append(pending, Head(todo)) \in Seq(Event)
    BY <1>1, <2>1
  <2>3. QED
    BY <1>1, <1>4, <2>1, <2>2 DEF Record
<1>5. CASE Post
  <2>1. pending' \in Seq(Event)
    BY <1>1, <1>5, RemoveAtFacts DEF Post
  <2>2. QED
    BY <1>1, <1>5, <2>1 DEF Post, control
<1>6. CASE Control
  BY <1>1, <1>6 DEF Control, ControlRecords, journal
<1>7. CASE (Recover \/ Crash) /\ ~ (Flush \/ Flushed)
  BY <1>1, <1>7 DEF Recover, Start, RecoverFound, RecoverNotFound, RecoverLost, RecoverTrades,
         RecoverCancel, Recovered, FlushFails, Admit, Crash, journal, control
<1>8. CASE ProcessLease \/ PostFails \/ Published
  BY <1>1, <1>8
     DEF ProcessLease, StopBlocked, GetLease, ValidateLease, ReadPositions, ReadOpenOrders,
         ReadFails, Prepare, Place, OrderAnswered, OrderRejected, PlaceTimesOut,
         OrderUnresolved, Trip, ReadTrades, Swallowed, Reconcile, PostFails, Published,
         journal, control
<1>9. CASE Operator \/ Exchange \/ UNCHANGED vars
  BY <1>1, <1>9 DEF Operator, OperatorClears, OperatorKills, Exchange, PlacementArrives,
         ExchangeFills, ExchangeExpires, ManualTrade, vars, journal, control
<1>10. QED
  BY <1>2, <1>3, <1>4, <1>5, <1>6, <1>7, <1>8, <1>9 DEF Next, Agent, Publish

LEMMA RestTyped == ASSUME IInv, [Next]_vars
  PROVE /\ order' \in [Leases -> JournalStatuses] /\ fills' \in [Leases -> 0..MaxQty]
        /\ verdict' \in {"ok", "mismatch", "unknown"} /\ kill' \in BOOLEAN
        /\ sends' \in [Leases -> Nat] /\ manual' \in 0..1
<1>1. order' \in [Leases -> JournalStatuses]
  <2>1. CASE Prepare /\ order[cur] = "none"
    BY <2>1 DEF Prepare, IInv, TypeOK, JournalStatuses
  <2>2. QED
    BY <2>1, OrderStep DEF IInv, TypeOK
<1>2. sends' \in [Leases -> Nat]
  <2>1. CASE UNCHANGED sends
    BY <2>1 DEF IInv, TypeOK
  <2>2. CASE Place
    <3>1. cur \in Leases /\ sends' = [sends EXCEPT ![cur] = sends[cur] + 1]
      BY <2>2 DEF Place, IInv, TypeOK, WorksOnLease, Busy, Ordering, Leases
    <3>2. QED
      BY <3>1 DEF IInv, TypeOK
  <2>3. QED
    BY <2>1, <2>2, SendsStep
<1>3. CASE Recover \/ Crash
  BY <1>1, <1>2, <1>3 DEF Recover, Start, RecoverFound, RecoverNotFound, RecoverLost,
         RecoverTrades, RecoverCancel, Recovered, Flush, Flushed, FlushFails, Admit, Crash,
         Exit, journal, exchange, IInv, TypeOK
<1>4. CASE ProcessLease
  BY <1>1, <1>2, <1>4
     DEF ProcessLease, StopBlocked, GetLease, ValidateLease, ReadPositions, ReadOpenOrders,
         ReadFails, Prepare, Place, OrderAnswered, OrderRejected, PlaceTimesOut,
         OrderUnresolved, Trip, ReadTrades, Swallowed, Reconcile, journal, exchange, IInv, TypeOK
<1>5. CASE Publish \/ UNCHANGED vars
  BY <1>1, <1>2, <1>5 DEF Publish, Record, Post, PostFails, Published, vars, journal, exchange,
         IInv, TypeOK
<1>6. CASE Operator \/ Exchange \/ Control
  <2>1. /\ UNCHANGED <<fills, verdict>> /\ manual' \in {manual, 1}
        /\ kill' = kill \/ kill' = TRUE \/ kill' = FALSE
    BY <1>6 DEF Operator, OperatorClears, OperatorKills, Exchange, PlacementArrives,
           ExchangeFills, ExchangeExpires, ManualTrade, Control, ControlRecords, journal, exchange
  <2>2. kill \in BOOLEAN
    BY DEF IInv, TypeOK
  <2>3. kill' \in BOOLEAN
    BY <2>1, <2>2, Zenon
  <2>4. manual' \in 0..1 /\ fills' \in [Leases -> 0..MaxQty]
        /\ verdict' \in {"ok", "mismatch", "unknown"}
    BY <2>1 DEF IInv, TypeOK
  <2>5. QED
    BY <1>1, <1>2, <2>3, <2>4
<1>7. QED
  BY <1>3, <1>4, <1>5, <1>6 DEF Next, Agent

LEMMA TypeKept == ASSUME IInv, [Next]_vars PROVE TypeOK'
BY MemoryTyped, TodoTyped, EventsTyped, RestTyped, LotsStep, ExecutedKept DEF TypeOK

-----------------------------------------------------------------------------
(***************************************************************************)
(* The theorems.                                                           *)
(***************************************************************************)

LEMMA InvInitially == Init => IInv
<1> SUFFICES ASSUME Init PROVE IInv
  OBVIOUS
<1>1. TypeOK
  <2>1. 0 \in 0..MaxLease /\ 0 \in 0..MaxQty /\ 0 \in -MaxQty..MaxQty
    BY CountsAssumption
  <2>2. <<>> \in Seq(Event)
    OBVIOUS
  <2>3. pc \in Steps /\ cur \in 0..MaxLease /\ todo \in Seq(Event) /\ pending \in Seq(Event)
    BY <2>1, <2>2 DEF Init, Steps
  <2>4. /\ order \in [Leases -> JournalStatuses] /\ exch \in [Leases -> ExchangeStatuses]
        /\ lots \in [Leases -> -MaxQty..MaxQty] /\ sends \in [Leases -> Nat]
        /\ fills \in [Leases -> 0..MaxQty] /\ executed \in [Leases -> 0..MaxQty]
    BY <2>1 DEF Init, JournalStatuses, ExchangeStatuses
  <2>5. agree \in BOOLEAN /\ kill \in BOOLEAN
    BY DEF Init
  <2>6. QED
    BY <2>1, <2>3, <2>4, <2>5 DEF Init, TypeOK, ExchangeStatuses
<1>2. WorksOnLease /\ RecoversOrders /\ AnnouncesOrders /\ PostsAnEvent /\ FlushesAnEvent
  BY DEF Init, WorksOnLease, RecoversOrders, AnnouncesOrders, PostsAnEvent, FlushesAnEvent,
         Busy, Deciding, Ordering, Reporting
<1>3. PlacesOnce /\ AnnouncesFirst /\ VerdictIsOk /\ OthersResolved /\ QuarantineHolds
  BY DEF Init, PlacesOnce, AnnouncesFirst, VerdictIsOk, OthersResolved, QuarantineHolds,
         Placing, Deciding, Ordering, Reporting
<1>4. FillsFit
  BY DEF Init, FillsFit, Working
<1>5. QED
  BY <1>1, <1>2, <1>3, <1>4 DEF IInv

LEMMA InvKept == IInv /\ [Next]_vars => IInv'
BY TypeKept, WorksOnLeaseKept, RecoversOrdersKept, AnnouncesOrdersKept, PostsAnEventKept,
   FlushesAnEventKept, PlacesOnceKept, AnnouncesFirstKept, VerdictIsOkKept,
   OthersResolvedKept, FillsFitKept
   DEF IInv

LEMMA InvAlways == Spec => []IInv
BY InvInitially, InvKept, PTL DEF Spec

\* Every variable has its type, whatever the number of leases and lots and
\* whatever fails.
THEOREM TypeCorrect == Spec => []TypeOK
<1>1. IInv => TypeOK
  BY DEF IInv
<1>2. QED
  BY <1>1, InvAlways, PTL

\* "never blind-resubmits": through timeouts, crashes and restarts a lease
\* places at most one order.
THEOREM OneSubmission == Spec => []NeverResubmitted
<1>1. IInv => NeverResubmitted
  BY DEF IInv, PlacesOnce, NeverResubmitted
<1>2. QED
  BY <1>1, InvAlways, PTL

\* An order that left the process is in its journal, and the control plane
\* has recorded that it was to be placed.
THEOREM JournaledFirst == Spec => []WriteAhead
<1>1. IInv => WriteAhead
  BY DEF IInv, PlacesOnce, WriteAhead, Announcement
<1>2. QED
  BY <1>1, InvAlways, PTL

\* An agent that waits for a lease or has just got one has resolved every
\* order it ever placed, or is blocked.
THEOREM NoLooseOrder == Spec => []QuarantineHolds
<1>1. IInv => QuarantineHolds
  BY DEF IInv
<1>2. QED
  BY <1>1, InvAlways, PTL

\* No step of the agent, and no restart, turns a reconciliation that failed
\* into one that succeeded.
THEOREM MismatchStays == Spec => MismatchLatched
<1>1. IInv /\ [Next]_vars => [verdict # "ok" => verdict' # "ok"]_vars
  BY VerdictStep
<1>2. QED
  BY <1>1, InvAlways, PTL DEF Spec, MismatchLatched

\* While the fate of one order is unresolved no other order is placed.
THEOREM PlacesWhenResolved == Spec => UnresolvedStopsPlacing
<1> DEFINE Others == \A l \in Leases : sends'[l] # sends[l] =>
                        \A m \in Leases \ {l} : order[m] \notin Unresolved
<1>1. ASSUME IInv, [Next]_vars PROVE Others
  <2>1. CASE Place
    <3>1. \A m \in Leases \ {cur} : order[m] \notin Unresolved
      BY <1>1, <2>1 DEF Place, IInv, OthersResolved, Ordering
    <3>2. \A l \in Leases \ {cur} : sends'[l] = sends[l]
      BY <1>1, <2>1 DEF Place, IInv, TypeOK
    <3>3. QED
      BY <3>1, <3>2
  <2>2. QED
    BY <1>1, <2>1, SendsStep
<1>2. IInv /\ [Next]_vars => [Others]_vars
  BY <1>1
<1>3. QED
  BY <1>2, InvAlways, PTL DEF Spec, UnresolvedStopsPlacing

-----------------------------------------------------------------------------
(***************************************************************************)
(* A restarted agent knows how its orders ended.                           *)
(***************************************************************************)

Ended == {"FILLED", "CANCELED", "EXPIRED"}

\* The journal calls filled or cancelled what the exchange does: such an order
\* cannot change any more.
JournalAgrees == \A l \in Leases :
    /\ order[l] = "FILLED" => exch[l] = "FILLED"
    /\ order[l] = "CANCELLED" => exch[l] = "CANCELED"

\* The loop over the incomplete orders has left none.
NoneIncomplete ==
    pc \in {"flush", "flushing"} => \A l \in Leases : order[l] \notin Incomplete

RestartInv == IInv /\ JournalAgrees /\ NoneIncomplete

\* What has ended at the exchange has ended.
LEMMA EndedStays ==
    ASSUME IInv, [Next]_vars, NEW l \in Leases, exch[l] \in Ended
    PROVE  exch'[l] = exch[l]
<1>1. exch \in [Leases -> ExchangeStatuses]
  BY DEF IInv, TypeOK
<1>2. CASE \E k \in Leases : PlacementArrives(k) \/ ExchangeFills(k)
  BY <1>1, <1>2 DEF PlacementArrives, ExchangeFills, Working, Ended
<1>3. QED
  BY <1>1, <1>2, ExchangeStep DEF Working, Ended

\* The journal takes a final status over from the exchange, or gives it to an
\* order that it has just cancelled there.
LEMMA FinalStatus ==
    ASSUME IInv, [Next]_vars, NEW l \in Leases, order'[l] # order[l],
           order'[l] \in {"FILLED", "CANCELLED"}
    PROVE  \/ order'[l] = Normalized(exch[l])
           \/ order'[l] = "CANCELLED" /\ exch'[l] = "CANCELED"
<1>1. order \in [Leases -> JournalStatuses] /\ exch \in [Leases -> ExchangeStatuses]
  BY DEF IInv, TypeOK
<1>2. CASE RecoverFound \/ RecoverNotFound \/ RecoverCancel
  <2>1. Oldest \in Leases
    BY <1>2, OldestFacts
       DEF RecoverFound, RecoverNotFound, RecoverCancel, IInv, RecoversOrders
  <2>2. QED
    BY <1>1, <1>2, <2>1 DEF RecoverFound, RecoverNotFound, RecoverCancel
<1>3. CASE OrderAnswered \/ OrderRejected \/ OrderUnresolved
  BY <1>1, <1>3 DEF OrderAnswered, OrderRejected, OrderUnresolved
<1>4. CASE Prepare
  BY <1>1, <1>4 DEF Prepare
<1>5. CASE Recover /\ ~ (RecoverFound \/ RecoverNotFound \/ RecoverCancel)
  BY <1>5 DEF Recover, Start, RecoverLost, RecoverTrades, Recovered, Flush, Flushed,
              FlushFails, Admit, journal
<1>6. CASE ProcessLease /\ ~ (OrderAnswered \/ OrderRejected \/ OrderUnresolved \/ Prepare)
  BY <1>6 DEF ProcessLease, StopBlocked, GetLease, ValidateLease, ReadPositions,
              ReadOpenOrders, ReadFails, Place, PlaceTimesOut, Trip,
              ReadTrades, Swallowed, Reconcile, journal
<1>7. CASE Publish \/ Crash \/ Operator \/ Exchange \/ Control \/ UNCHANGED vars
  BY <1>7 DEF Publish, Record, Post, PostFails, Published, Crash, Operator,
              OperatorClears, OperatorKills, Exchange, PlacementArrives, ExchangeFills,
              ExchangeExpires, ManualTrade, Control, ControlRecords, journal, vars
<1>8. QED
  BY <1>2, <1>3, <1>4, <1>5, <1>6, <1>7 DEF Next, Agent

LEMMA JournalAgreesKept ==
    ASSUME IInv, JournalAgrees, [Next]_vars PROVE JournalAgrees'
<1> SUFFICES ASSUME NEW l \in Leases, order'[l] \in {"FILLED", "CANCELLED"}
             PROVE  /\ order'[l] = "FILLED" => exch'[l] = "FILLED"
                    /\ order'[l] = "CANCELLED" => exch'[l] = "CANCELED"
  BY DEF JournalAgrees
<1>1. CASE order'[l] = order[l]
  BY <1>1, EndedStays DEF JournalAgrees, Ended
<1>2. CASE order'[l] # order[l] /\ order'[l] = Normalized(exch[l])
  <2>1. exch[l] \in ExchangeStatuses
    BY DEF IInv, TypeOK
  <2>2. /\ order'[l] = "FILLED" => exch[l] = "FILLED"
        /\ order'[l] = "CANCELLED" => exch[l] = "CANCELED"
    BY <1>2, <2>1 DEF Normalized, ExchangeStatuses
  <2>3. QED
    BY <2>2, EndedStays DEF Ended
<1>3. QED
  BY <1>1, <1>2, FinalStatus

\* Nothing happens to the journal's orders between the loop and the polling.
LEMMA NoneIncompleteKept ==
    ASSUME IInv, NoneIncomplete, [Next]_vars PROVE NoneIncomplete'
<1>1. CASE Recover
  BY <1>1 DEF Recover, Start, RecoverFound, RecoverNotFound, RecoverLost, RecoverTrades,
              RecoverCancel, Recovered, Flush, Flushed, FlushFails, Admit, Goto, Idle,
              Exit, journal, NoneIncomplete
<1>2. CASE ProcessLease
  BY <1>2 DEF ProcessLease, StopBlocked, GetLease, ValidateLease, ReadPositions,
              ReadOpenOrders, ReadFails, Prepare, Place, OrderAnswered, OrderRejected,
              PlaceTimesOut, OrderUnresolved, Trip, ReadTrades, AfterTrades, Swallowed,
              Reconcile, Refuse, PublishThen, Goto, Idle, Exit, memory, NoneIncomplete
<1>3. CASE Publish \/ Crash
  BY <1>3 DEF Publish, Record, Post, PostFails, Published, Crash, Goto, Idle, Exit,
              IInv, TypeOK, NoneIncomplete
<1>4. CASE Operator \/ Exchange \/ Control
  BY <1>4, Environment DEF NoneIncomplete
<1>5. CASE UNCHANGED vars
  BY <1>5 DEF vars, memory, journal, NoneIncomplete
<1>6. QED
  BY <1>1, <1>2, <1>3, <1>4, <1>5 DEF Next, Agent

LEMMA RestartInvAlways == Spec => []RestartInv
<1>1. Init => RestartInv
  <2>1. Init => JournalAgrees /\ NoneIncomplete
    BY DEF Init, JournalAgrees, NoneIncomplete
  <2>2. QED
    BY <2>1, InvInitially DEF RestartInv
<1>2. RestartInv /\ [Next]_vars => RestartInv'
  BY InvKept, JournalAgreesKept, NoneIncompleteKept DEF RestartInv
<1>3. QED
  BY <1>1, <1>2, PTL DEF Spec

\* Whatever the agent died of and whatever the exchange did since, it polls
\* after a restart only when every order of the journal has ended, and those
\* it calls filled or cancelled do not work at the exchange.
THEOREM RestartsResolved == Spec => RestartResolves
<1> DEFINE Resolved == pc = "flush" /\ pc' = "ready" =>
                        \A l \in Leases :
                           /\ order[l] \in {"none", "FILLED", "REJECTED", "CANCELLED"}
                           /\ order[l] \in {"FILLED", "CANCELLED"} => exch[l] \notin Working
<1>1. ASSUME RestartInv, pc = "flush" PROVE Resolved
  <2>1. \A l \in Leases : order[l] \in JournalStatuses \ Incomplete
    BY <1>1 DEF RestartInv, IInv, TypeOK, NoneIncomplete
  <2>2. QED
    BY <1>1, <2>1 DEF RestartInv, JournalAgrees, JournalStatuses, Incomplete, Unresolved, Working
<1>2. RestartInv /\ [Next]_vars => [Resolved]_vars
  BY <1>1
<1>3. QED
  BY <1>2, RestartInvAlways, PTL DEF Spec, RestartResolves

-----------------------------------------------------------------------------
(***************************************************************************)
(* The agent keeps the promise of WriteAheadPlacement.                     *)
(***************************************************************************)

Live == IF Placing THEN cur ELSE 0

\* What the stage of an order says about the state.
LEMMA StageFacts ==
    ASSUME IInv, NEW l \in Leases
    PROVE  /\ order[l] = "none" => Stage(l) = "idle"
           /\ order[l] # "none" /\ Announcement(l) \notin recorded => Stage(l) = "prepared"
           /\ sends[l] = 0 /\ Announcement(l) \in recorded => Stage(l) = "announced"
           /\ Announcement(l) \in recorded => order[l] # "none"
<1>1. sends[l] \in Nat /\ (sends[l] > 0 => order[l] # "none" /\ Announcement(l) \in recorded)
  BY DEF IInv, TypeOK, PlacesOnce
<1>2. Announcement(l) \in recorded => order[l] # "none"
  BY DEF IInv, TypeOK, AnnouncesOrders
<1>3. QED
  BY <1>1, <1>2 DEF Stage, Announcement

\* A step that prepares nothing, places nothing and records nothing leaves the
\* stage of every order.
LEMMA StageStays ==
    ASSUME IInv, [Next]_vars, UNCHANGED <<sends, recorded>>,
           ~ (Prepare /\ order[cur] = "none"), NEW l \in Leases
    PROVE  Stage(l)' = Stage(l)
<1>1. order'[l] = "none" <=> order[l] = "none"
  BY OrderStep DEF IInv, TypeOK
<1>2. QED
  BY <1>1 DEF Stage

\* The order the process is about to place stays the same unless it prepares
\* one, places it or gives it up.
LEMMA LiveStep ==
    ASSUME IInv, [Next]_vars, ~ Prepare, ~ Place
    PROVE  Live' = Live \/ (Live # 0 /\ Live' = 0)
<1>1. Placing => cur \in Leases /\ cur # 0 /\ Live = cur
  BY DEF Placing, Live, IInv, TypeOK, WorksOnLease, Busy, Ordering, Reporting, Leases
<1>2. ~ Placing => Live = 0
  BY DEF Live
<1>3. ~ Placing' => Live' = 0
  BY DEF Live
<1>4. CASE Placing' /\ Placing
  <2>1. CASE Recover \/ ProcessLease \/ Crash
    BY <1>4, <2>1
       DEF Recover, Start, RecoverFound, RecoverNotFound, RecoverLost, RecoverTrades,
           RecoverCancel, Recovered, Flush, Flushed, FlushFails, Admit, Crash, ProcessLease,
           StopBlocked, GetLease, ValidateLease, ReadPositions, ReadOpenOrders, ReadFails,
           OrderAnswered, OrderRejected, PlaceTimesOut, OrderUnresolved, Trip, ReadTrades,
           Swallowed, Reconcile, Exit, Idle, Goto, Placing
  <2>2. CASE Publish
    <3>1. cur' = cur
      BY <1>4, <2>2 DEF Publish, Record, Post, PostFails, Published, Idle, Goto, Placing
    <3>2. QED
      BY <1>4, <3>1 DEF Live
  <2>3. CASE Operator \/ Exchange \/ Control \/ UNCHANGED vars
    <3>1. cur' = cur
      BY <2>3, Environment DEF vars, memory
    <3>2. QED
      BY <1>4, <3>1 DEF Live
  <2>4. QED
    BY <2>1, <2>2, <2>3 DEF Next, Agent
<1>5. CASE Placing' /\ ~ Placing
  <2>1. CASE Recover \/ ProcessLease \/ Crash
    BY <1>5, <2>1
       DEF Recover, Start, RecoverFound, RecoverNotFound, RecoverLost, RecoverTrades,
           RecoverCancel, Recovered, Flush, Flushed, FlushFails, Admit, Crash, ProcessLease,
           StopBlocked, GetLease, ValidateLease, ReadPositions, ReadOpenOrders, ReadFails,
           OrderAnswered, OrderRejected, PlaceTimesOut, OrderUnresolved, Trip, ReadTrades,
           Swallowed, Reconcile, Exit, Idle, Goto, PublishThen, Refuse, AfterTrades, memory,
           Placing
  <2>2. CASE Publish
    BY <1>5, <2>2 DEF Publish, Record, Post, PostFails, Published, Idle, Goto, Placing
  <2>3. CASE Operator \/ Exchange \/ Control \/ UNCHANGED vars
    <3>1. UNCHANGED <<pc, then>>
      BY <2>3, Environment DEF vars, memory
    <3>2. QED
      BY <1>5, <3>1 DEF Placing
  <2>4. QED
    BY <2>1, <2>2, <2>3 DEF Next, Agent
<1>6. QED
  BY <1>1, <1>2, <1>3, <1>4, <1>5

\* Every step of the agent is a step of the promise, or none.
LEMMA PromiseStep == IInv /\ IInv' /\ [Next]_vars => [Promise!Next]_Promise!vars
<1> DEFINE S == [l \in Leases |-> Stage(l)]
<1> SUFFICES ASSUME IInv, IInv', [Next]_vars PROVE [Promise!Next]_<<S, Live>>
  BY DEF Promise!vars, Live
<1>1. CASE Prepare /\ order[cur] = "none"
  <2>1. cur \in Leases /\ pc = "prepare" /\ cur' = cur /\ UNCHANGED <<sends, recorded>>
    BY <1>1 DEF Prepare, PublishThen, control, IInv, TypeOK, WorksOnLease, Busy, Deciding, Leases
  <2>2. Live = 0 /\ Live' = cur
    BY <1>1, <2>1 DEF Live, Placing, Prepare, PublishThen
  <2>3. Stage(cur) = "idle" /\ Announcement(cur) \notin recorded'
    BY <1>1, <2>1, StageFacts
  <2>4. order' = [order EXCEPT ![cur] = "PREPARED"]
    BY <1>1 DEF Prepare
  <2>5. sends[cur] = 0
    BY <1>1, <2>1 DEF IInv, TypeOK, PlacesOnce
  <2>6. Stage(cur)' = "prepared"
    BY <2>1, <2>3, <2>4, <2>5 DEF Stage, Announcement, IInv, TypeOK
  <2>7. \A l \in Leases \ {cur} : Stage(l)' = Stage(l)
    BY <2>1, <2>4 DEF Stage, IInv, TypeOK
  <2>8. S[cur] = "idle" /\ S' = [S EXCEPT ![cur] = "prepared"]
    BY <2>1, <2>3, <2>6, <2>7
  <2>9. Promise!Prepare(cur)
    BY <2>2, <2>8 DEF Promise!Prepare, Live
  <2>10. QED
    BY <2>1, <2>9 DEF Promise!Next
<1>2. CASE Place
  <2>1. /\ cur \in Leases /\ cur' = cur /\ pc = "place" /\ pc' = "placed"
        /\ sends' = [sends EXCEPT ![cur] = sends[cur] + 1] /\ UNCHANGED <<order, recorded>>
    BY <1>2 DEF Place, Goto, journal, control, IInv, TypeOK, WorksOnLease, Busy, Ordering, Leases
  <2>2. Live = cur /\ Live' = 0
    BY <2>1 DEF Live, Placing
  <2>3. sends[cur] = 0 /\ Announcement(cur) \in recorded
    BY <2>1 DEF IInv, AnnouncesFirst, Placing
  <2>4. Stage(cur) = "announced"
    BY <2>1, <2>3, StageFacts
  <2>5. sends'[cur] = 1
    BY <2>1, <2>3 DEF IInv, TypeOK
  <2>6. Stage(cur)' = "placed"
    BY <2>1, <2>5 DEF Stage
  <2>7. \A l \in Leases \ {cur} : Stage(l)' = Stage(l)
    BY <2>1 DEF Stage, IInv, TypeOK
  <2>8. S[cur] = "announced" /\ S' = [S EXCEPT ![cur] = "placed"]
    BY <2>1, <2>4, <2>6, <2>7
  <2>9. Promise!Place(cur)
    BY <2>2, <2>8 DEF Promise!Place, Live
  <2>10. QED
    BY <2>1, <2>9 DEF Promise!Next
<1>3. CASE Control
  <2>1. PICK e \in posted : ControlRecords(e)
    BY <1>3 DEF Control
  <2>2. e \notin recorded /\ recorded' = recorded \cup {e} /\ UNCHANGED <<pc, cur, then, order, sends>>
    BY <2>1 DEF ControlRecords, memory, journal
  <2>3. Live' = Live
    BY <2>2 DEF Live, Placing
  <2>4. CASE \E l \in Leases : e = Announcement(l)
    <3>1. PICK l \in Leases : e = Announcement(l)
      BY <2>4
    <3>2. Announcement(l) \notin recorded /\ order[l] # "none" /\ sends[l] = 0
      BY <2>2, <3>1 DEF IInv, TypeOK, AnnouncesOrders, PlacesOnce
    <3>3. Stage(l) = "prepared"
      BY <3>2, StageFacts
    <3>4. Stage(l)' = "announced"
      BY <2>2, <3>1, <3>2 DEF Stage, Announcement
    <3>5. \A m \in Leases \ {l} : Stage(m)' = Stage(m)
      <4>1. \A m \in Leases \ {l} : Announcement(m) # e
        BY <3>1, AnnouncementFacts
      <4>2. QED
        BY <2>2, <4>1 DEF Stage, Announcement
    <3>6. S[l] = "prepared" /\ S' = [S EXCEPT ![l] = "announced"]
      BY <3>1, <3>3, <3>4, <3>5
    <3>7. Promise!Announce(l)
      BY <2>3, <3>6 DEF Promise!Announce, Live
    <3>8. QED
      BY <3>7 DEF Promise!Next
  <2>5. CASE \A l \in Leases : e # Announcement(l)
    <3>1. \A l \in Leases : Stage(l)' = Stage(l)
      BY <2>2, <2>5 DEF Stage, Announcement
    <3>2. QED
      BY <2>3, <3>1
  <2>6. QED
    BY <2>4, <2>5
<1>4. CASE ~ (Prepare /\ order[cur] = "none") /\ ~ Place /\ ~ Control
  <2>1. UNCHANGED <<sends, recorded>>
    BY <1>4, SendsStep, RecordedStep
  <2>2. \A l \in Leases : Stage(l)' = Stage(l)
    BY <1>4, <2>1, StageStays
  <2>3. S' = S
    BY <2>2
  <2>4. ~ Prepare
    BY <1>4 DEF Prepare, IInv, WorksOnLease, Deciding
  <2>5. Live' = Live \/ (Live # 0 /\ Live' = 0)
    BY <1>4, <2>4, LiveStep
  <2>6. CASE Live # 0 /\ Live' = 0
    <3>1. Promise!GiveUp
      BY <2>3, <2>6 DEF Promise!GiveUp, Live
    <3>2. QED
      BY <3>1 DEF Promise!Next
  <2>7. QED
    BY <2>3, <2>5, <2>6
<1>5. QED
  BY <1>1, <1>2, <1>3, <1>4

\* An order is journaled, then announced, then placed, at most once and only
\* by the process that journaled it: process_lease, _publish and startup
\* together keep the promise of WriteAheadPlacement.
THEOREM KeepsThePromise == Spec => KeepsPromise
<1>1. Init => Promise!Init
  <2>1. ASSUME Init PROVE Promise!Init
    <3>1. \A l \in Leases : Stage(l) = "idle"
      BY <2>1 DEF Init, Stage
    <3>2. ~ Placing
      BY <2>1 DEF Init, Placing
    <3>3. QED
      BY <3>1, <3>2 DEF Promise!Init
  <2>2. QED
    BY <2>1
<1>2. QED
  BY <1>1, PromiseStep, InvAlways, PTL DEF Spec, KeepsPromise, Promise!Spec
====
