------------------------ MODULE MarketStreamProofs ------------------------
(***************************************************************************)
(* What holds of MarketStream for every number of symbols, every plan      *)
(* limit, capacity and delay, and every set of faults.                     *)
(***************************************************************************)
EXTENDS MarketStream, TLAPS

Accumulator == {NoBar} \cup [minute : Minutes, of : SUBSET Minutes]

Inv == TypeOK /\ EmittedOnce

-----------------------------------------------------------------------------
(***************************************************************************)
(* Minutes, bars and grants.                                               *)
(***************************************************************************)

LEMMA MinuteFacts ==
    /\ \A t \in Times : Minute(t) \in Minutes
    /\ \A m \in Minutes : m \in Nat /\ m > 0
BY StreamAssumption DEF Minute, Minutes, Times

\* What one loop hands over are bars, and only they are under way.
LEMMA HandOverFacts == ASSUME TypeOK, NEW w \in Loops, NEW new \in SUBSET Bar,
                              HandOver(w, new)
                       PROVE  writing' \in [Loops -> SUBSET Bar]
<1>1. writing[w] \cup new \in SUBSET Bar
  BY DEF TypeOK
<1>2. QED
  BY <1>1 DEF HandOver, TypeOK

LEMMA WritingFacts == ASSUME TypeOK PROVE Writing \subseteq Bar
BY DEF TypeOK, Writing

\* What is put into the table are bars, if what comes to it are.
LEMMA StoredFacts == ASSUME bars \subseteq Bar, NEW new \in SUBSET Bar
                     PROVE  Stored(new) \subseteq Bar
BY DEF Stored

\* Accumulators with a price have a minute.
LEMMA BarsOfFacts == ASSUME TypeOK, NEW S \in SUBSET Symbols
                     PROVE  BarsOf(S) \subseteq Bar
<1>1. ASSUME NEW s \in S, active[s].of # {}
      PROVE  AggregateOf(s) \in Bar
  <2>1. active[s] # NoBar
    BY <1>1 DEF NoBar
  <2>2. active[s] \in [minute : Minutes, of : SUBSET Minutes]
    BY <2>1 DEF TypeOK
  <2>3. QED
    BY <1>1, <2>2 DEF Bar, AggregateOf
<1>2. QED
  BY <1>1 DEF BarsOf

LEMMA EmittedFacts == ASSUME TypeOK, NEW S \in SUBSET Symbols
                      PROVE  Emitted(S) \in [Symbols -> {0} \cup Minutes]
<1>1. ASSUME NEW s \in Symbols, active[s].of # {}
      PROVE  active[s].minute \in Minutes
  <2>1. active[s] # NoBar
    BY <1>1 DEF NoBar
  <2>2. QED
    BY <2>1 DEF TypeOK
<1>2. QED
  BY <1>1 DEF Emitted, TypeOK

LEMMA GrantedFacts == ASSUME NEW S \in SUBSET Symbols, NEW granted \in Granted(S)
                      PROVE  granted \subseteq Channels \X Symbols
<1>1. granted \subseteq Channels \X S
  BY DEF Granted, Supported
<1>2. QED
  BY <1>1

-----------------------------------------------------------------------------
(***************************************************************************)
(* The aggregator.                                                         *)
(***************************************************************************)

\* A message of any minute leaves every accumulator with a minute that was
\* not emitted.
LEMMA CollectKeeps ==
    ASSUME Inv, NEW s \in Symbols, NEW m \in Minutes, NEW priced \in BOOLEAN,
           Collect(s, m, priced)
    PROVE  /\ active' \in [Symbols -> Accumulator]
           /\ emitted' \in [Symbols -> {0} \cup Minutes]
           /\ writing' \in [Loops -> SUBSET Bar]
           /\ EmittedOnce'
<1> DEFINE event == IF priced THEN {m} ELSE {}
           next  == m > active[s].minute
<1>1. CASE Late(s, m)
  BY <1>1 DEF Collect, Inv, TypeOK, EmittedOnce, Collecting, Accumulator
<1>2. CASE ~Late(s, m)
  <2>1. PICK evicted \in MakeRoom(s) :
          active' = [x \in Symbols |->
                      IF x = s
                      THEN IF next THEN [minute |-> m, of |-> event]
                                   ELSE [active[s] EXCEPT !.of = @ \cup event]
                      ELSE IF x \in evicted THEN NoBar ELSE active[x]]
    BY <1>2, Zenon DEF Collect
  <2>2. /\ emitted' = IF next THEN Emitted({s}) ELSE emitted
        /\ HandOver("run", IF next THEN BarsOf({s}) ELSE {})
    BY <1>2, Zenon DEF Collect
  <2>3. m > emitted[s] /\ emitted[s] \in Nat
    BY <1>2, MinuteFacts DEF Late, Inv, TypeOK
  <2>4. active \in [Symbols -> Accumulator] /\ event \in SUBSET Minutes
    BY DEF Inv, TypeOK, Accumulator
  <2>5. ~next => /\ active[s] # NoBar
                 /\ active[s] \in [minute : Minutes, of : SUBSET Minutes]
    <3>1. ~next => active[s] # NoBar
      BY <2>3, MinuteFacts DEF NoBar
    <3>2. QED
      BY <3>1, <2>4 DEF Accumulator
  <2>6. ~next => [active[s] EXCEPT !.of = @ \cup event]
                   = [minute |-> active[s].minute, of |-> active[s].of \cup event]
    BY <2>5
  <2>7. active' \in [Symbols -> Accumulator]
    <3>1. active'[s] \in Accumulator
      BY <2>1, <2>4, <2>5, <2>6 DEF Accumulator
    <3>2. ASSUME NEW x \in Symbols \ {s} PROVE active'[x] \in Accumulator
      BY <2>1, <2>4 DEF Accumulator
    <3>3. QED
      BY <3>1, <3>2, <2>1
  <2>8. emitted' \in [Symbols -> {0} \cup Minutes]
    BY <2>2, EmittedFacts DEF Inv, TypeOK
  <2>9. writing' \in [Loops -> SUBSET Bar]
    <3>1. (IF next THEN BarsOf({s}) ELSE {}) \in SUBSET Bar
      BY BarsOfFacts DEF Inv
    <3>2. QED
      BY <2>2, <3>1, HandOverFacts DEF Inv, Loops
  <2>10. ASSUME NEW x \in Symbols, active'[x] # NoBar
         PROVE  active'[x].minute > emitted'[x]
    <3>1. CASE x = s /\ next
      <4>1. active'[s].minute = m
        BY <3>1, <2>1
      <4>2. emitted'[s] \in {active[s].minute, emitted[s]}
        BY <3>1, <2>2 DEF Emitted
      <4>3. QED
        BY <3>1, <4>1, <4>2, <2>3
    <3>2. CASE x = s /\ ~next
      <4>1. active'[s].minute = active[s].minute /\ emitted'[s] = emitted[s]
        BY <3>2, <2>1, <2>2, <2>6
      <4>2. QED
        BY <3>2, <4>1, <2>5 DEF Inv, EmittedOnce, Collecting
    <3>3. CASE x # s
      <4>1. active'[x] = active[x]
        BY <3>3, <2>10, <2>1
      <4>2. emitted'[x] = emitted[x]
        BY <3>3, <2>2 DEF Emitted
      <4>3. QED
        BY <2>10, <4>1, <4>2 DEF Inv, EmittedOnce, Collecting
    <3>4. QED
      BY <3>1, <3>2, <3>3
  <2>11. QED
    BY <2>7, <2>8, <2>9, <2>10 DEF EmittedOnce, Collecting
<1>3. QED
  BY <1>1, <1>2

LEMMA FlushKeeps == ASSUME Inv, Flush PROVE Inv'
<1> DEFINE over == {s \in Collecting : active[s].minute < Minute(now)}
<1>1. /\ active' = [s \in Symbols |-> IF s \in over THEN NoBar ELSE active[s]]
      /\ emitted' = Emitted(over)
      /\ HandOver("flush", BarsOf(over))
      /\ UNCHANGED <<cursor, bars, link, world>>
  BY DEF Flush
<1>2. over \in SUBSET Symbols
  BY DEF Collecting
<1>3. TypeOK'
  <2>1. active' \in [Symbols -> Accumulator]
    BY <1>1 DEF Inv, TypeOK, Accumulator
  <2>2. emitted' \in [Symbols -> {0} \cup Minutes]
    BY <1>1, <1>2, EmittedFacts DEF Inv
  <2>3. writing' \in [Loops -> SUBSET Bar]
    BY <1>1, <1>2, BarsOfFacts, HandOverFacts DEF Inv, Loops
  <2>4. QED
    BY <1>1, <2>1, <2>2, <2>3 DEF Inv, TypeOK, link, world, Accumulator
<1>4. ASSUME NEW s \in Symbols, active'[s] # NoBar
      PROVE  active'[s].minute > emitted'[s]
  BY <1>1, <1>4 DEF Inv, EmittedOnce, Collecting, Emitted
<1>5. QED
  BY <1>3, <1>4 DEF Inv, EmittedOnce, Collecting

LEMMA PersistTypes == ASSUME TypeOK, NEW w \in Loops, Persist(w)
                      PROVE  TypeOK' /\ UNCHANGED <<active, emitted>>
<1>1. PICK b \in writing[w] :
        /\ writing' = [writing EXCEPT ![w] = @ \ {b}]
        /\ bars' = Stored({b}) \/ ("write" \in Faults /\ UNCHANGED bars)
        /\ UNCHANGED <<active, emitted, cursor, link, world>>
  BY DEF Persist
<1>2. {b} \in SUBSET Bar /\ writing[w] \ {b} \in SUBSET Bar
  BY DEF TypeOK
<1>3. writing' \in [Loops -> SUBSET Bar]
  BY <1>1, <1>2 DEF TypeOK
<1>4. bars' \subseteq Bar
  BY <1>1, <1>2, StoredFacts DEF TypeOK
<1>5. QED
  BY <1>1, <1>3, <1>4 DEF TypeOK, link, world

-----------------------------------------------------------------------------
(***************************************************************************)
(* The connection.                                                         *)
(***************************************************************************)

\* Steps that leave the aggregator alone.
LEMMA LinkTypes ==
    ASSUME TypeOK,
           \/ Connect \/ ConnectLost \/ Reuse \/ SubscribeFails
           \/ ConnectFails \/ LoopEnds \/ Drop \/ FallSilent
           \/ Unwind \/ UpdateSubscriptions \/ WatchdogCloses
    PROVE  TypeOK' /\ UNCHANGED <<active, emitted>>
<1> USE DEF TypeOK, minuteBars, world
<1> 0 \in Ages
  BY StreamAssumption DEF Ages
<1>1. CASE Connect
  BY <1>1, GrantedFacts DEF Connect, Subscribed
<1>2. CASE ConnectFails
  BY <1>2 DEF ConnectFails
<1>3. CASE LoopEnds
  BY <1>3 DEF LoopEnds
<1>4. CASE Drop
  BY <1>4 DEF Drop
<1>5. CASE FallSilent
  BY <1>5 DEF FallSilent
<1>6. CASE Unwind
  BY <1>6 DEF Unwind
<1>7. CASE UpdateSubscriptions
  <2>1. tracked \ symbols \in SUBSET Symbols
    OBVIOUS
  <2>2. plan' \subseteq Channels \X Symbols
    BY <1>7, <2>1, GrantedFacts DEF UpdateSubscriptions, Updated
  <2>3. QED
    BY <1>7, <2>2 DEF UpdateSubscriptions
<1>8. CASE WatchdogCloses
  BY <1>8 DEF WatchdogCloses
<1>9. CASE ConnectLost
  BY <1>9 DEF ConnectLost
<1>10. CASE Reuse
  BY <1>10 DEF Reuse
<1>11. CASE SubscribeFails
  BY <1>11 DEF SubscribeFails
<1>12. QED
  BY <1>1, <1>2, <1>3, <1>4, <1>5, <1>6, <1>7, <1>8, <1>9, <1>10, <1>11

\* What every message leaves as it should be.
LEMMA ReceivedTypes ==
    ASSUME TypeOK, NEW s \in Symbols, NEW t \in Int, Received(s, t)
    PROVE  /\ t \in Times
           /\ quiet' \in Ages \cup {Never}
           /\ cursor' \in [Symbols -> {Never} \cup Times]
<1>1. t \in Times
  BY DEF Received
<1>2. Max({cursor[s], t}) \in {cursor[s], t}
  <2>1. cursor[s] \in Int /\ t \in Int
    BY <1>1, StreamAssumption DEF TypeOK, Never, Times
  <2>2. \E x \in {cursor[s], t} : \A y \in {cursor[s], t} : x >= y
    BY <2>1
  <2>3. QED
    BY <2>2 DEF Max
<1>3. cursor' = [cursor EXCEPT ![s] = Max({cursor[s], t})]
  BY DEF Received
<1>4. cursor' \in [Symbols -> {Never} \cup Times]
  BY <1>1, <1>2, <1>3 DEF TypeOK
<1>5. QED
  BY <1>1, <1>4, StreamAssumption DEF Received, Ages

LEMMA MessageKeeps ==
    ASSUME Inv, NEW s \in Symbols, NEW t \in (now - MaxDelay)..now,
           NEW priced \in Priced, Message(s, t, priced)
    PROVE  Inv'
<1>1. t \in Int /\ Received(s, t)
  BY DEF Message
<1>2. t \in Times /\ Minute(t) \in Minutes /\ priced \in BOOLEAN
  BY <1>1, MinuteFacts, ReceivedTypes DEF Inv, Priced
<1>3. /\ active' \in [Symbols -> Accumulator]
      /\ emitted' \in [Symbols -> {0} \cup Minutes]
      /\ writing' \in [Loops -> SUBSET Bar]
      /\ EmittedOnce'
  BY <1>2, CollectKeeps DEF Message
<1>4. /\ quiet' \in Ages \cup {Never}
      /\ cursor' \in [Symbols -> {Never} \cup Times]
  BY <1>1, ReceivedTypes DEF Inv
<1>5. QED
  BY <1>1, <1>3, <1>4 DEF Received, Inv, TypeOK, world, Accumulator

LEMMA BarMessageKeeps ==
    ASSUME Inv, NEW s \in Symbols, NEW m \in Minutes, BarMessage(s, m)
    PROVE  Inv'
<1>1. 2 * m \in Int /\ Received(s, 2 * m)
  BY MinuteFacts DEF BarMessage
<1>2. /\ quiet' \in Ages \cup {Never}
      /\ cursor' \in [Symbols -> {Never} \cup Times]
  BY <1>1, ReceivedTypes DEF Inv
<1>3. {AlpacaBar(s, m)} \in SUBSET Bar
  BY DEF AlpacaBar, Bar
<1>4. writing' \in [Loops -> SUBSET Bar]
  BY <1>3, HandOverFacts DEF BarMessage, Inv, Loops
<1>5. UNCHANGED <<active, emitted>>
  BY DEF BarMessage
<1>6. QED
  BY <1>1, <1>2, <1>4, <1>5 DEF Received, Inv, TypeOK, world, EmittedOnce, Collecting

LEMMA DeliverKeeps == ASSUME Inv, Deliver PROVE Inv'
BY MessageKeeps, BarMessageKeeps DEF Deliver

\* The minutes after the newest message and before this one are minutes.
LEMMA MissedFacts == ASSUME TypeOK, NEW s \in Symbols PROVE Missed(s) \subseteq Minutes
<1>1. CASE cursor[s] = Never
  BY <1>1 DEF Missed
<1>2. CASE cursor[s] # Never
  <2>1. cursor[s] \in Times /\ now \in Times
    BY <1>2 DEF TypeOK
  <2>2. Minute(cursor[s]) \in Minutes /\ Minute(now) \in Minutes
    BY <2>1, MinuteFacts
  <2>3. (Minute(cursor[s]) + 1)..(Minute(now) - 1) \subseteq Minutes
    BY <2>2, StreamAssumption DEF Minutes, Minute
  <2>4. QED
    BY <2>3 DEF Missed
<1>3. QED
  BY <1>1, <1>2

LEMMA BackfillTypes == ASSUME TypeOK, Backfill PROVE TypeOK' /\ UNCHANGED <<active, emitted>>
<1>1. PICK found \in Found : HandOver("health", UNION {HistoryOf(s) : s \in found})
  BY DEF Backfill
<1>2. found \subseteq Symbols
  BY DEF Found
<1>3. ASSUME NEW s \in Symbols PROVE HistoryOf(s) \subseteq Bar
  BY MissedFacts DEF HistoryOf, AlpacaBar, Bar
<1>4. UNION {HistoryOf(s) : s \in found} \in SUBSET Bar
  BY <1>2, <1>3
<1>5. writing' \in [Loops -> SUBSET Bar]
  BY <1>1, <1>4, HandOverFacts DEF Loops
<1>6. QED
  BY <1>5 DEF Backfill, TypeOK, world

-----------------------------------------------------------------------------
(***************************************************************************)
(* The world.                                                              *)
(***************************************************************************)

LEMMA WorldKeeps == ASSUME Inv, World PROVE Inv'
<1>1. CASE Pass
  <2>1. now' \in Times
    BY <1>1, StreamAssumption DEF Pass, Inv, TypeOK, Times
  <2>2. /\ \A a \in Ages : Older(a) \in Ages
        /\ Older(Never) = Never
    BY StreamAssumption DEF Older, Ages, Never
  <2>3. quiet' \in Ages \cup {Never} /\ age' \in Ages
    BY <1>1, <2>2 DEF Pass, Inv, TypeOK
  <2>4. QED
    BY <1>1, <2>1, <2>3 DEF Pass, Inv, TypeOK, minuteBars, EmittedOnce, Collecting
<1>2. CASE Restart
  <2>1. PICK kept \in Kept : bars' = Stored(kept)
    BY <1>2 DEF Restart
  <2>2. Writing \cup BarsOf(Collecting) \in SUBSET Bar
    BY WritingFacts, BarsOfFacts DEF Inv, Collecting
  <2>3. kept \in SUBSET Bar
    BY <2>1, <2>2 DEF Kept
  <2>4. bars' \subseteq Bar
    BY <2>1, <2>3, StoredFacts DEF Inv, TypeOK
  <2>5. 0 \in Ages
    BY StreamAssumption DEF Ages
  <2>6. rejected' \subseteq Symbols
    BY <1>2 DEF Restart, Rejected, world, Inv, TypeOK
  <2>7. QED
    BY <1>2, <2>4, <2>5, <2>6 DEF Restart, Inv, TypeOK, world, EmittedOnce, Collecting
<1>3. CASE SessionChanges
  BY <1>3 DEF SessionChanges, Inv, TypeOK, link, minuteBars, EmittedOnce, Collecting
<1>4. CASE \E s \in Symbols : Track(s)
  BY <1>4 DEF Track, Inv, TypeOK, link, minuteBars, EmittedOnce, Collecting
<1>5. QED
  BY <1>1, <1>2, <1>3, <1>4 DEF World

-----------------------------------------------------------------------------
LEMMA InvInitially == ASSUME Init PROVE Inv
<1>1. 3 \in Times /\ 0 \in Ages
  BY StreamAssumption DEF Times, Ages
<1>2. rejected \subseteq Symbols
  BY DEF Init, Rejected
<1>3. QED
  BY <1>1, <1>2 DEF Init, Inv, TypeOK, EmittedOnce, Collecting

LEMMA InvPreserved == ASSUME Inv, [Next]_vars PROVE Inv'
<1>1. CASE Supervise
  <2>1. CASE Deliver
    BY <2>1, DeliverKeeps
  <2>2. CASE ~Deliver
    <3>1. TypeOK' /\ UNCHANGED <<active, emitted>>
      BY <1>1, <2>2, LinkTypes, BackfillTypes DEF Supervise, Inv
    <3>2. QED
      BY <3>1 DEF Inv, EmittedOnce, Collecting
  <2>3. QED
    BY <2>1, <2>2
<1>2. CASE Flush
  BY <1>2, FlushKeeps
<1>3. CASE World
  BY <1>3, WorldKeeps
<1>4. CASE \E w \in Loops : Persist(w)
  <2>1. TypeOK' /\ UNCHANGED <<active, emitted>>
    BY <1>4, PersistTypes DEF Inv
  <2>2. QED
    BY <2>1 DEF Inv, EmittedOnce, Collecting
<1>5. CASE UNCHANGED vars
  BY <1>5 DEF vars, link, minuteBars, world, Inv, TypeOK, EmittedOnce, Collecting
<1>6. QED
  BY <1>1, <1>2, <1>3, <1>4, <1>5 DEF Next

-----------------------------------------------------------------------------
(***************************************************************************)
(* Results.                                                                *)
(***************************************************************************)

\* The state has its type, whatever is lost, late or restarted.
THEOREM TypeCorrect == Spec => []TypeOK
<1>1. Inv => TypeOK
  BY DEF Inv
<1>2. QED
  BY InvInitially, InvPreserved, <1>1, PTL DEF Spec

\* MinuteAggregator collects no minute again whose bar it emitted, for every
\* capacity and delay (aggregation.py): evictions, rollovers and flushes
\* never make room for a minute that is over.
THEOREM NoMinuteTwice == Spec => []EmittedOnce
<1>1. Inv => EmittedOnce
  BY DEF Inv
<1>2. QED
  BY InvInitially, InvPreserved, <1>1, PTL DEF Spec
=============================================================================
