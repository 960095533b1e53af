---------------------------- MODULE MarketStream ----------------------------
(***************************************************************************)
(* The market-stream process (app.services.realtime_market): one provider, *)
(* Alpaca, whose supervisor keeps a websocket subscribed to the tracked    *)
(* symbols, the aggregator that makes one-minute bars of its messages, the *)
(* health loop with its watchdog and its backfill, and the bars stored.    *)
(*                                                                         *)
(* Time passes in half minutes: a message is told apart by its minute, a   *)
(* connection is stale after StaleAfter half minutes without a message     *)
(* (90 seconds: twice realtime_stale_seconds), and a gap is at least two.  *)
(* The loops run between two half minutes as often as the scheduler lets   *)
(* them.  A bar is the minutes its messages are from.  A bar is handed to  *)
(* persist_bar first and stored, or lost, later: it is not asked for again *)
(* (runner.py:142).  The loop that made it waits for the write.  The bars  *)
(* of one pass are written one after the other in the code, here in any    *)
(* order.                                                                  *)
(***************************************************************************)
EXTENDS Integers, FiniteSets, FiniteSetsExt

CONSTANTS
    Symbols,     \* what users may watch or hold
    Channels,    \* quotes first: trades, quotes, bars in the code
    Limit,       \* channel-symbol pairs the plan allows, 0 for any number
    Capacity,    \* symbols an aggregator holds (max_symbols)
    StaleAfter,  \* stale_after_seconds, in half minutes
    MaxTime,     \* bound of the model: the clock stops, ages do not
    MaxDelay,    \* bound of the model: half minutes a message may be late
    Faults       \* the faults that may happen

ASSUME StreamAssumption ==
    /\ Channels \subseteq {"quotes", "trades", "bars"} /\ "quotes" \in Channels
    /\ Limit \in Nat
    /\ Capacity \in Nat \ {0}
    /\ StaleAfter \in Nat \ {0}
    /\ MaxTime \in Nat /\ MaxTime >= 3
    /\ MaxDelay \in Nat

\* drop: the connection is lost.  silence: it stays up and brings nothing.
\* connect: an attempt fails.  subscribe: the connection is lost when it is
\* authenticated and not yet subscribed.  error: Alpaca refuses the
\* credentials or sends an error message.  reject: its REST endpoint answers
\* 400 or 404 for a symbol.  history: it has no history.  unpriced: messages
\* without a price.  write: a bar cannot be stored.  stop, crash: how the
\* process ends.
ASSUME StreamFaultsAssumption ==
    Faults \subseteq {"drop", "silence", "connect", "subscribe", "error",
                      "reject", "history", "unpriced", "write", "stop", "crash"}

Times   == 2..MaxTime
Minute(t) == t \div 2
Minutes == 1..Minute(MaxTime)
Ages    == 0..(StaleAfter + 1)
Never   == -1

VARIABLES
    now,      \* the time of day
    tracked,  \* the symbols that are watched or held
    trading,  \* is_market_open()
    phase,    \* of the supervisor's run loop
    up,       \* supervisor.connected
    symbols,  \* supervisor._symbols
    rejected, \* the provider's _unsupported_symbols
    quiet,    \* age of last_message_at, Never if there was no message
    age,      \* age of connected_at
    behind,   \* reconnect_count is ahead of _seen_reconnects
    socket,   \* the provider's _ws: "none", or what the connection really is
    plan,     \* what Alpaca has it subscribed to
    active,   \* the aggregator's accumulators: [minute, of]
    emitted,  \* its last emitted minutes, 0 for none
    cursor,   \* last_valid: time of the newest message, Never for none
    writing,  \* Loops -> the bars the loop handed to persist_bar and waits for
    bars      \* the bars stored: [symbol, minute, source, of]

link   == <<phase, up, symbols, rejected, quiet, age, behind, socket, plan>>
minuteBars == <<active, emitted, cursor, writing, bars>>
world  == <<now, tracked, trading>>
vars   == <<link, minuteBars, world>>

\* Those that store bars: the supervisor's, flush_aggregates, and
\* health_and_backfill.
Loops == {"run", "flush", "health"}

Priced == IF "unpriced" \in Faults THEN BOOLEAN ELSE {TRUE}
NoBar == [minute |-> 0, of |-> {}]

\* The aggregator's bars are stored as "aggregate", those Alpaca makes, on the
\* bars channel and as history, as "alpaca".  No bar is made of nothing.
Bar   == [ symbol : Symbols, minute : Minutes, source : {"aggregate", "alpaca"},
           of : (SUBSET Minutes) \ {{}} ]

TypeOK ==
    /\ now \in Times
    /\ tracked \subseteq Symbols /\ trading \in BOOLEAN
    /\ phase \in {"waiting", "subscribing", "streaming", "ended"}
    /\ up \in BOOLEAN
    /\ symbols \subseteq Symbols
    /\ rejected \subseteq Symbols
    /\ quiet \in Ages \cup {Never}
    /\ age \in Ages
    /\ behind \in BOOLEAN
    /\ socket \in {"none", "open", "silent", "lost"}
    /\ plan \subseteq Channels \X Symbols
    /\ active \in [Symbols -> {NoBar} \cup [minute : Minutes, of : SUBSET Minutes]]
    /\ emitted \in [Symbols -> {0} \cup Minutes]
    /\ cursor \in [Symbols -> {Never} \cup Times]
    /\ writing \in [Loops -> SUBSET Bar]
    /\ bars \subseteq Bar

\* seed_rest_state: before its first subscription the process asks for a
\* quote of each tracked symbol.
Rejected == IF "reject" \in Faults THEN SUBSET tracked ELSE {{}}

Init ==
    /\ now = 3
    /\ tracked = Symbols /\ trading = TRUE
    /\ phase = "waiting" /\ up = FALSE /\ symbols = tracked
    /\ rejected \in Rejected
    /\ quiet = Never /\ age = 0 /\ behind = FALSE
    /\ socket = "none" /\ plan = {}
    /\ active = [s \in Symbols |-> NoBar]
    /\ emitted = [s \in Symbols |-> 0]
    /\ cursor = [s \in Symbols |-> Never]
    /\ writing = [w \in Loops |-> {}] /\ bars = {}

-----------------------------------------------------------------------------
(***************************************************************************)
(* The aggregator, and the table its bars go to.                           *)
(***************************************************************************)

\* Accumulators with a price become bars, and their minutes are emitted.
Emitted(S) ==
    [s \in Symbols |->
        IF s \in S /\ active[s].of # {} THEN active[s].minute ELSE emitted[s]]

Collecting == {s \in Symbols : active[s] # NoBar}

AggregateOf(s) ==
    [symbol |-> s, minute |-> active[s].minute, source |-> "aggregate", of |-> active[s].of]

AlpacaBar(s, m) == [symbol |-> s, minute |-> m, source |-> "alpaca", of |-> {m}]

BarsOf(S) == {AggregateOf(s) : s \in {x \in S : active[x].of # {}}}

\* Mutant: a minute that Alpaca's own bar is stored for needs no other.
StoredOnce(new) ==
    bars \cup {b \in new : ~\E c \in bars : /\ c.symbol = b.symbol
                                            /\ c.minute = b.minute}

\* persist_intraday_bar: the first row of a symbol, minute and source stays.
Stored(new) ==
    bars \cup {b \in new : ~\E c \in bars : /\ c.symbol = b.symbol
                                            /\ c.minute = b.minute
                                            /\ c.source = b.source}

\* A loop hands bars to persist_bar.
HandOver(w, new) == writing' = [writing EXCEPT ![w] = @ \cup new]

Writing == UNION {writing[w] : w \in Loops}

\* persist_bar: the write succeeds, or it fails and the exception is
\* swallowed.
Persist(w) ==
    \E b \in writing[w] :
        /\ writing' = [writing EXCEPT ![w] = @ \ {b}]
        /\ bars' = Stored({b}) \/ ("write" \in Faults /\ UNCHANGED bars)
        /\ UNCHANGED <<active, emitted, cursor, link, world>>

\* Mutant: the last emitted minute itself may be collected again.
LateBefore(s, m) == m < emitted[s]

\* Late events of a minute that was emitted are ignored.
Late(s, m) == m <= emitted[s]

\* A symbol that needs a new accumulator takes the place of an oldest one.
MakeRoom(s) ==
    IF active[s] # NoBar \/ Cardinality(Collecting) < Capacity THEN {{}}
    ELSE {{o} : o \in {x \in Collecting :
                          \A y \in Collecting : active[x].minute <= active[y].minute}}

\* MinuteAggregator.add: a message of minute m.  One that is older than the
\* symbol's accumulator is counted in it.
Collect(s, m, priced) ==
    LET event == IF priced THEN {m} ELSE {}
        next  == m > active[s].minute
    IN  IF Late(s, m) THEN UNCHANGED <<active, emitted, writing>>
        ELSE /\ \E evicted \in MakeRoom(s) :
                  active' = [x \in Symbols |->
                      IF x = s
                      THEN IF next THEN [minute |-> m, of |-> event]
                                   ELSE [active[s] EXCEPT !.of = @ \cup event]
                      ELSE IF x \in evicted THEN NoBar ELSE active[x]]
             /\ emitted' = IF next THEN Emitted({s}) ELSE emitted
             /\ HandOver("run", IF next THEN BarsOf({s}) ELSE {})

\* flush_aggregates: every two seconds the minutes that are over.
Flush ==
    LET over == {s \in Collecting : active[s].minute < Minute(now)}
    IN  /\ over # {} /\ writing["flush"] = {}
        /\ active' = [s \in Symbols |-> IF s \in over THEN NoBar ELSE active[s]]
        /\ emitted' = Emitted(over)
        /\ HandOver("flush", BarsOf(over))
        /\ UNCHANGED <<cursor, bars, link, world>>

-----------------------------------------------------------------------------
(***************************************************************************)
(* The supervisor and its websocket.                                       *)
(***************************************************************************)

Quotes(S) == {"quotes"} \X S

Supported(S) == S \ rejected

\* AlpacaRealtimeProvider.subscribe, of what is not rejected: everything if
\* the call fits the limit, else a quote for as many symbols as possible and
\* then the other channels.
Granted(S) ==
    LET all == Channels \X Supported(S)
    IN  IF Limit = 0 \/ Cardinality(all) <= Limit THEN {all}
        ELSE {P \in SUBSET all :
                 /\ Cardinality(P) = Limit
                 /\ Quotes(Supported(S)) \subseteq P \/ P \subseteq Quotes(Supported(S))}

\* Mutant: a new connection is not subscribed.
NotSubscribed(granted) == {}

\* What is subscribed on a new connection.
Subscribed(granted) == granted

\* run_once connects, authenticates and subscribes: nothing is awaited
\* between the authentication and the sending of the subscription.
Connect ==
    /\ phase = "waiting" /\ socket = "none"
    /\ phase' = "streaming" /\ up' = TRUE /\ age' = 0
    /\ socket' = "open"
    /\ \E granted \in Granted(symbols) : plan' = Subscribed(granted)
    /\ UNCHANGED <<symbols, rejected, quiet, behind, minuteBars, world>>

\* The connection is lost before the subscription is sent: run_once is in
\* subscribe, outside of the try that closes the provider.
ConnectLost ==
    /\ "subscribe" \in Faults
    /\ phase = "waiting" /\ socket = "none" /\ Supported(symbols) # {}
    /\ phase' = "subscribing" /\ up' = TRUE /\ age' = 0
    /\ socket' = "lost"
    /\ UNCHANGED <<symbols, rejected, quiet, behind, plan, minuteBars, world>>

\* connect() returns at once as long as there is a websocket, dead or not.
Reuse ==
    /\ phase = "waiting" /\ socket = "lost"
    /\ phase' = IF Supported(symbols) = {} THEN "streaming" ELSE "subscribing"
    /\ up' = TRUE /\ age' = 0
    /\ UNCHANGED <<symbols, rejected, quiet, behind, socket, plan, minuteBars, world>>

\* subscribe raises, and the run loop goes on after the backoff.  Nothing
\* closes the provider, unless the watchdog did.
SubscribeFails ==
    /\ phase = "subscribing"
    /\ phase' = "waiting" /\ up' = FALSE /\ behind' = TRUE
    /\ UNCHANGED <<symbols, rejected, quiet, age, socket, plan, minuteBars, world>>

\* An attempt that fails for the moment is repeated after the backoff.
ConnectFails ==
    /\ "connect" \in Faults
    /\ phase = "waiting" /\ socket = "none"
    /\ behind' = TRUE
    /\ UNCHANGED <<phase, up, symbols, rejected, quiet, age, socket, plan, minuteBars, world>>

\* The run loop ends for good: the credentials are refused, or Alpaca sends
\* an error message, as it does when the plan's limit is exceeded.
LoopEnds ==
    /\ \/ "error" \in Faults /\ phase = "waiting" /\ socket = "none"
       \/ /\ phase = "streaming" /\ socket = "open" /\ writing["run"] = {}
          /\ "error" \in Faults \/ (Limit # 0 /\ Cardinality(plan) > Limit)
    /\ phase' = "ended" /\ up' = FALSE /\ age' = 0 /\ behind' = TRUE
    /\ socket' = "none" /\ plan' = {}
    /\ UNCHANGED <<symbols, rejected, quiet, minuteBars, world>>

Drop ==
    /\ "drop" \in Faults
    /\ socket \in {"open", "silent"}
    /\ socket' = "lost"
    /\ UNCHANGED <<phase, up, symbols, rejected, quiet, age, behind, plan, minuteBars, world>>

FallSilent ==
    /\ "silence" \in Faults
    /\ socket = "open"
    /\ socket' = "silent"
    /\ UNCHANGED <<phase, up, symbols, rejected, quiet, age, behind, plan, minuteBars, world>>

\* The stream ends or raises, the provider is closed, and the loop goes on
\* after the backoff.
Unwind ==
    /\ phase = "streaming" /\ writing["run"] = {}
    /\ socket \in {"lost", "none"}
    /\ phase' = "waiting" /\ up' = FALSE /\ age' = 0 /\ behind' = TRUE
    /\ socket' = "none" /\ plan' = {}
    /\ UNCHANGED <<symbols, rejected, quiet, minuteBars, world>>

\* A message of time t: the supervisor notes that it came, and the runtime
\* moves the cursor of its symbol forward.
Received(s, t) ==
    /\ phase = "streaming" /\ socket = "open" /\ writing["run"] = {}
    /\ t \in Times /\ t <= now
    /\ quiet' = 0
    /\ cursor' = [cursor EXCEPT ![s] = Max({@, t})]
    /\ UNCHANGED <<phase, up, symbols, rejected, age, behind, socket, plan,
                   bars, world>>

\* on_message hands quotes and trades to the aggregator.
Message(s, t, priced) ==
    /\ Received(s, t)
    /\ \E c \in Channels \ {"bars"} : <<c, s>> \in plan
    /\ Collect(s, Minute(t), priced)

\* A bar that Alpaca made, sent once its minute is over and stamped with its
\* beginning, goes to persist_bar and past the aggregator.
BarMessage(s, m) ==
    /\ Received(s, 2 * m)
    /\ <<"bars", s>> \in plan
    /\ m < Minute(now)
    /\ HandOver("run", {AlpacaBar(s, m)})
    /\ UNCHANGED <<active, emitted>>

\* Mutant: only what is new is sent, and what is no longer tracked stays.
AddsOnly(granted, removed) == plan \cup granted

\* What is subscribed after an update: what is new is added, what is no
\* longer tracked is removed from every channel.
Updated(granted, removed) ==
    {p \in plan : p[2] \notin removed} \cup granted

\* refresh_subscriptions: update_subscriptions changes a live connection,
\* and a connection that is not live is subscribed when it is made.  On one
\* that is up and lost, subscribe raises when the symbols have been noted.
UpdateSubscriptions ==
    /\ symbols # tracked
    /\ symbols' = tracked
    /\ \/ /\ up /\ socket = "open"
          /\ \E granted \in Granted(tracked \ symbols) :
                plan' = Updated(granted, symbols \ tracked)
       \/ /\ ~(up /\ socket = "open")
          /\ UNCHANGED plan
    /\ UNCHANGED <<phase, up, rejected, quiet, age, behind, socket, minuteBars, world>>

-----------------------------------------------------------------------------
(***************************************************************************)
(* The health loop.                                                        *)
(***************************************************************************)

\* Mutant: a connection that never brought a message is never stale.
StaleByMessages == quiet # Never /\ quiet > StaleAfter

\* A connection is stale by the last message of any connection; only
\* without one by its own age.
Stale == IF quiet # Never THEN quiet > StaleAfter ELSE age > StaleAfter

\* reconnect_if_stale, in trading hours: the provider is closed, and the
\* run loop finds its stream ended.
WatchdogCloses ==
    /\ trading /\ up /\ Stale /\ writing["health"] = {}
    /\ up' = FALSE
    /\ socket' = "none" /\ plan' = {}
    /\ UNCHANGED <<phase, symbols, rejected, quiet, age, behind, minuteBars, world>>

\* Mutant: a symbol without a message is filled from the beginning of time.
MissedSinceEver(s) ==
    IF now - cursor[s] < 2 THEN {} ELSE (Minute(cursor[s]) + 1)..(Minute(now) - 1)

\* The minutes after the newest message, if that is a minute ago or more.
Missed(s) ==
    IF cursor[s] = Never \/ now - cursor[s] < 2 THEN {}
    ELSE (Minute(cursor[s]) + 1)..(Minute(now) - 1)

HistoryOf(s) == {AlpacaBar(s, m) : m \in Missed(s)}

\* The symbols whose history is found.
Found == IF "history" \in Faults THEN SUBSET Symbols ELSE {Symbols}

\* A reconnection is seen: for each symbol with a message the history is
\* fetched from the minute after it.  What cannot be fetched is not tried
\* again.
Backfill ==
    /\ behind /\ up /\ ~(trading /\ Stale) /\ writing["health"] = {}
    /\ behind' = FALSE
    /\ \E found \in Found :
          HandOver("health", UNION {HistoryOf(s) : s \in found})
    /\ UNCHANGED <<phase, up, symbols, rejected, quiet, age, socket, plan, active,
                   emitted, cursor, bars, world>>

-----------------------------------------------------------------------------
(***************************************************************************)
(* The world.                                                              *)
(***************************************************************************)

\* An age beyond stale_after_seconds is as good as any other.
Older(a) == IF a = Never \/ a = StaleAfter + 1 THEN a ELSE a + 1

\* Half a minute passes.
Pass ==
    /\ now' = IF now < MaxTime THEN now + 1 ELSE now
    /\ quiet' = Older(quiet)
    /\ age' = IF up THEN Older(age) ELSE age
    /\ UNCHANGED <<tracked, trading, phase, up, symbols, rejected, behind, socket,
                   plan, minuteBars>>

\* A symbol is added to a watch list or a portfolio, or removed.
Track(s) ==
    /\ tracked' = IF s \in tracked THEN tracked \ {s} ELSE tracked \cup {s}
    /\ UNCHANGED <<now, trading, link, minuteBars>>

\* The regular session begins or ends.
SessionChanges ==
    /\ trading' = ~trading
    /\ UNCHANGED <<now, tracked, link, minuteBars>>

\* What still goes to the table as the process ends: when it is told to stop,
\* the writes under way and the bars of the minute it is in.
Kept ==
    LET last == Writing \cup BarsOf(Collecting)
    IN  (IF "stop" \notin Faults THEN {}
         ELSE IF "write" \in Faults THEN SUBSET last ELSE {last})
        \cup (IF "crash" \in Faults THEN {{}} ELSE {})

\* The process ends and is started again.
Restart ==
    /\ \E kept \in Kept : bars' = Stored(kept)
    /\ writing' = [w \in Loops |-> {}]
    /\ rejected' \in Rejected
    /\ phase' = "waiting" /\ up' = FALSE /\ symbols' = tracked
    /\ quiet' = Never /\ age' = 0 /\ behind' = FALSE
    /\ socket' = "none" /\ plan' = {}
    /\ active' = [s \in Symbols |-> NoBar]
    /\ emitted' = [s \in Symbols |-> 0]
    /\ cursor' = [s \in Symbols |-> Never]
    /\ UNCHANGED world

Deliver ==
    \E s \in Symbols :
        \/ \E t \in (now - MaxDelay)..now, priced \in Priced : Message(s, t, priced)
        \/ \E m \in Minutes : now - 3 - MaxDelay <= 2 * m /\ BarMessage(s, m)

Supervise ==
    \/ Connect \/ ConnectLost \/ Reuse \/ SubscribeFails
    \/ ConnectFails \/ LoopEnds \/ Drop \/ FallSilent \/ Unwind
    \/ Deliver \/ UpdateSubscriptions \/ WatchdogCloses \/ Backfill

World ==
    \/ Pass \/ Restart \/ SessionChanges
    \/ \E s \in Symbols : Track(s)

Next ==
    \/ Supervise \/ Flush \/ World
    \/ \E w \in Loops : Persist(w)

Spec == Init /\ [][Next]_vars

\* Time passes and the loop schedules its tasks.  That an attempt to connect
\* succeeds in the end is the provider's part; that the watchdog, which looks
\* every ten seconds, sees a trading session is the calendar's.  Nothing says
\* that it looks while a subscription is failing, which takes no time.  A bar
\* handed to persist_bar is waited for by the loop that made it.
FairSpec ==
    /\ Spec
    /\ WF_vars(Pass) /\ WF_vars(Flush)
    /\ \A w \in Loops : WF_vars(Persist(w))
    /\ WF_vars(Connect) /\ WF_vars(Reuse) /\ WF_vars(SubscribeFails)
    /\ WF_vars(Unwind) /\ WF_vars(UpdateSubscriptions)
    /\ SF_vars(phase = "streaming" /\ WatchdogCloses)

-----------------------------------------------------------------------------
(***************************************************************************)
(* Properties.                                                             *)
(***************************************************************************)

\* A minute whose bar was emitted is never collected again, whatever comes
\* late, is evicted, flushed or rolled over (aggregation.py): so a minute is
\* emitted at most once.
EmittedOnce == \A s \in Collecting : active[s].minute > emitted[s]

\* A websocket that was lost before its subscription was sent is kept.
DeadSocketKept == phase \in {"waiting", "subscribing"} /\ socket = "lost"

\* In trading hours a symbol somebody watches or holds, and Alpaca did not
\* reject when the process started, is subscribed in the end, through lost,
\* silent and refused connections and changes of what is tracked, unless the
\* loop ended for good or keeps a dead websocket.
TrackedIsSubscribed ==
    \A s \in Symbols :
        s \in tracked \ rejected ~>
            \/ s \notin tracked \ rejected \/ phase = "ended" \/ ~trading
            \/ DeadSocketKept
            \/ socket = "open" /\ \E c \in Channels : <<c, s>> \in plan

\* A connection that is up and brings nothing does not stay, in trading
\* hours: the watchdog closes it and the loop makes another (stream.py).
SilenceEnds ==
    socket = "silent" ~> socket # "silent" \/ ~trading

\* A minute that is over becomes a stored bar of the aggregator, with no other
\* message needed to push it out (flush_aggregates), whatever Alpaca's own
\* bars and the backfill store for it, if the table can be written: a write
\* that fails is not repeated (fault "write").
MinutesAreStored ==
    \A s \in Symbols, m \in Minutes :
        (/\ m < Minute(MaxTime)
         /\ active[s].minute = m /\ active[s].of # {})
            ~> \E b \in bars : b.symbol = s /\ b.minute = m /\ b.source = "aggregate"

-----------------------------------------------------------------------------
(***************************************************************************)
(* What comments and tests say, and the code does not keep.                *)
(***************************************************************************)

\* backfill.py:72 "Fetch missing 1m bars after reconnect": once the backfill
\* has run, a symbol has the bars, or the one being made, from its first one to
\* the minute in which the connection was made.
MissingBarsFetched ==
    [][behind /\ up /\ ~behind' /\ up' /\ age <= StaleAfter /\ now < MaxTime =>
        \A b \in bars : \A m \in b.minute..(Minute(now - age) - 1) :
            \/ active[b.symbol].minute = m
            \/ \E c \in bars' \cup Writing' : c.symbol = b.symbol /\ c.minute = m]_vars

\* .env.example:87 "Alpaca Basic/Paper accounts allow 30 channel-symbol
\* subscriptions".
PlanFitsLimit == Limit = 0 \/ Cardinality(plan) <= Limit

\* tests/realtime_market/test_state_backfill_stream.py:154: a new connection
\* has a grace period to bring its first message.
NewConnectionHasGrace ==
    [][phase = "streaming" /\ up /\ ~up' /\ phase' = "streaming"
         => age > StaleAfter]_vars

\* aggregation.py:129 "A completed minute is emitted exactly once": none is
\* dropped either.
NoMinuteDropped ==
    [][\A s \in Collecting :
        active'[s].minute # active[s].minute /\ active[s].of # {}
            => \E b \in bars' \cup Writing' :
                    b.symbol = s /\ b.minute = active[s].minute]_vars

\* stream.py:147 "A failed websocket object must not be reused on the next
\* retry".
FailedSocketNotReused ==
    [][phase = "waiting" /\ phase' # "waiting" => socket # "lost"]_vars

\* A bar is made of the messages of its minute.
BarsKeepToTheirMinute == \A b \in bars : b.of = {b.minute}

=============================================================================
