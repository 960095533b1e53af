---------------------------- MODULE PaperBroker ----------------------------
(***************************************************************************)
(* The internal paper account of services/quant/paper.py: one account, its *)
(* cash and locked cash, its positions, resting limit orders, strategy     *)
(* signals, 8h funding and liquidation.  Two kinds of actors work on it:   *)
(* the API's requests and the one Celery task of the quant worker.  Each   *)
(* has a database session of its own, which loads the account row first,   *)
(* then waits for a public market quote, reads the rows of positions and   *)
(* of assets, and writes what it read back, changed (SessionLocal keeps    *)
(* loaded objects after a commit; no row is locked before it is written).  *)
(*                                                                         *)
(* Cash is counted in 1/Unit of the quote currency, prices and quantities  *)
(* in whole lots; bid, ask and mark are one price, chosen afresh at every  *)
(* use.  Bounds: leverage is 1, orders fill whole, minimum notional is 0,  *)
(* at most MaxFills manual fills, MaxOrders resting orders, MaxSignals     *)
(* signals, MaxClock funding boundaries and MaxRuns account runs.          *)
(***************************************************************************)
EXTENDS Integers, Sequences, FiniteSets, SequencesExt

CONSTANTS Spots,           \* spot instruments
          Perps,           \* USD-M perpetual instruments
          Prices,          \* the prices a quote can show
          MaxQty,          \* largest quantity of a manual order
          MaxFills, MaxOrders, MaxSignals, MaxClock, MaxRuns,
          Targets,         \* target exposures of a strategy, within -1..1
          Requests,        \* API sessions that wait for a quote
          Overlap,         \* TRUE: sessions overlap; FALSE: one at a time
          Initial, Unit,   \* initial cash; cash units per price unit
          TakerFee, MakerFee, Maintenance, LiquidationFee, \* per Unit of notional
          Cap,             \* leverage cap
          Grid,            \* in-memory digits per digit the database keeps
          Rates,           \* funding rates, per Unit of notional
          RateGaps         \* TRUE: a boundary's rate may not be persisted yet

Instruments == Spots \cup Perps
Task == "task"             \* the quant worker's session
NoQuote == 0               \* the public quote could not be had

ASSUME PaperAssumption ==
    /\ Spots \cap Perps = {}
    /\ Prices \subseteq Nat \ {0}
    /\ Unit \in Nat \ {0} /\ Grid \in Nat \ {0} /\ Initial \in Nat \ {0}
    /\ {TakerFee, MakerFee, Maintenance, LiquidationFee} \subseteq Nat
    /\ Targets \subseteq -1..1
    /\ Overlap \in BOOLEAN /\ RateGaps \in BOOLEAN
    /\ Task \notin Requests
    /\ IsFiniteSet(Instruments) /\ IsFiniteSet(Requests)
    /\ {MaxQty, MaxFills, MaxOrders, MaxSignals, MaxClock, Cap} \subseteq Nat
    /\ MaxRuns \in Nat \ {0} /\ Rates \subseteq Int

VARIABLES
    books,        \* the account row and everything its run's rows hold
    orders,       \* limit orders, in order of creation
    signals,      \* the deployment's signals, in order of creation
    active,       \* account.status = "active"
    lastFunding,  \* account.last_funding_boundary, or the run's start
    clock,        \* funding boundaries passed so far
    run,          \* account.current_run_id
    copy,         \* per session: the account row and other rows as read
    phase,        \* where process_pending_signals stands
    moment,       \* its `moment`: the clock and the fills there were
    rows,         \* the open orders it loaded and has not looked at
    listed,       \* the signals it loaded and has not looked at
    uncommitted   \* the signals it consumed in a transaction still open

vars == <<books, orders, signals, active, lastFunding, clock, run, copy, phase, moment, rows, listed, uncommitted>>
taskVars == <<phase, moment, rows, listed, uncommitted>>

-----------------------------------------------------------------------------
(* Position math, shared by fills and rebuilds (_PositionState).           *)

Size(q) == IF q < 0 THEN -q ELSE q
AtMost(a, b) == IF a < b THEN a ELSE b
AtLeast(a, b) == IF a < b THEN b ELSE a

\* The sum of f[1], ..., f[n].
SumTo(f, n) ==
    LET sum[k \in 0..n] == IF k = 0 THEN 0 ELSE sum[k - 1] + f[k] IN sum[n]

SumOver(F(_), S) ==
    LET s == SetToSeq(S) IN SumTo([k \in DOMAIN s |-> F(s[k])], Len(s))

Flat == [qty |-> 0, entry |-> 0, realized |-> 0, margin |-> 0, mark |-> 0]

\* The profit a move of `delta` at `price` realizes: only what it closes.
Realized(pos, delta, price) ==
    LET closed == AtMost(Size(pos.qty), Size(delta))
        perLot == price * Unit - pos.entry
    IN  IF pos.qty * delta >= 0 THEN 0
        ELSE IF pos.qty > 0 THEN perLot * closed ELSE -perLot * closed

\* The average entry after the move: averaged when adding, kept when
\* reducing, the new price when opening or turning around.
Entry(pos, delta, price) ==
    LET new == pos.qty + delta
    IN  IF pos.qty * delta > 0
        THEN (Size(pos.qty) * pos.entry + Size(delta) * price * Unit) \div Size(new)
        ELSE IF new = 0 THEN 0
        ELSE IF pos.qty * new > 0 THEN pos.entry ELSE price * Unit

\* Mutant: an order through zero only closes.
MutMoved(pos, delta, price) ==
    [pos EXCEPT !.qty = IF @ * (@ + delta) < 0 THEN 0 ELSE @ + delta,
                !.entry = Entry(pos, delta, price),
                !.realized = @ + Realized(pos, delta, price)]

Moved(pos, delta, price) ==
    [pos EXCEPT !.qty = @ + delta, !.entry = Entry(pos, delta, price),
                !.realized = @ + Realized(pos, delta, price)]

\* Mutant: the average entry is cut to a whole price.
MutStored(x) == Unit * (x \div Unit)

\* NUMERIC(38,18) keeps fewer digits than the arithmetic in memory.
Stored(x) == Grid * ((x + Grid \div 2) \div Grid)

\* The quantity of i that the fills before boundary b add up to.
HeldAt(fills, i, b) ==
    SumTo([k \in DOMAIN fills |->
               IF fills[k].inst = i /\ fills[k].at < b THEN fills[k].qty ELSE 0], Len(fills))
Held(fills, i) == HeldAt(fills, i, MaxClock + 1)

\* What the fill f adds to the cash of an account with these positions.
CashOf(f, pos) ==
    (IF f.inst \in Spots THEN -f.qty * f.price * Unit
     ELSE Realized(pos[f.inst], f.qty, f.price)) - f.fee

\* The positions after each of the fills.
Replay(fills) ==
    LET pos[k \in 0..Len(fills)] ==
            IF k = 0 THEN [i \in Instruments |-> Flat]
            ELSE [pos[k - 1] EXCEPT
                     ![fills[k].inst] = Moved(@, fills[k].qty, fills[k].price)]
    IN  pos

\* Positions and cash derived from fills and funding alone.
Rebuilt(b) ==
    LET pos == Replay(b.fills)
        gain == [k \in DOMAIN b.fills |-> CashOf(b.fills[k], pos[k - 1])]
    IN  [pos  |-> pos[Len(b.fills)],
         cash |-> Initial + b.fundingCash + SumTo(gain, Len(b.fills))]

-----------------------------------------------------------------------------
(* Effects on the books.  `valid` turns FALSE when a row would break a     *)
(* CHECK constraint of paper_balances: the flush then fails.               *)

Opened ==
    [cash |-> Initial, locked |-> 0, quote |-> Initial, valid |-> TRUE,
     base |-> [i \in Spots |-> 0], baseLocked |-> [i \in Spots |-> 0],
     pos |-> [i \in Instruments |-> Flat], fills |-> <<>>,
     ledger |-> Initial, funding |-> {}, fundingCash |-> 0]

\* apply_fill: position, cash, balance rows, fill and ledger events of the
\* fill f, which takes place k in the order fills are replayed in.
Post(b, f, k) ==
    LET moved == Moved(b.pos[f.inst], f.qty, f.price)
        spot  == f.inst \in Spots
        delta == CashOf(f, b.pos)
        kept  == [moved EXCEPT !.entry = Stored(@), !.mark = f.price,
                               !.margin = IF spot THEN 0 ELSE Size(moved.qty) * f.price * Unit]
        booked == [b EXCEPT !.cash = @ + delta, !.ledger = @ + delta,
                            !.pos[f.inst] = kept, !.fills = InsertAt(@, k, f)]
    IN  IF spot
        THEN [booked EXCEPT !.base[f.inst] = @ + f.qty, !.quote = booked.cash,
                            !.valid = @ /\ booked.cash >= 0 /\ b.base[f.inst] + f.qty >= 0]
        ELSE booked

PostLast(b, f) == Post(b, f, Len(b.fills) + 1)

Sells(o) == o.inst \in Spots /\ ~o.buy      \* locks the asset, not cash
Signed(o) == IF o.buy THEN o.qty ELSE -o.qty

\* Mutant: the fee is not reserved.
MutReserved(o) == o.qty * o.limit * Unit

\* The cash a resting order locks.
Reserved(o) == o.qty * o.limit * (IF o.inst \in Spots THEN Unit + MakerFee ELSE Unit)

\* _reserve_limit, when Lockable; _release_lock.
Lockable(b, o) == IF Sells(o) THEN b.base[o.inst] >= o.qty ELSE b.cash >= Reserved(o)

\* Mutants: account.locked_cash, the asset's locked balance, are not kept.
MutLockCash(b, amount) ==
    [b EXCEPT !.cash = @ - amount, !.quote = b.cash - amount, !.valid = @ /\ b.cash >= amount]
MutLockBase(b, i, amount) == [b EXCEPT !.base[i] = @ - amount]

LockCash(b, amount) ==
    [b EXCEPT !.cash = @ - amount, !.locked = @ + amount, !.quote = b.cash - amount,
              !.valid = @ /\ b.cash >= amount]
LockBase(b, i, amount) ==
    [b EXCEPT !.base[i] = @ - amount, !.baseLocked[i] = @ + amount]

Lock(b, o) == IF Sells(o) THEN LockBase(b, o.inst, o.qty) ELSE LockCash(b, Reserved(o))
\* Mutant: the release forgets the fee that was reserved.
MutUnlock(b, o) ==
    IF Sells(o) THEN LockBase(b, o.inst, -AtMost(b.baseLocked[o.inst], o.qty))
    ELSE LockCash(b, -AtMost(b.locked, o.qty * o.limit * Unit))

Unlock(b, o) ==
    IF Sells(o) THEN LockBase(b, o.inst, -AtMost(b.baseLocked[o.inst], o.qty))
    ELSE LockCash(b, -AtMost(b.locked, Reserved(o)))

\* account_nav: cash plus spot holdings at mark plus unrealized profit.
Nav(b) ==
    LET value(i) == b.pos[i].qty *
            (b.pos[i].mark * Unit - IF i \in Spots THEN 0 ELSE b.pos[i].entry)
    IN  b.cash + b.locked + SumOver(value, Instruments)

\* _validate_order_funds for a signed quantity at a price.
Affordable(b, i, q, p) ==
    LET margin(x) == Size(x) * p * Unit
        used == SumOver(LAMBDA j : b.pos[j].margin, Instruments)
    IN  IF i \in Spots
        THEN IF q > 0 THEN b.cash >= q * p * (Unit + TakerFee) ELSE b.base[i] >= -q
        ELSE margin(b.pos[i].qty + q) - margin(b.pos[i].qty) <= AtLeast(0, Nav(b) - used)

\* PaperFillSimulator.decide: a limit fills only when the quote crosses it.
Crosses(o, p) == p # NoQuote /\ IF o.buy THEN p <= o.limit ELSE p >= o.limit

FillOf(i, q, p, fee, at) ==
    [inst |-> i, qty |-> q, price |-> p, fee |-> Size(q) * p * fee, at |-> at]

-----------------------------------------------------------------------------
(* Sessions.  A session computes on the account row it loaded, on the rows *)
(* of an instrument as they were when it read them, and on fresh rows of   *)
(* everything else.  What it writes is locked to its commit, so that every *)
(* step here is one at its commit; it reads earlier.  The ORM writes an    *)
(* attribute only if it changed, and then as a value, not as a difference. *)

NoMoment == [clock |-> 0, place |-> 0]
NoRows == [i \in {} |-> 0]
NoCopy == [open |-> FALSE, cash |-> 0, locked |-> 0, rows |-> NoRows]
Loaded(b) == [open |-> TRUE, cash |-> b.cash, locked |-> b.locked, rows |-> NoRows]

\* The position row of i, and the balance row of the asset it is of.
RowsOf(i) ==
    [pos        |-> books.pos[i],
     base       |-> IF i \in Spots THEN books.base[i] ELSE 0,
     baseLocked |-> IF i \in Spots THEN books.baseLocked[i] ELSE 0]

\* The rows the session s computes on.
Rows(s, i) == IF i \in DOMAIN copy[s].rows THEN copy[s].rows[i] ELSE RowsOf(i)

\* A session reads the rows of i, long before it commits what it makes of
\* them.  Rows that are not read before are read as late as can be.
ReadRows(s, i) ==
    /\ Overlap /\ copy[s].open /\ i \notin DOMAIN copy[s].rows
    /\ s = Task => phase \in {"match", "liquidate", "signals"}
    /\ copy' = [copy EXCEPT ![s].rows =
           [j \in DOMAIN @ \cup {i} |-> IF j = i THEN RowsOf(i) ELSE @[j]]]
    /\ UNCHANGED <<books, orders, signals, active, lastFunding, clock, run, taskVars>>

Seen(s) ==
    [books EXCEPT !.cash = copy[s].cash, !.locked = copy[s].locked,
                  !.pos = [i \in Instruments |-> Rows(s, i).pos],
                  !.base = [i \in Spots |-> Rows(s, i).base],
                  !.baseLocked = [i \in Spots |-> Rows(s, i).baseLocked]]

\* What the column holds in the end: `new` if the session changed it.
Column(old, new, now) == IF new = old THEN now ELSE new

WrittenPos(old, new, now) ==
    [qty      |-> Column(old.qty, new.qty, now.qty),
     entry    |-> Column(old.entry, new.entry, now.entry),
     realized |-> Column(old.realized, new.realized, now.realized),
     margin   |-> Column(old.margin, new.margin, now.margin),
     mark     |-> Column(old.mark, new.mark, now.mark)]

\* Mutant: locked_cash is not written back.
MutWritten(s, b) ==
    [b EXCEPT !.cash = Column(copy[s].cash, @, books.cash), !.locked = books.locked]

\* The session made b of what it saw.
Written(s, b) ==
    [b EXCEPT
        !.cash       = Column(copy[s].cash, @, books.cash),
        !.locked     = Column(copy[s].locked, @, books.locked),
        !.pos        = [i \in Instruments |->
                           WrittenPos(Rows(s, i).pos, @[i], books.pos[i])],
        !.base       = [i \in Spots |-> Column(Rows(s, i).base, @[i], books.base[i])],
        !.baseLocked = [i \in Spots |->
                           Column(Rows(s, i).baseLocked, @[i], books.baseLocked[i])]]

Commit(s, b) == b.valid /\ books' = Written(s, b)

Idle == phase = "idle"
Quiet == Overlap \/ (Idle /\ \A r \in Requests : ~copy[r].open)

Pending == {o \in DOMAIN orders : orders[o].status = "pending"}
Generated == {s \in DOMAIN signals : signals[s].status = "generated"}

Init ==
    /\ books = Opened /\ orders = <<>> /\ signals = <<>>
    /\ active = TRUE /\ lastFunding = 0 /\ clock = 0 /\ run = 1
    /\ copy = [s \in Requests \cup {Task} |-> NoCopy]
    /\ phase = "idle" /\ moment = NoMoment /\ rows = {} /\ listed = {} /\ uncommitted = {}

-----------------------------------------------------------------------------
(* The API's requests.                                                     *)

\* submit_manual_order up to public_quote: the account row is loaded and
\* its status checked, then the request waits for the quote.
Open(r) ==
    /\ Quiet /\ active /\ ~copy[r].open
    /\ copy' = [copy EXCEPT ![r] = Loaded(books)]
    /\ UNCHANGED <<books, orders, signals, active, lastFunding, clock, run, taskVars>>

\* The request ends with nothing written: no quote, or a refusal.
Abandon(r) ==
    /\ copy[r].open
    /\ copy' = [copy EXCEPT ![r] = NoCopy]
    /\ UNCHANGED <<books, orders, signals, active, lastFunding, clock, run, taskVars>>

\* A market order, or a limit order that crosses at once, fills at the quote.
SubmitFilled(r, i, q, p, fee) ==
    /\ copy[r].open /\ Len(books.fills) + Cardinality(Pending) < MaxFills
    /\ Affordable(Seen(r), i, q, p)
    /\ Commit(r, PostLast(Seen(r), FillOf(i, q, p, fee, clock)))
    /\ copy' = [copy EXCEPT ![r] = NoCopy]
    /\ UNCHANGED <<orders, signals, active, lastFunding, clock, run, taskVars>>

\* A limit order the quote does not cross rests, its funds locked.
SubmitResting(r, i, buy, q, limit, p) ==
    LET o == [inst |-> i, buy |-> buy, qty |-> q, limit |-> limit, status |-> "pending"]
    IN  /\ copy[r].open /\ Len(orders) < MaxOrders
        /\ Len(books.fills) + Cardinality(Pending) < MaxFills
        /\ ~Crosses(o, p)
        /\ Affordable(Seen(r), i, Signed(o), limit)
        /\ Lockable(Seen(r), o)
        /\ Commit(r, Lock(Seen(r), o))
        /\ orders' = Append(orders, o)
        /\ copy' = [copy EXCEPT ![r] = NoCopy]
        /\ UNCHANGED <<signals, active, lastFunding, clock, run, taskVars>>

Submit(r) ==
    \E i \in Instruments, buy \in BOOLEAN, q \in 1..MaxQty, p \in Prices :
        \/ \E fee \in {TakerFee, MakerFee} :
               SubmitFilled(r, i, IF buy THEN q ELSE -q, p, fee)
        \/ \E limit \in Prices : SubmitResting(r, i, buy, q, limit, p)

\* cancel_order waits for nothing between its reads and its commit.
Cancel(o) ==
    /\ Quiet /\ o \in Pending
    /\ LET b == Unlock(books, orders[o]) IN b.valid /\ books' = b
    /\ orders' = [orders EXCEPT ![o].status = "cancelled"]
    /\ UNCHANGED <<signals, active, lastFunding, clock, run, copy, taskVars>>

\* set_account_status
SetStatus ==
    /\ Quiet /\ active' = ~active
    /\ UNCHANGED <<books, orders, signals, lastFunding, clock, run, copy, taskVars>>

\* The comparison reconcile_account makes.
Mismatch ==
    LET derived == Rebuilt(books)
    IN  \/ \E i \in Instruments :
               \/ books.pos[i].qty # derived.pos[i].qty
               \/ books.pos[i].entry # derived.pos[i].entry
               \/ books.pos[i].realized # derived.pos[i].realized
        \/ books.cash + books.locked # derived.cash
        \/ books.ledger # derived.cash

\* The mark of a position row that has none: the last fill's price.
LastPrice(i) ==
    LET of == {k \in DOMAIN books.fills : books.fills[k].inst = i}
    IN  IF of = {} THEN 0 ELSE books.fills[Max(of)].price

\* reconcile_account with repair: position rows are rebuilt, cash is what
\* the ledger leaves after the locks, and no asset stays locked.  A balance
\* that would be negative fails the flush, and nothing is repaired.
Repair ==
    /\ Quiet /\ Mismatch
    /\ LET derived == Rebuilt(books)
           cash == derived.cash - books.locked
       IN  /\ cash >= 0 /\ \A i \in Spots : derived.pos[i].qty >= 0
           /\ books' = [books EXCEPT
                !.cash = cash, !.quote = cash,
                !.pos = [i \in Instruments |-> [derived.pos[i] EXCEPT !.mark = LastPrice(i)]],
                !.base = [i \in Spots |-> derived.pos[i].qty],
                !.baseLocked = [i \in Spots |-> 0]]
    /\ UNCHANGED <<orders, signals, active, lastFunding, clock, run, copy, taskVars>>

\* reset_account: open orders are cancelled and released, a new run starts.
\* (Only checked with no session open.)
Reset ==
    /\ Idle /\ (\A r \in Requests : ~copy[r].open) /\ run < MaxRuns
    /\ LET release(b, o) == IF o.status = "pending" THEN Unlock(b, o) ELSE b
       IN  FoldLeft(release, books, orders).valid
    /\ books' = Opened /\ orders' = <<>> /\ run' = run + 1
    /\ lastFunding' = clock
    /\ UNCHANGED <<signals, active, clock, copy, taskVars>>

-----------------------------------------------------------------------------
(* Signals, as the quant worker makes them (one deployment for each        *)
(* perpetual) and pausing a deployment drops them; they lapse at the next  *)
(* boundary.                                                               *)

Superseded(i) == [s \in DOMAIN signals |->
    IF signals[s].status = "generated" /\ signals[s].inst = i
    THEN [signals[s] EXCEPT !.status = "superseded"] ELSE signals[s]]

LatestTarget(i) ==
    FoldLeft(LAMBDA target, s : IF s.inst = i THEN s.target ELSE target, 0, signals)

GenerateSignal(i, target) ==      \* an unchanged target makes no signal
    /\ Idle /\ Quiet /\ Len(signals) < MaxSignals
    /\ target # LatestTarget(i)
    /\ signals' = Append(Superseded(i),
           [inst |-> i, target |-> target, until |-> clock + 1, status |-> "generated"])
    /\ UNCHANGED <<books, orders, active, lastFunding, clock, run, copy, taskVars>>

DropSignals(i) ==             \* set_deployment_status, paused; waits for row locks
    /\ Quiet /\ \A s \in uncommitted : signals[s].inst # i
    /\ signals' = Superseded(i)
    /\ UNCHANGED <<books, orders, active, lastFunding, clock, run, copy, taskVars>>

Tick ==
    /\ clock < MaxClock /\ clock' = clock + 1
    /\ UNCHANGED <<books, orders, signals, active, lastFunding, run, copy, taskVars>>

-----------------------------------------------------------------------------
(* process_pending_signals: open orders, then funding, then liquidation,   *)
(* then one signal after the other, each committing on its own.            *)

TaskStart ==
    /\ Idle /\ Quiet /\ active
    /\ copy' = [copy EXCEPT ![Task] = Loaded(books)]
    /\ phase' = "match"
    /\ moment' = [clock |-> clock, place |-> Len(books.fills)]
    /\ rows' = Pending
    /\ UNCHANGED <<books, orders, signals, active, lastFunding, clock, run, listed, uncommitted>>

\* The order o fills at p: what is locked for it is released, then it is posted.
FilledAt(b, o, p) ==
    PostLast(Unlock(b, o), FillOf(o.inst, Signed(o), p, MakerFee, clock))

\* What the loop over the loaded rows leads to under a quote for each: a row
\* counts as pending, whatever has become of the order.
Matched(quote) ==
    LET done[k \in 0..Len(orders)] ==
            IF k = 0 THEN Seen(Task)
            ELSE IF k \in rows /\ Crosses(orders[k], quote[k])
            THEN FilledAt(done[k - 1], orders[k], quote[k])
            ELSE done[k - 1]
    IN  done[Len(orders)]

Quotes == [rows -> Prices \cup {NoQuote}]

\* process_open_orders: one commit for all rows.
TaskMatch(quote) ==
    /\ phase = "match" /\ phase' = "fund" /\ rows' = {}
    /\ Commit(Task, Matched(quote))
    /\ copy' = [copy EXCEPT ![Task] = Loaded(Matched(quote))]
    /\ orders' = [o \in DOMAIN orders |->
           IF o \in rows /\ Crosses(orders[o], quote[o])
           THEN [orders[o] EXCEPT !.status = "filled"] ELSE orders[o]]
    /\ UNCHANGED <<signals, active, lastFunding, clock, run, moment, listed, uncommitted>>

\* A failed flush poisons the session: the closing commit raises and the
\* task is gone with everything it had not committed.
TaskMatchFails(quote) ==
    /\ phase = "match" /\ ~Matched(quote).valid
    /\ phase' = "idle" /\ rows' = {} /\ moment' = NoMoment
    /\ copy' = [copy EXCEPT ![Task] = NoCopy]
    /\ UNCHANGED <<books, orders, signals, active, lastFunding, clock, run, listed, uncommitted>>

\* Mutants: one boundary too many; one too few; the time now, not the task's.
MutSpanLong == (lastFunding + 1)..(moment.clock + 1)
MutSpanShort == (lastFunding + 1)..(moment.clock - 1)
MutSpanNow == (lastFunding + 1)..clock
Span == (lastFunding + 1)..moment.clock      \* the boundaries to settle
Funded(i, b) == \E e \in books.funding : e.inst = i /\ e.boundary = b

\* Mutant: a gap does not stop the loop.
MutLacks(b, known) == FALSE

\* Some position held at boundary b is neither settled nor has a rate.
Lacks(b, known) ==
    \E i \in Instruments :
        HeldAt(books.fills, i, b) # 0 /\ ~Funded(i, b) /\ <<i, b>> \notin known

\* The boundaries the task looks at, in order, up to and including the first
\* that lacks a rate, and those of them it moves past.
Tried(known) == {b \in Span : \A c \in Span : c < b => ~Lacks(c, known)}
Passed(known) == {b \in Tried(known) : ~Lacks(b, known)}

\* The settlements it makes of them (no rate exists for a spot instrument).
Due(known) ==
    {e \in {[inst |-> i, boundary |-> b, qty |-> HeldAt(books.fills, i, b)] :
            i \in Perps, b \in Tried(known)} :
        e.qty # 0 /\ ~Funded(e.inst, e.boundary) /\ <<e.inst, e.boundary>> \in known}

Cost(new, rate, price) == SumOver(LAMBDA e : e.qty * price * rate, new)

\* The account b after settlements that cost `cost`.
Charged(b, cost, new) ==
    [b EXCEPT !.cash = b.cash - cost, !.ledger = @ - cost,
              !.quote = IF new = {} THEN @ ELSE AtLeast(0, b.cash - cost),
              !.funding = @ \cup new, !.fundingCash = @ - cost]

\* apply_due_funding, at one rate and price, with the rates in `known` persisted.
TaskFund(known, rate, price) ==
    LET new == Due(known)
        b2 == Charged(Seen(Task), Cost(new, rate, price), new)
    IN  /\ phase = "fund" /\ phase' = "liquidate"
        /\ Commit(Task, b2)
        /\ copy' = [copy EXCEPT ![Task] = Loaded(b2)]
        /\ lastFunding' = lastFunding + Cardinality(Passed(known))
        /\ UNCHANGED <<orders, signals, active, clock, run, moment, rows, listed, uncommitted>>

\* The list of signals, read after liquidation; with none the task is over.
ThenSignals(b) ==
    /\ listed' = Generated
    /\ phase' = IF Generated = {} THEN "idle" ELSE "signals"
    /\ copy' = [copy EXCEPT ![Task] = IF Generated = {} THEN NoCopy ELSE Loaded(b)]
    /\ moment' = IF Generated = {} THEN NoMoment ELSE moment
    /\ uncommitted' = {}

\* The position of i as the task read it.
Own(i) == Rows(Task, i).pos

Exposed == {i \in Perps : Own(i).qty # 0}

\* The session's account with the open perpetuals marked.
Marked(mark) ==
    LET marking(i) == [Own(i) EXCEPT
            !.mark = mark[i], !.margin = Size(Own(i).qty) * mark[i] * Unit]
    IN  [Seen(Task) EXCEPT !.pos = [i \in Instruments |->
            IF i \in Exposed THEN marking(i) ELSE @[i]]]

ClosedAt(b, i, price) ==
    PostLast(b, FillOf(i, -Own(i).qty, price, TakerFee + LiquidationFee, clock))

\* The account with every open perpetual closed, one after the other.
Closed(mark) ==
    LET s == SetToSeq(Exposed)
        done[k \in 0..Len(s)] ==
            IF k = 0 THEN Marked(mark) ELSE ClosedAt(done[k - 1], s[k], mark[s[k]])
    IN  done[Len(s)]

\* check_liquidation: every perpetual is marked; if equity does not exceed
\* the maintenance margin each is closed at its mark with the extra fee.
TaskLiquidate(mark) ==
    LET gain(i) == (mark[i] * Unit - Own(i).entry) * Own(i).qty
        required == SumOver(LAMBDA i : Size(Own(i).qty) * mark[i] * Maintenance, Exposed)
        equity == Marked(mark).cash + Marked(mark).locked + SumOver(gain, Exposed)
        b2 == IF Exposed = {} \/ equity > required THEN Marked(mark)
              ELSE [Closed(mark) EXCEPT !.quote = AtLeast(0, Closed(mark).cash)]
    IN  /\ phase = "liquidate"
        /\ Commit(Task, b2) /\ ThenSignals(b2)
        /\ UNCHANGED <<orders, signals, active, lastFunding, clock, run, rows>>

\* No quote for an open perpetual: rolled back, the account row read anew.
TaskLiquidateFails ==
    /\ phase = "liquidate" /\ Exposed # {} /\ ThenSignals(books)
    /\ UNCHANGED <<books, orders, signals, active, lastFunding, clock, run, rows>>

Consume(S) == [x \in DOMAIN signals |->
    IF x \in S /\ signals[x].status = "generated"
    THEN [signals[x] EXCEPT !.status = "consumed"] ELSE signals[x]]

\* A branch of process_signal that commits: it writes a signal only if that
\* is generated, and what earlier signals left uncommitted is kept with it.
Settle(s, status) ==
    /\ signals' = IF signals[s].status = "generated"
                  THEN [Consume(uncommitted) EXCEPT ![s].status = status]
                  ELSE Consume(uncommitted)
    /\ uncommitted' = {}

\* The signal it looks at now.
Oldest == Min(listed)

\* On to the next listed signal, or the end of the loop; `filled` fills later.
ThenNext(b, filled) ==
    LET last == listed = {Oldest}
        over == last /\ uncommitted' = {}
    IN  /\ listed' = listed \ {Oldest}
        /\ phase' = IF over THEN "idle" ELSE IF last THEN "close" ELSE "signals"
        /\ copy' = [copy EXCEPT ![Task] = IF over THEN NoCopy ELSE Loaded(b)]
        /\ moment' = IF over THEN NoMoment ELSE [moment EXCEPT !.place = @ + filled]
        /\ UNCHANGED <<orders, active, lastFunding, clock, run, rows>>

Unfilled == ThenNext(Seen(Task), 0) /\ UNCHANGED books

\* The quantity aimed at: _quantize_quantity takes the absolute value.
TargetQty(target, p) == Size(target * Nav(Seen(Task))) \div (p * Unit)

\* Gross exposure with q lots of i at price p.
Exposure(i, q, p) ==
    LET others(j) == Size(Own(j).qty) * Own(j).mark * Unit
    IN  Size(q) * p * Unit + SumOver(others, Instruments \ {i})

\* process_signal for the oldest listed signal, at price p.
SignalSkipped ==     \* no quote
    /\ phase = "signals"
    /\ UNCHANGED <<signals, uncommitted>> /\ Unfilled

SignalLapsed(s) ==
    /\ signals[s].until <= moment.clock
    /\ Settle(s, "expired") /\ Unfilled

\* No material delta: consumed, but this branch returns without a commit.
SignalNoDelta(s, p) ==
    /\ signals[s].until > moment.clock
    /\ TargetQty(signals[s].target, p) = Own(signals[s].inst).qty
    /\ uncommitted' = uncommitted \cup (IF signals[s].status = "generated" THEN {s} ELSE {})
    /\ UNCHANGED signals /\ Unfilled

SignalRejected(s, p) ==
    LET i == signals[s].inst
        q == TargetQty(signals[s].target, p)
    IN  /\ signals[s].until > moment.clock
        /\ q # Own(i).qty
        /\ Exposure(i, q, p) > Cap * Nav(Seen(Task))
        /\ Settle(s, "rejected") /\ Unfilled

\* The fill carries the task's moment as its time, so fills made since the
\* task began are replayed after it.
SignalFilled(s, p) ==
    LET i == signals[s].inst
        q == TargetQty(signals[s].target, p)
        f == FillOf(i, q - Own(i).qty, p, TakerFee, moment.clock)
        b2 == Post(Seen(Task), f, moment.place + 1)
    IN  /\ signals[s].until > moment.clock
        /\ q # Own(i).qty
        /\ Exposure(i, q, p) <= Cap * Nav(Seen(Task))
        /\ Commit(Task, b2) /\ Settle(s, "consumed") /\ ThenNext(b2, 1)

TaskSignal ==
    /\ phase = "signals"
    /\ LET s == Oldest
       IN  \/ SignalLapsed(s)
           \/ \E p \in Prices : SignalNoDelta(s, p) \/ SignalRejected(s, p) \/ SignalFilled(s, p)

\* The session closes and rolls back, unless another account comes after
\* this one in the same session and commits.
TaskClose ==
    /\ phase = "close" /\ phase' = "idle"
    /\ UNCHANGED signals \/ signals' = Consume(uncommitted)
    /\ uncommitted' = {} /\ moment' = NoMoment
    /\ copy' = [copy EXCEPT ![Task] = NoCopy]
    /\ UNCHANGED <<books, orders, active, lastFunding, clock, run, rows, listed>>

KnownRates ==
    LET every == Perps \X Span
    IN  IF RateGaps THEN SUBSET every ELSE {every}

TaskWork ==
    \/ \E quote \in Quotes : TaskMatch(quote) \/ TaskMatchFails(quote)
    \/ \E known \in KnownRates, rate \in Rates, p \in Prices : TaskFund(known, rate, p)
    \/ \E mark \in [Exposed -> Prices] : TaskLiquidate(mark)
    \/ TaskLiquidateFails
    \/ SignalSkipped
    \/ TaskSignal \/ TaskClose

Next ==
    \/ \E r \in Requests : Open(r) \/ Abandon(r) \/ Submit(r)
    \/ \E s \in Requests \cup {Task}, i \in Instruments : ReadRows(s, i)
    \/ \E o \in DOMAIN orders : Cancel(o)
    \/ SetStatus \/ Repair \/ Reset
    \/ \E i \in Perps : DropSignals(i) \/ \E target \in Targets : GenerateSignal(i, target)
    \/ Tick
    \/ TaskStart \/ TaskWork

Spec == Init /\ [][Next]_vars

\* Celery beat keeps the task coming and the worker runs what it took.
FairSpec == Spec /\ WF_vars(TaskStart) /\ WF_vars(TaskWork) /\ \A r \in Requests : WF_vars(Abandon(r))

-----------------------------------------------------------------------------
(* Properties.                                                             *)

\* Every variable holds values of its kind, and the task's list and copy are
\* there exactly while it is under way.
TypeOK ==
    /\ books.valid /\ books.locked \in Nat
    /\ \A i \in Spots : books.base[i] \in Nat /\ books.baseLocked[i] \in Nat
    /\ \A o \in DOMAIN orders : orders[o].status \in {"pending", "filled", "cancelled"}
    /\ \A s \in DOMAIN signals :
           signals[s].status \in {"generated", "superseded", "expired", "rejected", "consumed"}
    /\ active \in BOOLEAN /\ clock \in 0..MaxClock /\ lastFunding \in 0..clock
    /\ phase \in {"idle", "match", "fund", "liquidate", "signals", "close"}
    /\ copy[Task].open <=> phase # "idle"
    /\ listed # {} <=> phase = "signals"

\* The ledger events add up to the account's cash, free and locked, whatever
\* orders rest, fill, are cancelled, funded or liquidated.
LedgerExplainsCash == books.cash + books.locked = books.ledger

\* A position's quantity is what its fills add up to, and a spot position is
\* the asset balance, free and locked: three rows written apart that must
\* agree.
PositionsFollowFills ==
    /\ \A i \in Instruments : books.pos[i].qty = Held(books.fills, i)
    /\ \A i \in Spots : books.base[i] + books.baseLocked[i] = books.pos[i].qty

\* What a resting order holds, in cash and of the asset i.
CashHeld(o) == IF o.status = "pending" /\ ~Sells(o) THEN Reserved(o) ELSE 0
AssetHeld(o, i) ==
    IF o.status = "pending" /\ Sells(o) /\ o.inst = i THEN o.qty ELSE 0

\* What is locked, in cash and in every asset, is exactly what the resting
\* orders reserved: none is double-counted, none is left behind when an
\* order fills at a better price, is cancelled or its run is reset.
LocksCoverOrders ==
    /\ books.locked = SumTo([o \in DOMAIN orders |-> CashHeld(orders[o])], Len(orders))
    /\ \A i \in Spots : books.baseLocked[i] =
           SumTo([o \in DOMAIN orders |-> AssetHeld(orders[o], i)], Len(orders))

\* The positions and the cash rebuilt from fills and funding are the cached
\* ones: an account nobody tampered with reconciles.
RebuildsExactly == ~Mismatch

\* Whatever crossing price comes, a resting order can be filled without a
\* balance row going negative (the failed flush would end the task for all
\* accounts, run after run).
RestingOrdersCanFill ==
    \A o \in Pending, p \in Prices : Crosses(orders[o], p) =>
        FilledAt(books, orders[o], p).valid

\* Every boundary the account has moved past is settled, once, for the
\* quantity the fills say was held at it, although fills may still be
\* inserted at the time a task began.
FundingComplete ==
    /\ \A b \in 1..lastFunding, i \in Perps :
           HeldAt(books.fills, i, b) # 0 => Funded(i, b)
    /\ \A e \in books.funding :
           /\ e.qty = HeldAt(books.fills, e.inst, e.boundary)
           /\ \A d \in books.funding :
                  d.inst = e.inst /\ d.boundary = e.boundary => d = e

\* An order that was cancelled or has filled stays so.
OrdersFinal ==
    [][\A o \in DOMAIN orders : o \notin Pending /\ run' = run =>
           orders'[o].status = orders[o].status]_vars

\* Every boundary that has passed is settled in the end, while the account
\* stays active and its cash does not turn negative, whatever requests do.
FundingReaches ==
    \A c \in 1..MaxClock :
        clock >= c ~> (lastFunding >= c \/ ~active \/ books.cash < 0)

-----------------------------------------------------------------------------
(* What the repository says of this code and the code does not keep.       *)

\* A fill of the signal loop belongs to a signal that is still generated.
OnlyLiveSignalsTrade ==
    [][phase = "signals" /\ listed' # listed /\ books'.fills # books.fills =>
           signals[Oldest].status = "generated"]_vars

\* A signal to go short never leaves its fill with a long position.
ShortMeansShort ==
    [][phase = "signals" /\ listed' # listed /\ books'.fills # books.fills
           /\ signals[Oldest].target < 0 =>
           \A i \in Perps : books'.pos[i].qty <= 0]_vars

\* A signal that was answered with "no material delta" ends consumed.
AnsweredIsConsumed ==
    [][\A s \in uncommitted : s \in uncommitted' \/ signals'[s].status = "consumed"]_vars

\* The balance row of the base currency shows the account's free cash.
BalanceFollowsCash == books.quote = AtLeast(0, books.cash)

=============================================================================
