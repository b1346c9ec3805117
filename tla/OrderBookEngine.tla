--------------------------- MODULE OrderBookEngine ---------------------------
(***************************************************************************)
(* Engine A (engine_a/mod.rs): one OrderBookEngine per instrument, all of  *)
(* them reporting to the run's one account.                                *)
(*                                                                         *)
(* An order is known by its submission number, so the engine's vectors of  *)
(* buffered and resting orders are sets of numbers: the code appends to    *)
(* them and filters them in order, hence their order is always that of     *)
(* submission.  log[n] is the sequence of TradeRecords of order n.         *)
(*                                                                         *)
(* The handlers Handle... do not mention the clock: an engine reads the    *)
(* event's own timestamp.  The actions On... are the handlers as an        *)
(* environment that keeps the Engine trait's contract calls them: the      *)
(* clock is advanced to an event before the engine sees it, and never      *)
(* moves back.                                                             *)
(***************************************************************************)
EXTENDS FillModel, AccountLedger

CONSTANTS
    MaxOrders,          \* bound: orders submitted in a run
    ClockStart,         \* where the run's clock starts
    MaxTime,            \* the end of the run, and the last timestamp
    Latency,            \* latency_ns, validated to be >= 0
    FeeSchedule,        \* per instrument: None or its sequence of tiers
    TakerOverride,      \* RunRequest.taker_fee_bps, or None
    DynamicFees,        \* the instruments with HasFeeScheduleUpdates
    StartingBalance,    \* of the account
    Payloads,           \* the payloads the data may carry
    OrderSpecs          \* the orders strategies may submit

FeeTier == [maker : Bps, taker : Bps]

ASSUME EngineAssumption ==
    /\ MaxOrders \in Nat /\ MaxTime \in Nat /\ Latency \in Nat
    /\ ClockStart \in Nat /\ StartingBalance \in Int
    /\ TakerOverride \in Optional(Bps)
    /\ DynamicFees \subseteq Instruments
    /\ \A i \in Instruments : FeeSchedule[i] \in Optional(Seq(FeeTier))
    /\ OrderSpecs \subseteq Order
    /\ \A p \in Payloads :
          IsSnapshot(p) \/
          p \in BarPayload \union QuotePayload \union TradePayload
                  \union DeltaPayload \union MarkPayload \union StatusPayload
                  \union FeePayload \union SignalPayload \union ViewMarkPayload

OrderIds == 1..MaxOrders

VARIABLES
    now,            \* SimulationClock.current_ts
    book,           \* the BookView of each engine
    fidelity,       \* the best data each engine has seen
    lastBar,        \* close and timestamp of the last bar, or None
    lastTrade,      \* last trade price, or None
    markPrice,      \* mark price from MarkUpdate or Funding, or None
    halted,         \* is trading halted?
    dynamicTaker,   \* taker bps of the last FeeScheduleUpdate, or None
    pending,        \* buffered market orders
    resting,        \* resting limit and stop orders
    settled,        \* has the runner settled this engine?
    count,          \* orders submitted so far
    orders,         \* submitted orders with their decision time
    log,            \* trade records of each order
    account         \* the injected account

marketVars == <<book, fidelity, lastBar, lastTrade, markPrice, halted, dynamicTaker>>
orderVars  == <<pending, resting, log>>
runVars    == <<settled, count, orders>>
vars == <<now, marketVars, orderVars, runVars, account>>

-----------------------------------------------------------------------------
(* Helpers: orders, fees, records *)

ActiveTs(n) == orders[n].ts + Latency

(* Fault: the latency check is dropped. *)
FaultEligibleAtOnce(S, ts) == S

(* Fault: strict comparison, an order active exactly now is skipped. *)
FaultEligibleLate(S, ts) == {n \in S : ActiveTs(n) < ts}

Eligible(S, ts) == {n \in S : ActiveTs(n) <= ts}

(* Fault: the override of the run hides the updates in the data. *)
FaultOverrideFirst(i) == IF TakerOverride # None THEN TakerOverride ELSE dynamicTaker[i]

(* effective_taker_bps: what compute_fee gets as its override. *)
EffectiveTaker(i) == IF dynamicTaker[i] # None THEN dynamicTaker[i] ELSE TakerOverride

FillWhole(i, order, price) == FillAtPrice(order, price, FeeSchedule[i], EffectiveTaker(i))

(* `via' names the handler, which determines fidelity and reject reason. *)
FillRecord(ts, fill, via) ==
    [ kind |-> "fill", ts |-> ts, via |-> via, qty |-> fill.qty,
      notional |-> fill.notional, fee |-> fill.fee, partial |-> fill.partial ]

(* Fault: a rejection is written as a fill of nothing. *)
FaultRejectAsFill(ts, via) ==
    [ kind |-> "fill", ts |-> ts, via |-> via, qty |-> 0,
      notional |-> 0, fee |-> 0, partial |-> FALSE ]

RejectRecord(ts, via) ==
    [ kind |-> "reject", ts |-> ts, via |-> via, qty |-> 0,
      notional |-> 0, fee |-> 0, partial |-> FALSE ]

(* Fault: cancellations leave no trade record. *)
FaultRecordFillsOnly(fills, rejects, ts, via) ==
    log' = [n \in OrderIds |->
              IF n \in DOMAIN fills THEN Append(log[n], FillRecord(ts, fills[n], via))
              ELSE log[n]]

(***************************************************************************)
(* One handler's records: a fill for each order in the domain of `fills',  *)
(* a rejection for each order in `rejects'.                                *)
(***************************************************************************)
Record(fills, rejects, ts, via) ==
    log' = [n \in OrderIds |->
              IF n \in DOMAIN fills THEN Append(log[n], FillRecord(ts, fills[n], via))
              ELSE IF n \in rejects THEN Append(log[n], RejectRecord(ts, via))
              ELSE log[n]]

(* Fault: only the last fill of a batch reaches the account. *)
FaultReportLast(acct, S, fills) ==
    IF S = {} THEN acct
    ELSE ReportFill(acct, orders[Max(S)].instrument, orders[Max(S)].side, fills[Max(S)])

(* report_fill for the orders in S, in the order they were submitted. *)
ReportFills(acct, S, fills) ==
    LET Report(a, n) ==
            IF n \in S
            THEN ReportFill(a, orders[n].instrument, orders[n].side, fills[n])
            ELSE a
        after[n \in 0..MaxOrders] ==
            IF n = 0 THEN acct ELSE Report(after[n - 1], n)
    IN  after[MaxOrders]

-----------------------------------------------------------------------------
(* Triggers of resting orders *)

(***************************************************************************)
(* A resting limit order without a limit price, or stop order without a    *)
(* stop price, is put back untouched by every check.                       *)
(***************************************************************************)
Checkable(order) ==
    IF order.type = "Limit" THEN order.limit # None ELSE order.stop # None

CrossedByBar(order, bar) ==
    CASE order.type = "Limit" /\ order.side = "Buy"  -> bar.low <= order.limit
      [] order.type = "Limit" /\ order.side = "Sell" -> bar.high >= order.limit
      [] order.type # "Limit" /\ order.side = "Buy"  -> bar.high >= order.stop
      [] order.type # "Limit" /\ order.side = "Sell" -> bar.low <= order.stop
      [] OTHER -> FALSE

(* Fault: a resting limit order that the bar reaches fills at the open. *)
FaultFillAtOpen(order, bar) == bar.open

(* Fault: a stop gets the better of stop and open. *)
FaultBetterOfStopAndOpen(order, bar) ==
    IF order.type = "Limit" THEN order.limit
    ELSE IF order.side = "Buy" THEN Min({order.stop, bar.open})
    ELSE Max({order.stop, bar.open})

(* A limit order fills at its limit, a stop at the worse of stop and open. *)
BarFillPrice(order, bar) ==
    IF order.type = "Limit" THEN order.limit
    ELSE IF order.side = "Buy" THEN Max({order.stop, bar.open})
    ELSE Min({order.stop, bar.open})

CrossedByTrade(order, price) ==
    CASE order.type = "Limit" /\ order.side = "Buy"  -> price <= order.limit
      [] order.type = "Limit" /\ order.side = "Sell" -> price >= order.limit
      [] order.type # "Limit" /\ order.side = "Buy"  -> price >= order.stop
      [] order.type # "Limit" /\ order.side = "Sell" -> price <= order.stop
      [] OTHER -> FALSE

TradeFillPrice(order) == IF order.limit # None THEN order.limit ELSE order.stop

-----------------------------------------------------------------------------
(* Event handlers *)

(***************************************************************************)
(* handle_bar: buffered market orders fill at the open; resting orders     *)
(* that the bar reaches fill; of the others all but Gtc expire.            *)
(***************************************************************************)
HandleBar(i, ts, bar) ==
    LET bought  == Eligible(pending[i], ts)
        checked == {n \in Eligible(resting[i], ts) : Checkable(orders[n])}
        reached == {n \in checked : CrossedByBar(orders[n], bar)}
        expired == {n \in checked \ reached : orders[n].tif # "Gtc"}
        fills   == [n \in bought \union reached |->
                      FillWhole(i, orders[n],
                                IF n \in bought THEN bar.open
                                ELSE BarFillPrice(orders[n], bar))]
    IN  /\ pending' = [pending EXCEPT ![i] = @ \ bought]
        /\ resting' = [resting EXCEPT ![i] = @ \ (reached \union expired)]
        /\ Record(fills, expired, ts, "bar")
        /\ account' = UpdateMark(ReportFills(ReportFills(account, bought, fills),
                                             reached, fills),
                                 i, bar.close)
        /\ lastBar' = [lastBar EXCEPT ![i] = [close |-> bar.close, ts |-> ts]]
        /\ lastTrade' = [lastTrade EXCEPT ![i] = bar.close]
        /\ fidelity' = [fidelity EXCEPT ![i] =
                          IF @ = "Bar" /\ ~IsEmptyBook(book[i]) THEN "L2" ELSE @]
        /\ UNCHANGED <<book, markPrice, halted, dynamicTaker, runVars>>

(***************************************************************************)
(* handle_quote: the quote is written into the book as two level updates,  *)
(* and buffered market orders are filled at the touch.  Resting orders are *)
(* not looked at.                                                          *)
(***************************************************************************)
HandleQuote(i, ts, q) ==
    LET quoted == ApplyDelta(ApplyDelta(book[i], "Buy", q.bid, q.bidSize, "Modify"),
                             "Sell", q.ask, q.askSize, "Modify")
        Fill(n) == FillL1(orders[n], quoted, FeeSchedule[i], EffectiveTaker(i))
        fills  == [n \in {m \in Eligible(pending[i], ts) : Fill(m) # None} |-> Fill(n)]
    IN  /\ book' = [book EXCEPT ![i] = quoted]
        /\ fidelity' = [fidelity EXCEPT ![i] = IF @ = "Bar" THEN "L1" ELSE @]
        /\ pending' = [pending EXCEPT ![i] = @ \ DOMAIN fills]
        /\ Record(fills, {}, ts, "quote")
        /\ account' = ReportFills(account, DOMAIN fills, fills)
        /\ UNCHANGED <<lastBar, lastTrade, markPrice, halted, dynamicTaker,
                       resting, runVars>>

(***************************************************************************)
(* handle_trade and check_resting_on_trade: resting orders the price       *)
(* reaches fill; nothing expires; buffered market orders keep waiting.     *)
(***************************************************************************)
HandleTrade(i, ts, price) ==
    LET reached == {n \in Eligible(resting[i], ts) :
                      Checkable(orders[n]) /\ CrossedByTrade(orders[n], price)}
        fills   == [n \in reached |->
                      FillWhole(i, orders[n], TradeFillPrice(orders[n]))]
    IN  /\ resting' = [resting EXCEPT ![i] = @ \ reached]
        /\ Record(fills, {}, ts, "trade")
        /\ account' = ReportFills(UpdateMark(account, i, price), reached, fills)
        /\ lastTrade' = [lastTrade EXCEPT ![i] = price]
        /\ fidelity' = [fidelity EXCEPT ![i] = IF @ = "Bar" THEN "L1" ELSE @]
        /\ UNCHANGED <<book, lastBar, markPrice, halted, dynamicTaker,
                       pending, runVars>>

HandleBook(i, newBook) ==
    /\ book' = [book EXCEPT ![i] = newBook]
    /\ fidelity' = [fidelity EXCEPT ![i] = "L2"]
    /\ UNCHANGED <<lastBar, lastTrade, markPrice, halted, dynamicTaker,
                   orderVars, runVars, account>>

(* MarkUpdate marks the account as well, Funding only the engine. *)
HandleMark(i, p) ==
    /\ markPrice' = [markPrice EXCEPT ![i] = p.markPrice]
    /\ account' = IF p.type = "MarkUpdate" THEN UpdateMark(account, i, p.markPrice)
                                           ELSE account
    /\ UNCHANGED <<book, fidelity, lastBar, lastTrade, halted, dynamicTaker,
                   orderVars, runVars>>

HandleStatus(i, status) ==
    /\ halted' = [halted EXCEPT ![i] = status \in {"Halted", "Suspended"}]
    /\ UNCHANGED <<book, fidelity, lastBar, lastTrade, markPrice, dynamicTaker,
                   orderVars, runVars, account>>

(* The update takes effect at once, and only under its capability. *)
HandleFees(i, p) ==
    /\ dynamicTaker' = [dynamicTaker EXCEPT ![i] =
                          IF i \in DynamicFees THEN p.takerBps ELSE @]
    /\ UNCHANGED <<book, fidelity, lastBar, lastTrade, markPrice, halted,
                   orderVars, runVars, account>>

(* A per-order event only raises the fidelity; the rest, Mark included, is *)
(* informational.                                                          *)
HandleSignal(i, type) ==
    /\ fidelity' = [fidelity EXCEPT ![i] =
                      IF type = "OrderBookOrderEvent" THEN "L3" ELSE @]
    /\ UNCHANGED <<book, lastBar, lastTrade, markPrice, halted, dynamicTaker,
                   orderVars, runVars, account>>

(* on_event *)
HandleEvent(i, ts, p) ==
    \/ p.type \in {"Bar", "DerivedBar"} /\ HandleBar(i, ts, p)
    \/ p.type = "Quote" /\ HandleQuote(i, ts, p)
    \/ p.type = "Trade" /\ HandleTrade(i, ts, p.price)
    \/ p.type = "BookDelta" /\
         HandleBook(i, ApplyDelta(book[i], p.side, p.price, p.size, p.action))
    \/ p.type = "BookSnapshot" /\ HandleBook(i, ApplySnapshot(p.bids, p.asks))
    \/ p.type \in {"MarkUpdate", "Funding"} /\ HandleMark(i, p)
    \/ p.type = "TradingStatus" /\ HandleStatus(i, p.status)
    \/ p.type = "FeeScheduleUpdate" /\ HandleFees(i, p)
    \/ p.type \in {"OrderBookOrderEvent", "Mark", "Other"} /\ HandleSignal(i, p.type)

-----------------------------------------------------------------------------
(* Order submission *)

(* The fill a new order gets from the current book, or None. *)
ImmediateFill(i, order) ==
    LET schedule == FeeSchedule[i]
        taker    == EffectiveTaker(i)
        walked   == FillL2(order, book[i], schedule, taker)
    IN  CASE IsEmptyBook(book[i]) -> None
          [] ~IsEmptyBook(book[i]) /\ order.type = "Market" ->
               IF walked # None THEN walked ELSE FillL1(order, book[i], schedule, taker)
          [] ~IsEmptyBook(book[i]) /\ order.type = "Limit" ->
               TryFillLimit(order, book[i], schedule, taker)
          [] OTHER -> None

Buffer(i, n) == pending' = [pending EXCEPT ![i] = @ \union {n}]
Rest(i, n)   == resting' = [resting EXCEPT ![i] = @ \union {n}]

(* Fault: an order that was concluded on arrival is buffered as well. *)
FaultConcludeAndBuffer(fills, rejects, ts, via) ==
    /\ Record(fills, rejects, ts, via)
    /\ pending' = [i \in Instruments |->
          pending[i] \union {n \in rejects \union DOMAIN fills : orders'[n].instrument = i}]
    /\ UNCHANGED resting

(* The order is executed, or refused, before submit_order returns. *)
Conclude(fills, rejects, ts, via) ==
    /\ Record(fills, rejects, ts, via)
    /\ UNCHANGED <<pending, resting>>

(***************************************************************************)
(* submit_order.  A fill against the book is stamped with the time the     *)
(* order becomes active, but executes against the book as it is now.       *)
(***************************************************************************)
SubmitOrder(order) ==
    LET i == order.instrument
        n == count + 1
        fill == ImmediateFill(i, order)
        stored == [ instrument |-> i, side |-> order.side, type |-> order.type,
                    qty |-> order.qty, limit |-> order.limit, stop |-> order.stop,
                    tif |-> order.tif, ts |-> now ]
        fails == order.type = "Limit" /\ order.tif \in {"Ioc", "Fok"}
    IN  /\ count < MaxOrders
        /\ count' = n
        /\ orders' = [orders EXCEPT ![n] = stored]
        /\ \/ /\ halted[i]
              /\ Conclude(<<>>, {n}, now, "halted")
              /\ UNCHANGED account
           \/ /\ ~halted[i] /\ fill # None
              /\ Conclude([m \in {n} |-> fill], {}, now + Latency, "book")
              /\ account' = ReportFill(account, i, order.side, fill)
           \/ /\ ~halted[i] /\ fill = None /\ order.type = "Market"
              /\ Buffer(i, n)
              /\ UNCHANGED <<resting, log, account>>
           \/ /\ ~halted[i] /\ fill = None /\ fails
              /\ Conclude(<<>>, {n}, now, "unfillable")
              /\ UNCHANGED account
           \/ /\ ~halted[i] /\ fill = None /\ order.type # "Market" /\ ~fails
              /\ Rest(i, n)
              /\ UNCHANGED <<pending, log, account>>
        /\ UNCHANGED <<marketVars, settled>>

-----------------------------------------------------------------------------
(* Settlement *)

(* Fault: a mark counts only as long as nothing was traded. *)
FaultTradeBeforeMark(i) ==
    CASE lastTrade[i] # None -> lastTrade[i]
      [] lastTrade[i] = None /\ markPrice[i] # None -> markPrice[i]
      [] OTHER -> None

SettlePrice(i) ==
    CASE markPrice[i] # None -> markPrice[i]
      [] markPrice[i] = None /\ lastTrade[i] # None -> lastTrade[i]
      [] OTHER -> IF lastBar[i] # None THEN lastBar[i].close ELSE None

SettleFills(i) == [n \in pending[i] |-> FillWhole(i, orders[n], SettlePrice(i))]

(* The account once engine i is through with it. *)
SettleAccount(acct, i) ==
    IF SettlePrice(i) = None THEN acct
    ELSE ReportFills(ForceCloseAll(acct, SettlePrice(i)), pending[i], SettleFills(i))

(***************************************************************************)
(* settle: without a price nothing happens at all.  Otherwise every open   *)
(* position of the account is closed at this engine's price, then resting  *)
(* orders are cancelled, then buffered market orders are filled.           *)
(***************************************************************************)
SettleEngine(i) ==
    /\ ~settled[i]
    /\ settled' = [settled EXCEPT ![i] = TRUE]
    /\ account' = SettleAccount(account, i)
    /\ \/ /\ SettlePrice(i) = None
          /\ UNCHANGED orderVars
       \/ /\ SettlePrice(i) # None
          /\ Record(SettleFills(i), resting[i], now, "settle")
          /\ resting' = [resting EXCEPT ![i] = {}]
          /\ pending' = [pending EXCEPT ![i] = {}]
    /\ UNCHANGED <<marketVars, count, orders>>

-----------------------------------------------------------------------------
(* The specification *)

Init ==
    /\ now = ClockStart
    /\ book = [i \in Instruments |-> EmptyBook]
    /\ fidelity = [i \in Instruments |-> "Bar"]
    /\ lastBar = [i \in Instruments |-> None]
    /\ lastTrade = [i \in Instruments |-> None]
    /\ markPrice = [i \in Instruments |-> None]
    /\ halted = [i \in Instruments |-> FALSE]
    /\ dynamicTaker = [i \in Instruments |-> None]
    /\ pending = [i \in Instruments |-> {}]
    /\ resting = [i \in Instruments |-> {}]
    /\ settled = [i \in Instruments |-> FALSE]
    /\ count = 0
    /\ orders = [n \in OrderIds |-> None]
    /\ log = [n \in OrderIds |-> <<>>]
    /\ account = NewAccount(StartingBalance)

Running == \A i \in Instruments : ~settled[i]

OnEvent(i, ts, p) ==
    /\ Running
    /\ ts >= now
    /\ now' = ts
    /\ HandleEvent(i, ts, p)

OnSubmit(order) ==
    /\ Running
    /\ SubmitOrder(order)
    /\ UNCHANGED now

(* The clock moves on for an event no engine sees, and to the run's end. *)
OnClock(ts) ==
    /\ Running
    /\ now' = ts
    /\ UNCHANGED <<marketVars, orderVars, runVars, account>>

(* The engines are settled once the clock stands at the end of the run. *)
OnSettle(i) ==
    /\ now = MaxTime
    /\ SettleEngine(i)
    /\ UNCHANGED now

Next ==
    \/ \E i \in Instruments, ts \in now..MaxTime, p \in Payloads : OnEvent(i, ts, p)
    \/ \E order \in OrderSpecs : OnSubmit(order)
    \/ \E ts \in (now + 1)..MaxTime : OnClock(ts)
    \/ \E i \in Instruments : OnSettle(i)

Spec == Init /\ [][Next]_vars

-----------------------------------------------------------------------------
(* Invariants *)

FillVias   == {"bar", "quote", "trade", "book", "settle"}
RejectVias == {"bar", "halted", "unfillable", "settle"}

SubmittedOrder ==
    [ instrument : Instruments, side : Sides, type : OrderTypes,
      qty : Quantity, limit : Optional(Price), stop : Optional(Price),
      tif : TimeInForce, ts : Timestamp ]

RecordOK(r) ==
    \/ r.kind = "fill" /\ r.via \in FillVias /\ r.ts \in Timestamp
    \/ r.kind = "reject" /\ r.via \in RejectVias /\ r.ts \in Timestamp

(***************************************************************************)
(* Type correctness of the engine's own state; the account's is checked    *)
(* with the account.                                                       *)
(***************************************************************************)
TypeOK ==
    /\ now \in Timestamp
    /\ DOMAIN book = Instruments /\ \A i \in Instruments : IsBook(book[i])
    /\ fidelity \in [Instruments -> Fidelity]
    /\ lastBar \in [Instruments -> Optional([close : Price, ts : Timestamp])]
    /\ lastTrade \in [Instruments -> Optional(Price)]
    /\ markPrice \in [Instruments -> Optional(Price)]
    /\ halted \in [Instruments -> BOOLEAN]
    /\ dynamicTaker \in [Instruments -> Optional(Bps)]
    /\ pending \in [Instruments -> SUBSET OrderIds]
    /\ resting \in [Instruments -> SUBSET OrderIds]
    /\ settled \in [Instruments -> BOOLEAN]
    /\ count \in 0..MaxOrders
    /\ orders \in [OrderIds -> SubmittedOrder \union {None}]
    /\ DOMAIN log = OrderIds
    /\ \A n \in OrderIds : \A k \in DOMAIN log[n] : RecordOK(log[n][k])

Submitted == 1..count
Working(n) == \E i \in Instruments : n \in pending[i] \union resting[i]
Concluded(n) == log[n] # <<>>

(***************************************************************************)
(* Every submitted order is in exactly one place: buffered by the engine   *)
(* of its instrument, resting there, or concluded with exactly one trade   *)
(* record; market orders are never rested, others never buffered.          *)
(***************************************************************************)
OrderConservation ==
    /\ \A n \in OrderIds : log[n] = <<>> \/ log[n] = <<log[n][1]>>
    /\ \A n \in OrderIds : n \in Submitted <=> (Working(n) \/ Concluded(n))
    /\ \A n \in OrderIds : ~(Working(n) /\ Concluded(n))
    /\ \A i \in Instruments :
          /\ \A n \in pending[i] : orders[n].instrument = i /\ orders[n].type = "Market"
          /\ \A n \in resting[i] : orders[n].instrument = i /\ orders[n].type # "Market"

Fills == {n \in OrderIds : log[n] # <<>> /\ log[n][1].kind = "fill"}

(***************************************************************************)
(* Data that arrives fills no order before submission + latency, and no    *)
(* fill of any kind is dated before its order.  Executions on arrival do   *)
(* not wait for the latency (NoExecutionBeforeActive of EngineClaims), and *)
(* neither do fills by the settlement.                                     *)
(***************************************************************************)
DataFillsRespectLatency ==
    \A n \in Fills :
        LET r == log[n][1]
        IN  /\ r.via \in {"bar", "quote", "trade"} => r.ts >= ActiveTs(n)
            /\ r.ts >= orders[n].ts

(***************************************************************************)
(* A limit order never trades beyond its limit, whichever of its ways to   *)
(* a fill it takes: on arrival against the book, on a bar or on a trade.   *)
(***************************************************************************)
LimitPriceRespected ==
    \A n \in Fills : orders[n].type = "Limit" =>
        LET r == log[n][1]
        IN  /\ orders[n].side = "Buy"  => r.notional <= orders[n].limit * r.qty
            /\ orders[n].side = "Sell" => r.notional >= orders[n].limit * r.qty

(***************************************************************************)
(* Pessimism of stops: a plain stop order never gets a better price than   *)
(* its stop price, gaps included.                                          *)
(***************************************************************************)
StopNeverImproved ==
    \A n \in Fills : orders[n].type = "Stop" /\ orders[n].limit = None =>
        LET r == log[n][1]
        IN  /\ orders[n].side = "Buy"  => r.notional >= orders[n].stop * r.qty
            /\ orders[n].side = "Sell" => r.notional <= orders[n].stop * r.qty

(***************************************************************************)
(* What is to be executed at once does not outlive a bar it was active     *)
(* for: market orders have been filled, and Ioc and Fok orders have been   *)
(* filled or have expired, unless they were submitted after that bar or    *)
(* cannot be checked.  Gtc and Day orders are to live on.  Day orders are  *)
(* cancelled with the others all the same, before the session closes.      *)
(***************************************************************************)
ImmediateOrdersEndAtABar ==
    \A i \in Instruments : lastBar[i] # None =>
        \A n \in pending[i] \union {m \in resting[i] :
                     Checkable(orders[m]) /\ orders[m].tif \in {"Ioc", "Fok"}} :
            orders[n].ts >= lastBar[i].ts \/ ActiveTs(n) > lastBar[i].ts

(* What a recorded fill took from the cash, and what it added to the position. *)
Sign(side) == CASE side = "Buy" -> 1 [] side = "Sell" -> -1 [] OTHER -> 0

Paid == [n \in Fills |->
           Sign(orders[n].side) * log[n][1].notional * MoneyScale + log[n][1].fee]
Acquired == [n \in Fills |-> Sign(orders[n].side) * log[n][1].qty]

(***************************************************************************)
(* The account and the trade records tell the same story as long as        *)
(* nothing has been settled: cash and positions are what the recorded      *)
(* fills and fees make of the starting balance.                            *)
(***************************************************************************)
AccountMatchesRecords ==
    Running =>
        /\ account.cash = StartingBalance * MoneyScale - SumFunction(Paid)
        /\ \A i \in Instruments :
              account.qty[i] =
                SumFunctionOnSet(Acquired, {n \in Fills : orders[n].instrument = i})

(***************************************************************************)
(* Under a fee schedule, the maker rate is paid by limit orders that had   *)
(* to rest, and only by them: everything else takes liquidity, a limit     *)
(* order that was marketable on arrival included.                          *)
(***************************************************************************)
MakerOnlyIfRested ==
    \A n \in Fills :
        LET schedule == FeeSchedule[orders[n].instrument]
            rested   == orders[n].type = "Limit" /\ log[n][1].via # "book"
        IN  schedule # None /\ schedule # <<>> =>
              log[n][1].fee = log[n][1].notional *
                 (IF rested THEN schedule[1].maker ELSE schedule[1].taker)

(***************************************************************************)
(* Once every engine that has seen a price is settled, each of its orders  *)
(* has its one trade record.                                               *)
(***************************************************************************)
SettlementConcludes ==
    \A i \in Instruments :
        settled[i] /\ SettlePrice(i) # None =>
            \A n \in Submitted : orders[n].instrument = i => Concluded(n)

(***************************************************************************)
(* After settlement an instrument is flat unless one of its own buffered   *)
(* market orders was filled by the settlement itself.                      *)
(***************************************************************************)
OpenAtEndWasBuffered ==
    (\A i \in Instruments : settled[i] /\ SettlePrice(i) # None) =>
        \A i \in Instruments : account.qty[i] # 0 =>
            \E n \in Fills : orders[n].instrument = i /\ log[n][1].via = "settle"

-----------------------------------------------------------------------------
(* Action properties *)

NewFills == {n \in OrderIds : log'[n] # log[n] /\ log'[n][Len(log'[n])].kind = "fill"}

(***************************************************************************)
(* A market order that is executed against levels, on arrival or by a      *)
(* quote, gets no more than the opposing side displays, and pays between   *)
(* the best and the worst displayed price.  Marketable limit orders may    *)
(* get more: try_fill_limit does not look at the displayed size.           *)
(***************************************************************************)
InsideBook(levels, r) ==
    /\ r.qty <= Depth(levels, DOMAIN levels)
    /\ r.notional >= Min(DOMAIN levels) * r.qty
    /\ r.notional <= Max(DOMAIN levels) * r.qty

MarketFillsInsideBook ==
    [][ \A n \in NewFills :
          LET o == orders'[n]
              r == log'[n][Len(log'[n])]
          IN  r.via \in {"book", "quote"} /\ o.type = "Market" =>
                  InsideBook(Opposing(book'[o.instrument], o.side), r) ]_vars

(***************************************************************************)
(* Without a fee schedule, whoever takes liquidity pays the rate in force  *)
(* when the order is filled, not the one when it was placed: that of the   *)
(* last update the data brought, else the override of the run, else the    *)
(* default.  An update counts from the event that brings it: the code does *)
(* not read its effective_ts.  A fee schedule hides all three.             *)
(***************************************************************************)
TakersPayTheLatestRate ==
    [][ \A n \in NewFills :
          LET i == orders'[n].instrument
              r == log'[n][Len(log'[n])]
              rested == orders'[n].type = "Limit" /\ r.via # "book"
              rate ==
                  CASE dynamicTaker[i] # None -> dynamicTaker[i]
                    [] dynamicTaker[i] = None /\ TakerOverride # None -> TakerOverride
                    [] OTHER -> DefaultTakerBps
          IN  FeeSchedule[i] = None /\ ~rested => r.fee = r.notional * rate ]_vars

(***************************************************************************)
(* A trade record is final: once an order has one, neither the record nor  *)
(* the order ever changes.                                                 *)
(***************************************************************************)
RecordsAreFinal ==
    [][ \A n \in OrderIds : log[n] # <<>> =>
          log'[n] = log[n] /\ orders'[n] = orders[n] ]_vars

(***************************************************************************)
(* Refinement: the engine keeps the promise of OrderLifecycle.  A market   *)
(* event may conclude many orders at once, but none twice, and an order    *)
(* that drops out of the engine without a record would fall back to "new". *)
(***************************************************************************)
OrderState(n) ==
    IF Concluded(n) THEN IF log[n][1].kind = "fill" THEN "filled" ELSE "rejected"
    ELSE IF Working(n) THEN "working" ELSE "new"

Lifecycle == INSTANCE OrderLifecycle WITH state <- [n \in OrderIds |-> OrderState(n)]

ImplementsLifecycle == Lifecycle!Spec
=============================================================================
