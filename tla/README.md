# Backtesting simulator: a TLA+ verification project

The repository is a Rust workspace that replays historical market data to
trading strategies. This directory holds a model of its core (the order book
engine and its extensions, the account it reports to, the validator and the loop
of a single run, the metrics computed from it, and the example strategy),
TLC runs over small instances of that model, and proofs, checked by TLAPS for
every value of the constants, of the properties that matter most.

    cd tla
    tlc -workers 2 -config MCEngineBars.cfg MCEngineBars.tla     # a model-checking run
    tlapm OrderBookEngine_proofs.tla                             # a proof module

`PROJECT.json` is the index: which definition models which source lines
(`map`), what each run checks (`runs`), a plausible bug for each property that
the run must catch (`mutants`), the disagreements found (`findings`), what is
hard to test in this code (`hazards`), and the proved theorems (`theorems`).

Paths below are relative to `src/crates/`; `COMP-003` and `DATA-002` are the
documents of that name in `src/docs/specs/`; `COMP-003:167` is a line of one.


## 1. The system and its parts

The code is single-threaded and deterministic by intent: no locks, no async,
no persistence. One call of `SingleRun::execute` reads a request, replays its
events, settles and returns a report. The difficulty is in the *order* of
things: of events that carry equal timestamps, of the clock against the events,
of the strategy's view against the engine's, of latency against the data, and
of the steps of settlement, where several engines share one account.

| Part | Source | State | Operations | Correct if |
|---|---|---|---|---|
| Contracts kernel | `contracts/src/{types,trade,market_event}.rs` | none | value types | – |
| Order book view | `engines/src/engine_a/book.rs` | bids, asks: price → size | `apply_delta`, `apply_snapshot`, `best_bid`, `best_ask`, `walk_asks`, `walk_bids` | a walk takes best prices first and never more than is displayed |
| Fill functions | `engines/src/engine_a/fill.rs` | none | `compute_fee`, `fill_at_price`, `fill_l1`, `fill_l2`, `try_fill_limit` | limit prices hold, maker and taker rates go to the right orders |
| Engine A | `engines/src/engine_a/mod.rs` | book, fidelity, last bar, last trade, mark, halt flag, buffered market orders, resting orders, dynamic fees, fills | `on_event` (one handler per payload), `submit_order`, `settle` | every order has one conclusion; latency, expiry, limits and stops hold |
| Extensions | `engines/src/engine_a/extensions.rs` | session, dynamic fees, funding, borrow | `dispatch_extensions` | takers pay the latest rate; what is gated reaches the state it is meant for |
| Account | `runner/src/account.rs` | cash, positions, cost bases, marks | `report_fill`, `update_mark_price`, `force_close`, `equity`, `positions`, `cash` | only fees cost money when trading at the mark |
| Single run | `runner/src/single_run.rs`, `run_request.rs` | clock, stream, gate, view, engines, account | `new`, `execute` | complete, in order, inside the run, and it ends |
| Clock, stream, gate | `core/src/{clock,event_stream,warmup}.rs` | current time; cursor; open flag | `advance`, `next`, `update` | monotone clock, canonical order |
| Market view, strategy | `strategy/src/{market_view,strategy}.rs` | last bar, quote, mark, trade per id | `update`; `on_bar` | no look-ahead |
| Validator | `runner/src/validator.rs` | none | `validate` | what is replayed is well formed; a refusal names the fault |
| Metrics | `metrics/src/lib.rs` | none | `compute_metrics`, `compute_win_rate` | profit once flat, cost bases and round trips agree with the account |
| Example strategy | `examples/src/bin/equity_daily_crossover.rs` | EMAs, position flag | `on_bar` | flag agrees with the position |
| Declarations | `contracts/src/{instrument,capability,manifest}.rs` | none | – | – |
| RNG, Money | `core/src/{rng,money}.rs` | generator state | draws | unused by the engine |
| Ports, Python | `contracts/src/ports.rs`, `pybind` | none | traits; a version string | – |
| Engines B–H, run queue, registry | documents only | – | – | – |

### How they interact

`execute` validates the request, builds one `OrderBookEngine` per instrument in
a `HashMap`, one account that is lent to whichever engine is called, and the
sorted `EventStream`. For every event up to `time_end` it: advances the clock
(an error is dropped), updates the warmup gate, updates the market view, calls
the engine of the event's instrument, and, only for a `Bar` and only with the
gate open, calls the strategy with the view and submits the orders it returns
to the engines they name. Events and orders for unknown names go nowhere. At the
end the clock is moved to `time_end` and every engine is settled.

An engine reports each fill to three places: the account, its list of fills
and the trade records; a rejection to the last only. The account sees fills,
marks and forced closes from *all* engines, and `settle` of one engine closes
the positions of all instruments.

### What is hard here

* **Event order**: equal timestamps, requests that list events in any order,
  events outside the run's times, names without engines.
* **Latency**: an order meets data only from submission + latency on, which
  every handler checks for itself; execution against the book happens at
  submission but is dated later.
* **Protocol**: orders move between two vectors through `take()` and `push()`
  in five handlers. A forgotten path loses or doubles an order.
* **Boundaries**: bars that open beyond a stop, books that run out, zero size
  levels, positions that reverse, average prices that do not divide.
* **End of the run**: buffered and resting orders, open positions, engines
  that never saw a price, engines settled in an unspecified order.
* **State kept twice**: the mark price (engine, account),
  positions and cost bases (account, win rate), the position (account, flag of
  the example strategy). Each copy is updated by rules and at times of its own.

Nothing is concurrent and nothing is persisted, so races, crashes and message
loss are no hazards of this code. The full list, with lines and the properties
that answer each item, is `hazards` in `PROJECT.json`.


## 2. The modules

    Contracts ── BookView ── FillModel ──┐
        │                                ├── OrderBookEngine ── EngineClaims ── EngineExtensions
        ├────── AccountLedger ───────────┤        │ refines     (MCEngineBars,   (MCEngineSettle)
        │             │                  │   OrderLifecycle      MCEngineBook)
        │        TradeMetrics            │
        │             └── SimpleAccount ─┼─ AccountClaims ── MCAccount
        ├── MarketView ──────────────────┼── SingleRun ── RunClaims ── MCRun
        └── EventStream                  │       └─────── EmaStrategy ── MCEma
                 └── ContractValidator ──┘

    OrderBookEngine ── OrderBookEngine_proofs ─┬─ EngineFills_proofs ── EngineAccount_proofs ── SingleRun_proofs
                                 SumTheorems ─┤                                                     │
                                              └─ SimpleAccount_proofs               SingleRun ──────┘
                                                        SingleRun_proofs ── EmaStrategy_proofs ── EmaStrategy

| Module | Models | Kind |
|---|---|---|
| `Contracts` | order, payload and number types | vocabulary |
| `BookView`, `FillModel`, `AccountLedger` | `book.rs`, `fill.rs`, `account.rs` as operators on values | pure |
| `EventStream`, `MarketView` | the sort of the events; the view's update | pure |
| `ContractValidator` | `validator.rs`: what `validate` may return for a request | pure |
| `TradeMetrics` | `metrics/src/lib.rs`: the summary of a list of trade records | pure |
| `OrderLifecycle` | what an engine promises about orders, with no market at all | abstract specification |
| `OrderBookEngine` | Engine A: all handlers, submission, settlement, for any number of engines on one account | state machine |
| `EngineExtensions` | `extensions.rs`: the gated state in front of the engine's handlers | state machine, composes `OrderBookEngine` |
| `SimpleAccount` | the account under any sequence of calls, and the records and metrics of them | state machine |
| `SingleRun` | validation, and the event loop around the engines, for any strategy | state machine, composes engine, view, stream and validator |
| `EmaStrategy` | the strategy of the example inside a run | state machine, composes `SingleRun` |
| `EngineClaims`, `RunClaims`, `AccountClaims` | statements of docs and comments that the code refutes | claims |
| `MC...` | instances for TLC | configuration |
| `SumTheorems` | nothing of the code: lemmas about sums and extrema over finite sets | proofs |
| `..._proofs` | theorems | proofs |

Operators whose name starts with `Fault` are deliberate bugs. No specification
uses them; `mutants` names, for each property, the definition whose body one
of them replaces to show that the property is able to fail.

### Correspondence with the code

`OrderBookEngine` keeps one variable per field of the struct, each a function
of the instrument: `book`, `fidelity`, `lastBar`, `lastTrade`, `markPrice`,
`halted`, `dynamicTaker`, `pending` (buffered market orders) and `resting`.
`now` is the clock, `account` the injected account. The vectors of orders are
sets of submission numbers: the code appends to and filters its vectors in
order, so the order of a vector is always that of the numbers, and
`ReportFills` goes through a set in that order. `orders[n]` holds order `n`
with its `submitted_ts`; `log[n]` the trade records of that order, with the
handler that wrote each (`via`), which the code tells by fidelity and reject
reason.

| Action or operator | Code |
|---|---|
| `HandleBar` | `handle_bar` and `check_resting_on_bar`: buffered orders at the open, resting orders reached, expiry, mark |
| `HandleQuote` | `handle_quote` and the L1 fill of buffered orders |
| `HandleTrade` | `handle_trade` and `check_resting_on_trade` |
| `HandleBook`, `HandleMark`, `HandleStatus`, `HandleFees`, `HandleSignal` | the other arms of `on_event` |
| `SubmitOrder` | `submit_order`, with `ImmediateFill` for the execution against the book |
| `SettleEngine` | `settle` |
| `Dispatch`, `OnData` | `dispatch_extensions`, and `on_event` with it |
| `New`, `Execute` | `SingleRun::new`, and `execute` up to its loop |
| `TakeEvent`, `ProcessEvent`, `SkipEvent` | one turn of the loop of `execute` |
| `SubmitNext`, `DropNext` | the loop over the orders of a strategy call |
| `EndEvents`, `SettleNext`, `Finish` | the clock's move to `time_end`, one engine settled, the return |
| `OnBar` | `on_bar` of the example strategy; its three disjuncts are the golden cross, the death cross and neither |
| `Report`, `Refuse`, `Mark`, `Close` | `report_fill`, a refused order, `update_mark_price`, `force_close` |
| `Metrics`, `TripBook` | `compute_metrics`, the loop of `compute_win_rate` for one instrument |
| `Verdicts` | `validate`: a set, because the id named may be any one that a `HashSet` yields first |

A handler is one action because it is one call on one thread: nothing runs
between its statements. A strategy's batch is submitted one order per action,
so that properties see the state between two submissions.

`OrderBookEngine!Spec` puts the handlers into an environment that respects the
`Engine` trait: the clock is at an event's time when the engine sees it. That
is what the proofs are about. `SingleRun` does not use that environment: it
calls the same handlers from the real loop, and `ImplementsEngine` checks, and
`LoopImplementsEngine` proves, that the loop is such an environment.

### Abstractions

* Decimals are integers; money is counted in 1/10000 of a price unit so that a
  fee of *b* basis points is the exact product notional × *b*. Cost bases and
  marks are exact fractions. The code's `Decimal` has 28 digits; rounding at
  the 28th is not modelled.
* Prices and order quantities are positive, marks and trades included. Bars
  are taken as they come: no handler checks `low <= open <= high`, and neither
  do the proofs. Displayed sizes may be zero.
* Slippage, order type labels, reasons' wording, ids and volumes are left out:
  nothing reads them back. A reject reason is kept as `via`.
* `Instruments` are the instruments that have an engine, which are those with
  price formation `Clob`; any other name in the data has none.
* An order type outside the four the engine supports is refused by a branch
  that the enumeration makes unreachable; it is not modelled.
* `effective_ts` of a fee update is ignored by the code and so by the model.
* Of the funding extension the rate is kept; its own copies of mark and index
  price and the due time are left out: nothing reads them.
* An error of the validator is its kind and, where it has one, the id it names;
  of an instrument the validator sees the id, the price formation and the six
  capabilities it tests. A request that is let through has the times, the latency
  and the ids that are the constants of the run; one that is refused may have any.
* The example's averages are exact fractions, 2 / (period + 1) of the price and
  the rest of the average so far; the code rounds them at the 28th digit.
* `avg_slippage_bps` goes with the slippage; `max_drawdown` is the constant 0.
* Timestamps are naturals without width: `submitted_ts + latency_ns` overflows
  `i64` only for a latency of centuries.


## 3. The model-checking runs

| Run | Instance | Shows |
|---|---|---|
| `MCEngineBars` | 1 instrument, 2 orders of 8 kinds, 3 bars, 2 trade prices, halts; times 0..2, latency 1 | data fills no order before it is active; limits and stops; orders to be executed at once do not outlive a bar; account = records; implements `OrderLifecycle` |
| `MCEngineBook` | 1 instrument, 2 orders of 6 kinds, quotes, deltas, a snapshot with an empty level, a bar; times 0..1, latency 1; maker 1, taker 7 bps | market orders stay inside the book, on arrival and by quotes (marketable limit orders may get more); maker and taker; latency of the fills by quotes and bars; records are final |
| `MCEngineSettle` | 2 engines on one account, with extensions; trades, mark and funding updates, fee updates, sessions, borrow rates; a run override; times 0..1 | conservation and conclusion through settlement, in either order; takers pay the rate in force when filled |
| `MCRun` | 2 instruments and one unknown name; requests with every choice of 4 of 10 events, listed latest first; requests with one or two of 14 changes, most of them faults; batches up to 2 orders; run 1..2, warmup from 0 | what is replayed is well formed, a refusal names the fault; canonical, complete replay; no look-ahead; settlement at the last price; the loop refines `OrderBookEngine`; liveness |
| `MCEma` | the example strategy with periods 2 and 3; a warmup bar and six bars with every choice of 3 closes (with which averages meet as well as cross), of one instrument, of one with a derived bar, of two in two orders, or with a halt; latency 2 | flag, averages, orders and account agree; execution at the next open |
| `MCAccount` | 2 instruments, 4 calls out of fills, refusals, marks and forced closes | bookkeeping identities; the metrics against the account |

The runs `Claim...` use these modules too; the table of disagreements below says
what each refutes.

Why these bounds are enough: handlers treat each instrument and each order by
itself, except through the account and the book. Two orders are what it takes
for one to be executed while another waits, for two in a batch to be reported
in sequence, and for one to be opened and another closed. Time 0..2 with
latency 1 has a moment before, at and after an order becomes active; where 0..1
is used the event times are before and at activation, and settlement follows.
Each event may occur any number of times: events are not bounded, states are.
Two instruments make settlement order and shared account visible, and a third
name the unknown one. The ten events of `MCRun` cover both sides of both ends
of the run, ties in timestamp within and across instruments, and equal
timestamp and instrument with different sequence numbers. Prices 1..4 give a
gap over, a touch of, and a miss of every order price. Two faults at a time are
what it takes to see which check comes first. Six bars with a slow period of 3
leave room for a purchase, a sale and a second purchase, and a latency of two
bars for two of them on their way at once, or refused in the halt, or for the
sale of one instrument to overtake the purchase of another. Four account calls open, average, reverse and close a position.

The constants that bound the model and nothing in the code: `MaxOrders`
(orders per run), `MaxBatch` (orders per strategy call) and `MaxCalls` (account
calls). `MaxTime` is the run's `time_end`.

`CHECK_DEADLOCK FALSE` is in every cfg because the system does stop: a run
returns when its engines are settled, and the account waits for calls.

**Fairness.** Only `MCRun` checks liveness, under `WF_simVars(RunNext)`: the
loop is a plain `while` on one thread without waiting, so it takes its next
step as long as it has one. No fairness is assumed of single actions: which
step comes next is determined, but for the strategy's answer and the order in
which the `HashMap` yields the engines, and neither is owed any fairness.

### Where documents and code disagree

Each of these is a run in which TLC finds the statement violated; quotes and
lines are under `findings`.

| Run | Statement | What the code does |
|---|---|---|
| `ClaimHalt` | resting orders are frozen during a halt (COMP-003:167) | the halt is consulted by `submit_order` only; bars and trades fill buffered and resting orders |
| `ClaimBookLatency` | an order matches only data at or after submission + latency (COMP-003:110) | an order that meets a book is executed at submission, with the book of that moment; only the fill is dated later |
| `ClaimFlat` | settlement closes open positions (COMP-003:35) | buffered market orders fill after the closing, and stay open |
| `ClaimDeterminism` | identical inputs, identical results (DATA-002:669) | final cash depends on the order of a `HashMap` |
| `ClaimWarmup` | events before `time_start` are warmup | without `warmup_start` the strategy trades on them |
| `ClaimPnl` | `total_pnl` is realized profit (`metrics/src/lib.rs:15`) | it is a cash flow: a position still open counts as a loss of its price, and one closed by force as a loss of its whole cost |

Further differences, seen while modelling and without a run of their own. The
last column says how the properties of the passing runs keep clear of them.

| Statement | What the code does | Properties |
|---|---|---|
| a triggered stop-limit becomes a limit (COMP-003:107) | on a bar it fills at the worse of stop and open, beyond its limit | `StopNeverImproved` is about stop orders without a limit, `LimitPriceRespected` about limit orders |
| a triggered stop becomes a market order (COMP-003:106) | a trade that prints past the stop fills it at the stop | `StopNeverImproved` compares with the stop, not the market |
| Day orders live to the session's close (`trade.rs:24`, COMP-003:166) | the first bar that does not reach one cancels it; a comment (`engine_a/mod.rs:275`) calls this simplified | `ImmediateOrdersEndAtABar`: market, Ioc and Fok orders only |
| no order matches data dated at its submission (COMP-003:209) | without latency it does; COMP-003:110 allows it | `DataFillsRespectLatency` asks for what COMP-003:110 says |
| an order matches only data after submission + latency (COMP-003:110) | settlement fills buffered orders that are not active yet | `DataFillsRespectLatency`: bars, quotes and trades |
| fills are up to the displayed size (COMP-003:83) | a marketable limit order is filled whole at the touch | `MarketFillsInsideBook`: market orders |
| Fok fills fully or cancels (COMP-003:113); a remainder is handled per time in force (`trade.rs:118`); on quotes it gets a slippage heuristic (COMP-003:124) | a market order fills what is displayed, the rest is dropped | an order is concluded by its one record |
| a quote is the best bid and offer (DATA-004:91) | levels of earlier quotes stay in the synthetic book and may be better | "displayed" means: in the engine's book |
| fee update > run override > schedule (`engine_a/mod.rs:105`) | a schedule hides both | `TakersPayTheLatestRate`: without a schedule |
| a fee update overrides from its `effective_ts` (COMP-003:183) | it does from its event on, and its maker rate is read by nothing | updates are data in force when they come; takers only |
| funding is paid when due, borrowing is charged (COMP-003:169, :177) | rates are kept, and nothing charges them | – |
| orders are gated to allowed sessions (COMP-003:166) | every session counts as regular hours, and no order is gated by one | – |
| unrealized profit and stops go by the mark (COMP-003:170, :140) | trades and bars overwrite the account's mark, a `Funding` event does not reach it; stops go by trades and bars | – |
| trades, quotes, book snapshots or bars are required (DATA-002:642) | marks alone pass, and the instrument is never priced | `RunsAreWellFormed` does not say which data suffices; `EveryOrderConcluded` is about priced engines |
| funding without a funding stream, and shorting without borrow rates, are errors (DATA-002:654, COMP-003:178) | nobody looks for the one, and the check for the other has an empty body | the same |
| the warmup warms up indicators (`run_request.rs:33`, DATA-002:68) | no bar of it reaches the strategy, whose averages start with the run | `AveragesAreOfTheRun` leaves open how far back the bars go |
| the win rate is the fraction of profitable trades (`metrics/src/lib.rs:21`) | short trades are none | `WinRateIsHonest`: instruments never short nor force-closed |
| the account keeps an average cost basis (`account.rs:92`) | a short that is extended or partly covered gets the last price as its basis | `BooksBalance` and `PnlIsRealizedOnceFlat` leave resized shorts out; equity is right all the same (`TradesAreFair`) |

No document says what is to be made of these: a mark
outranks every later trade at settlement; an engine that saw only quotes has no
settlement price, so its orders end without a record; orders for unknown names
vanish.

Of the validator: data outside the run counts as data; of two declarations with
one id the later is used; events of undeclared names pass. Of the metrics: a
purchase through a short position is charged with the price of the whole
purchase. Of the strategy: a run without a warmup takes the bars dated before it
into the averages; `warmup_bars_required` is never consulted; one
pair of averages serves all instruments; its flag counts a refused order as
executed, after which it sells what was never bought (`AccountFollowsFlag`).
With two instruments on one pair of averages the sale may be of the other one,
and be executed first; only for runs in which one instrument is traded does
`AccountFollowsFlag` say that the account holds nothing or one lot.


## 4. The proofs

The theorems hold for every set of instruments, every number of orders, every
latency, clock start, fee table, set of payloads and set of orders, every list
of requests and every strategy that satisfy the assumptions of the modules:

* `EngineAssumption`, `RunAssumption`, `AccountAssumption`, `EmaAssumption`: the
  constants have their types. A book snapshot lists finitely many levels, and
  an account has finitely many instruments. Nothing is assumed about prices
  crossing, books or bars.
* `NoneAssumption` and its like: `None` is no number, refusal or payload, and
  no pair of integers, as fractions are (`AccountAssumption`, `EmaAssumption`).
* `IdRankAssumption`: ids are ordered. `ExtensionAssumption`: the engine's sets
  of payloads and of fee-updated instruments follow from the capabilities.

| Theorem | Statement | Module |
|---|---|---|
| `TypeCorrect` | `Spec => []TypeOK` | `OrderBookEngine_proofs` |
| `OrdersConserved` | `Spec => []OrderConservation` | `OrderBookEngine_proofs` |
| `LatencyRespected` | `Spec => []DataFillsRespectLatency` | `OrderBookEngine_proofs` |
| `LifecycleImplemented` | `Spec => ImplementsLifecycle` (refinement) | `OrderBookEngine_proofs` |
| `RecordsFinal` | `Spec => RecordsAreFinal` (action property) | `OrderBookEngine_proofs` |
| `SettlementIsConclusive` | `Spec => []SettlementConcludes` | `OrderBookEngine_proofs` |
| `BarsLeaveNothingImmediate` | `Spec => []ImmediateOrdersEndAtABar` | `OrderBookEngine_proofs` |
| `LimitsRespected` | `Spec => []LimitPriceRespected` | `EngineFills_proofs` |
| `StopsPessimistic` | `Spec => []StopNeverImproved` | `EngineFills_proofs` |
| `MakersRested` | `Spec => []MakerOnlyIfRested` | `EngineFills_proofs` |
| `LatestRatePaid` | `Spec => TakersPayTheLatestRate` (action property) | `EngineFills_proofs` |
| `FillsInsideBook` | `Spec => MarketFillsInsideBook` (action property) | `EngineFills_proofs` |
| `AccountMatches` | `Spec => []AccountMatchesRecords` | `EngineAccount_proofs` |
| `OpenWasBuffered` | `Spec => []OpenAtEndWasBuffered` | `EngineAccount_proofs` |
| `StreamIsAStableSort` | `SortedStream(events)` is the stable sort of `events` | `SingleRun_proofs` |
| `LoopInvariant` | `RunSpec => [](Inv /\ LoopInv)` | `SingleRun_proofs` |
| `RunTypeCorrect` | `RunSpec => []RunTypeOK` | `SingleRun_proofs` |
| `ReplayedRunsAreWellFormed` | `RunSpec => []RunsAreWellFormed` | `SingleRun_proofs` |
| `ErrorsNameTheFault` | `RunSpec => []RefusalNamesTheFault` | `SingleRun_proofs` |
| `TheReplayIsComplete` | `RunSpec => []NothingInTheRunIsSkipped` | `SingleRun_proofs` |
| `TheReplayIsCanonical` | `RunSpec => []ReplayIsCanonical` | `SingleRun_proofs` |
| `LoopImplementsEngine` | `EventsFromStart => (RunSpec => ImplementsEngine)` (refinement) | `SingleRun_proofs` |
| `TheViewIsNotAhead` | `RunSpec => []ViewNotAheadOfEngine` | `SingleRun_proofs` |
| `LastPriceSettles` | `RunSpec => []SettlesAtLastPrice` | `SingleRun_proofs` |
| `DatesAreInsideTheRun` | `RunSpec => []RecordsInsideRun` | `SingleRun_proofs` |
| `EngineGuarantees` | `RunSpec => []` of nine of the engine's invariants | `SingleRun_proofs` |
| `RunImplementsLifecycle` | `RunSpec => ImplementsLifecycle /\ RecordsAreFinal /\ MarketFillsInsideBook` | `SingleRun_proofs` |
| `DoneLeavesNothingOpen` | `RunSpec => []`(once done, every order is concluded or `Unpriced`) | `SingleRun_proofs` |
| `EveryStepIsCloserToTheEnd` | `RunSpec => [][Closer]_simVars`, of a measure in the naturals | `SingleRun_proofs` |
| `TheBooksBalance` | `Spec => []BooksBalance` | `SimpleAccount_proofs` |
| `CallsAreFair` | `Spec => TradesAreFair` (action property) | `SimpleAccount_proofs` |
| `FlatPnlIsRealized` | `Spec => []PnlIsRealizedOnceFlat` | `SimpleAccount_proofs` |
| `TripBooksAreTheAccounts` | `Spec => []TripsKnowTheBasis` | `SimpleAccount_proofs` |
| `WinsTellTheProfit` | `Spec => []WinRateIsHonest` | `SimpleAccount_proofs` |
| `EmaIsARun` | `EmaSpec => RunSpec` (refinement) | `EmaStrategy_proofs` |
| `NeverLongBelow` | `EmaSpec => []LongOnlyAbove` | `EmaStrategy_proofs` |
| `ExecutedInTime` | `EventsFromStart => (EmaSpec => []ExecutedAtTheNextOpen)` | `EmaStrategy_proofs` |
| `TheAccountFollows` | `NoBookData => (EmaSpec => []AccountFollowsFlag)` | `EmaStrategy_proofs` |
| `TheAveragesAreOfTheRun` | `EmaSpec => []AveragesAreOfTheRun` | `EmaStrategy_proofs` |

### Engine A

**Conservation.** `Inv == TypeOK /\ OrderConservation` is inductive; neither
conjunct is alone. An appended record is well typed only if the log was empty
before, and that is what conservation says of an order the engine still holds.
The steps that end orders (bar, quote, trade, settlement) are shown to have one
form, `Retires(i, B, R, ts)`: engine `i` drops buffered orders `B` and resting
orders `R`, and exactly these get one record each. One lemma shows that this
form keeps the invariant, so each handler needs only a proof that it has it.
Submission has the dual form: one new number appears in one of three places.

**Latency.** `DataFillsRespectLatency` compares a record's stamp with the decision
time stored with the order, so the invariant adds `TimeInv`: submitted orders
are stored with a time that is not in the future.

**Refinement.** Each order's state is computed from `log`, `pending` and
`resting`. With `Inv`, a retiring step is a `Conclude` of the abstract
specification, a submission is a `Submit`, and everything else a stutter. An
order dropped without a record would fall back to "new", which no abstract step
allows.

**Settlement.** `SettledEmpty` (a settled engine that has a price holds nothing)
is kept because only settlement happens once an engine is settled, and
settlement of another engine touches neither its orders nor its prices. With
conservation, empty means concluded.

**Bars.** `BarInv` adds that the last bar is not in the future. A bar leaves
behind only orders that were not active, and orders that arrive later are not
older than it.

**Terms of a fill.** `FairFill` says of a fill, its order and the handler what
limits, stops and the fee schedule promise. Each of the ways to a fill is shown
to give fair fills, and `FairInv`, that every recorded fill is fair, follows
from the same `Retires` form. For an execution against the book, a purchase
takes from each level the smaller of what it shows and what is still wanted
after the better levels; induction over the levels bounds the quantity by what
is displayed and the price by the best and the worst of them.

**Rates.** `TakersPayTheLatestRate` needs no invariant of its own: with `Inv`,
each way to a fill is shown to charge what `EffectiveTaker` yields before the
step (`UpToDate`), and no step that fills also changes the rates.

**Account and records.** `ReportFills` reports one fill after the other. By
induction over the submission numbers, what it does to cash and positions is
`Moved`: a sum over the orders filled. `MatchInv` adds to `AccountMatchesRecords`
that cash and positions have their types; a step adds to the account what its
new records add to the sums over all of them. `OpenInv` follows settlement: what
is open once an engine is settled comes from fills of buffered orders.

### The run

**The sort.** `SortedStream` puts each event at the place that the number of
events ahead of it gives. The order by key and position is total, so the counts
of two events differ and lie between 1 and the length: the places are a
bijection, along which `Ahead` grows. `TheReplayIsCanonical` follows, because
without equal keys the count depends on the events alone and not on their
positions.

**The validator.** `Clean` says of a declaration that it passes, and the two
chains of checks are followed to their first failure: what `validate` accepts
has none (`AcceptedRequest`). `LoopInv` carries that from `New` to the replay,
and since the stream is a permutation of the request's events, data that an
instrument has in the request is in the stream.

**The loop.** `LoopInv` says that the request was let through, that the stream
is its sort, that the clock is not ahead of what is to come and that a batch is
submitted inside the run only. With it every step of the loop is a step of the
engine's environment, or a stutter (`LoopImplementsEngine`), if the data starts
no earlier than the clock does. Where it does not, the clock refuses to go back
and an engine is shown an event older than `now`. `DataStep` is what such a
step still is. The invariants of the engine are shown to survive it
(`EngineGuarantees`), and its action properties and the refinement of
`OrderLifecycle` to hold of it (`RunImplementsLifecycle`), so all that the
engine promises is kept in every run, whatever the dates of its data.

**The end.** `EveryStepIsCloserToTheEnd` gives the measure by which a run ends:
the parts of the run ahead, the events left, the orders of the batch left, the
engines left to settle, in lexicographic order. They are naturals (`LeftIsNatural`;
engines are finitely many once the request, which lists them, was let through),
and every step but a stutter takes away from one and adds at most to those after
it. `DoneLeavesNothingOpen` says what that end is like: `AllSettled` is kept
because `Finish` alone leads to "done", and `SettledEmpty` says what settled
engines hold. These are the safety parts of `Terminates` and
`EveryOrderConcluded`; what they leave to TLC is that the loop can always go on.

**View, price, dates.** `ViewInv` compares the view's bars with the engines'.
`PriceInv` says what mark and last prices are in terms of the events so far.
`RecordsInv` dates orders and records: an order is decided on a bar that the
gate let through, a record is written at an event or at the end of the run.

### Account and metrics

Cost bases, marks and profits are reduced fractions, and equality of two is
equality of cross products. All reasoning is done over a common denominator:
`Serves(D, f)` says that fraction `f` is a number `Val(f, D)` of `D`-ths, and
every finite family of fractions has such a `D` (`CommonDenominator`). Over it
`Plus` and `Times` are those of integers, `Same` is equality, and a fold of
`Plus` is a sum.

**Fairness.** Over a common denominator both sides are integers: a fill exchanges
cash for a position at its own price, with which the account then values it.

**Books.** `CostInv`: unless a short was resized, cash plus positions at cost is
the starting balance less fees plus what was realized. Averaging leaves the cost
of a position plus that of the purchase; a sale takes out its share at the
basis and realizes the difference. Equity less cost is the unrealized profit
(`UnrealizedVal`). `CostInv` is inductive without the marks, `BooksBalance`,
which values at the marks, is not.

**Profit.** `CashInv` relates cash, `TotalPnl(records)` and the proceeds of forced
closes. A record that is appended adds its notional on its side and its fee to
the three sums. The short cut of `compute_metrics` for no completed trade gives
the same 0 (`NothingCompleted`). When nothing is held, positions at cost are
worth 0, and `CashInv` and `CostInv` together say that the sum of the cash flows
is what was realized less the fees (`FlatPnlIsRealized`).

**Trips.** The recursion over the records is a function, and appending a record
takes one step of it (`TripsGrow`). `BooksInv` adds to `TripsKnowTheBasis` that
a book counts no more wins than trips, and that what is one-sided is not short.
A fill of an instrument that is not short is a trip exactly if it closes
something, and won exactly if that was at a profit (`TripIsProfit`); so with
`WinInv` the sign of what was realized follows the counts.

### Sums

`SumTheorems` is what the folds of the community modules rest on. `CHOOSE` of a
recursive function is useless without a proof that there is one, which the
lemmas construct by adding one element at a time. Induction is stated with sets
instead of operators (`SubsetsByAddition`: a set of subsets that holds the empty
one and is closed under adding an element holds all of them), a form that
the provers can instantiate.

### The example strategy

**The flag.** `LongInv` adds to `LongOnlyAbove` that whoever is long has seen
`SlowPeriod` bars. Without it a bar that is not judged, because it is too early,
could take the averages back below each other and leave the flag set.

**The next open.** A run of the strategy is a run (`EmaIsARun`: its batches are
among those `SingleRun` allows), so the invariants of engine and loop hold in
it. `LotInv` adds what is particular to this strategy: every order is one lot at
the market, was decided on a bar of its own instrument that has been read, and
is dated like it; and no buffered order has seen a bar that could have executed
it, since a bar takes all active orders with it. `NextOpenInv` draws the
conclusion for each fill when the bar makes it: the bar is the first that could,
its open is the price (a market order has no other), and it is later than the
bar of the decision. The theorem needs `EventsFromStart`: of data older than the
clock a decision is dated later than its bar, and the dates no longer tell which
bars came before.

**The account and the flag.** Two invariants meet here. `FlagInv` is about what
was ordered: purchases and sales of one lot take turns, so the first `m` orders
come to nothing or to one lot for every `m`, and all of them, with what `on_bar`
still returns, to what the flag claims. `FlowInv` is about what is executed: an
order is filled with its whole quantity, and of one instrument not before the
earlier ones, since they became active earlier and a bar takes every active
order. The account's invariant gives each position as a sum of trade records;
`SumByInstrument` adds the positions up, so holdings are the orders executed,
and what was ordered splits into executed, waiting and refused. If nothing is
refused and one instrument is traded, the orders executed are the first `m`.
The theorem assumes `NoBookData`, the data the example generates: a book may
fill a market order in part and drop the rest, of which the flag is not told.
Dates need no assumption here.

**The averages.** `AveragesAreOfTheRun` states each average in closed form: of
`n` bars with period `p`, the `k`-th close weighs `2(p+1)^(k-2)(p-1)^(n-k)`, the
first `(p-1)^(n-1)`, over `(p+1)^(n-1)`. `Power` is a recursive function, so it is
first shown to have a solution (`PowersExist`, by induction over how far it is
defined), hence the equations it is used by (`PowerIs`). A further bar reduces
the weight of every earlier one by `p-1` (`WeightReduced`) and with them the sum
(`WeightedSumNext`). `AvgInv` adds to the property that the averages are `None`
before the first bar and fractions afterwards, without which reducing them
(`FracIs`) and cancelling a denominator (`Cancelled`) would be no equivalences.
Which bars count is a matter of the loop: `GateIs` shows from the clock's
invariant that the gate is open for exactly the events dated inside the run, or
for all when the clock starts with the run. The bars it lets through are
therefore an unbroken stretch up to the present one (`BarsInRunAreAStretch`),
which is what the property asks for; from which bar on is where documents and
code disagree. The theorem assumes nothing of the data.

### Only model-checked

Liveness: `Terminates` and `EveryOrderConcluded`. Temporal reasoning under
fairness and `ENABLED` is outside what the prover handles; of both properties the
parts about single steps and states are proved (`EveryStepIsCloserToTheEnd`,
`DoneLeavesNothingOpen`). Every other property of a passing run is a theorem.


## 5. Not modelled, and why

* **Extensions without a caller**: `apply_funding`, `accrue_borrow` and
  `CorporateActionState`; no step of the program reaches them.
* **The example's data generator and report**: floating-point arithmetic on
  random numbers, and printing. `SingleRun` takes any data.
* **Declarations**: the fields of an instrument, and the capabilities and
  payloads, that no code of Engine A or the runner reads.
* **RNG, Money**: drawn from and used by nothing in a run. **Ports, Python**:
  declarations. **Engines B–H, queue, registry**: documents without code.

With these, every operation of the source that changes state in a run is an
action of some module.


## 6. Plan

Done: `Contracts` → `BookView`, `FillModel`, `AccountLedger` → `OrderBookEngine`
with `OrderLifecycle` → `EventStream`, `MarketView` → `SingleRun` →
`SimpleAccount` → `TradeMetrics`, `ContractValidator`, `EngineExtensions`,
`EmaStrategy`; proofs of every safety property that a passing run checks of
the engine, the run, the account and the strategy, of the
refinements, and of the measure by which a run ends.

Left: funding and borrow charges in `EngineExtensions`, if a caller appears.
