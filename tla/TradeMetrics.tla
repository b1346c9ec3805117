----------------------------- MODULE TradeMetrics -----------------------------
(***************************************************************************)
(* The summary of a run (metrics/lib.rs): a function of its trade records, *)
(* in the order they were written, and of the final account.  Money is in  *)
(* 1/10000 of a price unit; prices and averages are fractions.             *)
(***************************************************************************)
EXTENDS AccountLedger, Sequences

(* What the summary reads of a TradeRecord; notional is price times qty. *)
TradeRecord ==
    [ instrument : Instruments, side : Sides, rejected : BOOLEAN,
      qty : Nat, notional : Nat, fee : Nat ]

(* The filters of the summary, by the places of the records they keep. *)
Accepted(trades)  == {k \in DOMAIN trades : ~trades[k].rejected}
Completed(trades) == {k \in Accepted(trades) : trades[k].qty > 0}
OfSide(trades, side) == {k \in DOMAIN trades : trades[k].side = side}

Quantities(trades) == [k \in DOMAIN trades |-> trades[k].qty]
Notionals(trades)  == [k \in DOMAIN trades |-> trades[k].notional]
Fees(trades)       == [k \in DOMAIN trades |-> trades[k].fee]

NotionalOf(trades, side) ==
    SumFunctionOnSet(Notionals(trades), Accepted(trades) \intersect OfSide(trades, side))

TotalFees(trades) == SumFunctionOnSet(Fees(trades), DOMAIN trades)

(* Fault: a fee is taken off what was sold but not off what was bought. *)
FaultTotalPnl(trades) ==
    (NotionalOf(trades, "Sell") - NotionalOf(trades, "Buy")) * MoneyScale
        - SumFunctionOnSet(Fees(trades), OfSide(trades, "Sell"))

(* Money in, less money out, less all fees. *)
TotalPnl(trades) ==
    (NotionalOf(trades, "Sell") - NotionalOf(trades, "Buy")) * MoneyScale - TotalFees(trades)

-----------------------------------------------------------------------------
(* Round trips: compute_win_rate *)

NewTripBook == [qty |-> 0, basis |-> Zero, trips |-> 0, wins |-> 0]

(* Fault: a purchase replaces the basis instead of averaging it in. *)
FaultTripBasis(book, t) == FillPrice(t)

(* What is held costs nothing if it is not held long. *)
TripBasis(book, t) ==
    LET oldCost == IF book.qty > 0 THEN Times(book.basis, book.qty) ELSE Zero
        cost    == Plus(oldCost, <<t.notional, 1>>)
    IN  Frac(cost[1], cost[2] * (book.qty + t.qty))

BuyTrip(book, t) ==
    [book EXCEPT
        !.qty   = @ + t.qty,
        !.basis = IF book.qty + t.qty > 0 THEN TripBasis(book, t) ELSE @]

(* Fault: a sale of everything held is not a round trip. *)
FaultSellTrip(book, t) ==
    LET closes == book.qty > 0 /\ t.qty < book.qty
        won    == closes /\ FillPrice(t)[1] * book.basis[2] > book.basis[1] * FillPrice(t)[2]
    IN  [book EXCEPT
            !.qty   = @ - t.qty,
            !.trips = @ + (IF closes THEN 1 ELSE 0),
            !.wins  = @ + (IF won THEN 1 ELSE 0)]

(* A sale out of a long position is a round trip, won if above the basis. *)
SellTrip(book, t) ==
    LET closes == book.qty > 0 /\ t.qty <= book.qty
        won    == closes /\ FillPrice(t)[1] * book.basis[2] > book.basis[1] * FillPrice(t)[2]
    IN  [book EXCEPT
            !.qty   = @ - t.qty,
            !.trips = @ + (IF closes THEN 1 ELSE 0),
            !.wins  = @ + (IF won THEN 1 ELSE 0)]

TakeTrade(book, t) ==
    CASE t.side = "Buy"  -> BuyTrip(book, t)
      [] t.side = "Sell" -> SellTrip(book, t)
      [] OTHER -> book

(* The completed trades of one instrument, in the order of the records. *)
TripBook(trades, i) ==
    LET book[k \in 0..Len(trades)] ==
            CASE k = 0 -> NewTripBook
              [] k > 0 /\ k \in Completed(trades) /\ trades[k].instrument = i ->
                     TakeTrade(book[k - 1], trades[k])
              [] OTHER -> book[k - 1]
    IN  book[Len(trades)]

Trips(trades) == SumFunctionOnSet([i \in Instruments |-> TripBook(trades, i).trips], Instruments)
Wins(trades)  == SumFunctionOnSet([i \in Instruments |-> TripBook(trades, i).wins], Instruments)

-----------------------------------------------------------------------------
(***************************************************************************)
(* compute_metrics.  Without a completed trade all but the equity is the   *)
(* default.  max_drawdown is always 0, and avg_slippage_bps is left out.   *)
(***************************************************************************)
Metrics(trades, acct) ==
    LET none   == Completed(trades) = {}
        traded == SumFunctionOnSet(Quantities(trades), Accepted(trades))
        paid   == SumFunctionOnSet(Notionals(trades), Accepted(trades))
    IN  [ totalTrades  |-> Cardinality(Completed(trades)),
          totalFees    |-> IF none THEN 0 ELSE TotalFees(trades),
          totalPnl     |-> IF none THEN 0 ELSE TotalPnl(trades),
          winRate      |-> IF none \/ Trips(trades) = 0 THEN Zero
                           ELSE Frac(Wins(trades), Trips(trades)),
          avgFillPrice |-> IF none \/ traded = 0 THEN Zero ELSE Frac(paid, traded),
          finalEquity  |-> Equity(acct) ]
=============================================================================
