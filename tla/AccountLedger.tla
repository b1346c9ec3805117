---------------------------- MODULE AccountLedger ----------------------------
(***************************************************************************)
(* The operations of SimpleAccount (runner/account.rs) on an account       *)
(* value.  Cash is in 1/10000 of a price unit.  Cost bases and marks are   *)
(* fractions <<numerator, denominator>>, because a walk over several       *)
(* levels reports an average price; the code's 28 digit Decimal is taken   *)
(* to be exact.                                                            *)
(***************************************************************************)
EXTENDS Contracts, FiniteSetsExt, Functions

MoneyScale == 10000

Frac(n, d) ==
    LET common == Max({k \in 1..d : n % k = 0 /\ d % k = 0})
    IN  <<n \div common, d \div common>>
Zero == <<0, 1>>
WholePrice(p) == <<p, 1>>
FillPrice(fill) == Frac(fill.notional, fill.qty)

NewAccount(startingBalance) ==
    [ cash  |-> startingBalance * MoneyScale,
      qty   |-> [i \in Instruments |-> 0],
      basis |-> [i \in Instruments |-> Zero],
      mark  |-> [i \in Instruments |-> None] ]

UpdateMark(acct, i, price) == [acct EXCEPT !.mark[i] = WholePrice(price)]

(* Fault: the last price paid becomes the basis of the whole position. *)
FaultLastBasis(basis, qty, fill) == FillPrice(fill)

(* The average cost basis of a long position of size qty after a buy. *)
AveragedBasis(basis, qty, fill) ==
    Frac(basis[1] * qty + fill.notional * basis[2], basis[2] * (qty + fill.qty))

BuyBasis(acct, i, fill) ==
    LET qty == acct.qty[i]
    IN  CASE qty + fill.qty = 0 -> Zero
          [] qty + fill.qty # 0 /\ qty <= 0 -> FillPrice(fill)
          [] qty > 0 -> AveragedBasis(acct.basis[i], qty, fill)

SellBasis(acct, i, fill) ==
    LET left == acct.qty[i] - fill.qty
    IN  CASE left < 0 -> FillPrice(fill)
          [] left = 0 -> Zero
          [] left > 0 -> acct.basis[i]

(* Fault: the fee of a sale is credited instead of charged. *)
FaultFeeWithNotional(acct, i, side, fill) ==
    LET money == fill.notional * MoneyScale
        moved ==
          CASE side = "Buy" ->
                 [acct EXCEPT !.cash = @ - (money + fill.fee),
                              !.qty[i] = @ + fill.qty,
                              !.basis[i] = BuyBasis(acct, i, fill)]
            [] side = "Sell" ->
                 [acct EXCEPT !.cash = @ + (money + fill.fee),
                              !.qty[i] = @ - fill.qty,
                              !.basis[i] = SellBasis(acct, i, fill)]
            [] OTHER -> acct
    IN  [moved EXCEPT !.mark[i] = FillPrice(fill)]

(***************************************************************************)
(* report_fill: cash, position and cost basis by side; then the fill price *)
(* becomes the mark.                                                       *)
(***************************************************************************)
ReportFill(acct, i, side, fill) ==
    LET money == fill.notional * MoneyScale
        moved ==
          CASE side = "Buy" ->
                 [acct EXCEPT !.cash = @ - (money + fill.fee),
                              !.qty[i] = @ + fill.qty,
                              !.basis[i] = BuyBasis(acct, i, fill)]
            [] side = "Sell" ->
                 [acct EXCEPT !.cash = @ + (money - fill.fee),
                              !.qty[i] = @ - fill.qty,
                              !.basis[i] = SellBasis(acct, i, fill)]
            [] OTHER -> [acct EXCEPT !.cash = @ - fill.fee]
    IN  [moved EXCEPT !.mark[i] = FillPrice(fill)]

(* force_close: a long is sold, a short bought back, at price; no fee. *)
ForceClose(acct, i, price) ==
    [acct EXCEPT !.cash = @ + price * acct.qty[i] * MoneyScale, !.qty[i] = 0]

(* Fault: short positions are left open. *)
FaultCloseLongsOnly(acct, price) ==
    [acct EXCEPT
        !.cash = @ + price * MoneyScale
             * MapThenSumSet(LAMBDA i : Max({acct.qty[i], 0}), Instruments),
        !.qty  = [i \in Instruments |-> IF acct.qty[i] > 0 THEN 0 ELSE acct.qty[i]]]

(* What Engine A does at settlement: every open position at one price. *)
ForceCloseAll(acct, price) ==
    [acct EXCEPT
        !.cash = @ + price * MoneyScale
                       * MapThenSumSet(LAMBDA i : acct.qty[i], Instruments),
        !.qty  = [i \in Instruments |-> 0]]

(* The mark a position is valued at: its cost basis until one is seen. *)
ValuationPrice(acct, i) == IF acct.mark[i] = None THEN acct.basis[i] ELSE acct.mark[i]

(* Sums of fractions, and equality of two. *)
Plus(f, g) == Frac(f[1] * g[2] + g[1] * f[2], f[2] * g[2])
Times(f, n) == Frac(f[1] * n, f[2])
Same(f, g) == f[1] * g[2] = g[1] * f[2]
SumOver(f, S) == FoldFunctionOnSet(Plus, Zero, f, S)

Positions(acct) == {i \in Instruments : acct.qty[i] # 0}

(* What each position is worth at its mark. *)
Values(acct) ==
    [i \in Instruments |-> Times(ValuationPrice(acct, i), acct.qty[i] * MoneyScale)]

(* Cash and everything held, in 1/10000. *)
Equity(acct) == Plus(<<acct.cash, 1>>, SumOver(Values(acct), Positions(acct)))

(* positions(): a position's profit if it were closed at its mark. *)
UnrealizedPnl(acct) ==
    [i \in Instruments |->
        Times(Plus(ValuationPrice(acct, i), Times(acct.basis[i], -1)),
              acct.qty[i] * MoneyScale)]
=============================================================================
