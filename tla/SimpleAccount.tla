---------------------------- MODULE SimpleAccount ----------------------------
(***************************************************************************)
(* The reference account (runner/account.rs) under any sequence of the     *)
(* calls the Account port allows, and the trade records that an engine     *)
(* writes along with them, from which the run's summary is computed.       *)
(* Beside the two the module keeps what a bookkeeper would: the profits    *)
(* realized and the proceeds of forced closes.                             *)
(***************************************************************************)
EXTENDS TradeMetrics

CONSTANTS
    StartingBalance,    \* new(starting_balance)
    FillReports,        \* the fills that may be reported
    Marks,              \* the prices that may be observed
    MaxCalls            \* bound: mutating calls

Fill == [instrument : Instruments, side : Sides, qty : Quantity, notional : Nat, fee : Nat]

ASSUME AccountAssumption ==
    /\ StartingBalance \in Nat
    /\ IsFiniteSet(Instruments)
    /\ None \notin Int \X Int
    /\ FillReports \subseteq Fill
    /\ Marks \subseteq Price
    /\ MaxCalls \in Nat

VARIABLES
    account,
    records,    \* the run's trade records
    calls,      \* calls made so far
    realized,   \* history: profit of everything sold or bought back
    proceeds,   \* history: the money forced closes brought in
    resized,    \* history: was a short position ever extended or cut?
    oneSided    \* history: the instruments never short and never force-closed

vars == <<account, records, calls, realized, proceeds, resized, oneSided>>

Init ==
    /\ account = NewAccount(StartingBalance)
    /\ records = <<>>
    /\ calls = 0
    /\ realized = Zero
    /\ proceeds = 0
    /\ resized = FALSE
    /\ oneSided = Instruments

(* What a fill closes of the opposite position, and the profit on it. *)
ClosedQty(i, side, qty) ==
    CASE side = "Sell" -> Max({0, Min({account.qty[i], qty})})
      [] side = "Buy"  -> Min({0, Max({account.qty[i], -qty})})
      [] OTHER         -> 0

Profit(i, closed, price) ==
    Times(Plus(price, Times(account.basis[i], -1)), closed * MoneyScale)

ResizesShort(i, side, qty) ==
    /\ account.qty[i] < 0
    /\ side = "Sell" \/ (side = "Buy" /\ qty < -account.qty[i])

RecordOf(f, rejected) ==
    [ instrument |-> f.instrument, side |-> f.side, rejected |-> rejected,
      qty      |-> IF rejected THEN 0 ELSE f.qty,
      notional |-> IF rejected THEN 0 ELSE f.notional,
      fee      |-> IF rejected THEN 0 ELSE f.fee ]

(* report_fill, and the record of the fill. *)
Report(f) ==
    LET i == f.instrument
    IN  /\ account' = ReportFill(account, i, f.side, f)
        /\ records' = Append(records, RecordOf(f, FALSE))
        /\ realized' = Plus(realized, Profit(i, ClosedQty(i, f.side, f.qty), FillPrice(f)))
        /\ resized' = (resized \/ ResizesShort(i, f.side, f.qty))
        /\ oneSided' = {j \in oneSided : account'.qty[j] >= 0}
        /\ UNCHANGED proceeds

(* An order that is refused or expires leaves a record and nothing else. *)
Refuse(f) ==
    /\ records' = Append(records, RecordOf(f, TRUE))
    /\ UNCHANGED <<account, realized, proceeds, resized, oneSided>>

(* update_mark_price *)
Mark(i, price) ==
    /\ account' = UpdateMark(account, i, price)
    /\ UNCHANGED <<records, realized, proceeds, resized, oneSided>>

(* force_close, of which no record is written. *)
Close(i, price) ==
    /\ account' = ForceClose(account, i, price)
    /\ realized' = Plus(realized, Profit(i, account.qty[i], WholePrice(price)))
    /\ proceeds' = proceeds + price * account.qty[i] * MoneyScale
    /\ oneSided' = IF account.qty[i] = 0 THEN oneSided ELSE oneSided \ {i}
    /\ UNCHANGED <<records, resized>>

Next ==
    /\ calls < MaxCalls
    /\ calls' = calls + 1
    /\ \/ \E f \in FillReports : Report(f)
       \/ \E f \in FillReports : Refuse(f)
       \/ \E i \in Instruments, price \in Marks : Mark(i, price)
       \/ \E i \in Instruments, price \in Marks : Close(i, price)

Spec == Init /\ [][Next]_vars

-----------------------------------------------------------------------------
(* Properties *)

(***************************************************************************)
(* The account's books balance: what it is worth is the starting balance,  *)
(* less fees, plus what was realized, plus what positions() reports as     *)
(* unrealized.  Long positions, reversals and plain shorts all obey; only  *)
(* a short that was extended or partly covered has its basis overwritten.  *)
(***************************************************************************)
BooksBalance ==
    ~resized =>
        Same(Equity(account),
             Plus(<<StartingBalance * MoneyScale - TotalFees(records), 1>>,
                  Plus(realized, SumOver(UnrealizedPnl(account), Positions(account)))))

(***************************************************************************)
(* No call makes or loses money but by fees: a fill or a forced close at   *)
(* some price leaves the account worth what it was worth when valued at    *)
(* that price, less the fee, whatever was held before.                     *)
(***************************************************************************)
ValuedAt(acct, i, price) == Equity([acct EXCEPT !.mark[i] = price])

TradesAreFair ==
    [][ /\ \A f \in FillReports : Report(f) =>
              Same(Plus(Equity(account'), <<f.fee, 1>>),
                   ValuedAt(account, f.instrument, FillPrice(f)))
        /\ \A i \in Instruments, price \in Marks : Close(i, price) =>
              Same(Equity(account'), ValuedAt(account, i, WholePrice(price))) ]_vars

(***************************************************************************)
(* The summary derives the profit from the records alone, the account      *)
(* derives it from cost bases.  When everything was sold or bought back    *)
(* the two agree, less the fees, however the positions were built up, as   *)
(* long as no short was resized and forced closes brought nothing in, of   *)
(* which there is no record.  Otherwise they differ (AccountClaims).  *)
(***************************************************************************)
PnlIsRealizedOnceFlat ==
    Positions(account) = {} /\ ~resized /\ proceeds = 0 =>
        Same(<<Metrics(records, account).totalPnl, 1>>,
             Plus(<<-TotalFees(records), 1>>, realized))

(***************************************************************************)
(* compute_win_rate keeps positions and cost bases of its own.  Of an      *)
(* instrument that was never short nor force-closed, they are those of     *)
(* the account, however it was bought and sold.                            *)
(***************************************************************************)
TripsKnowTheBasis ==
    \A i \in oneSided :
        LET book == TripBook(records, i)
        IN  /\ book.qty = account.qty[i]
            /\ book.qty > 0 => Same(book.basis, account.basis[i])

(***************************************************************************)
(* The win rate is honest where nothing was ever short or force-closed:    *)
(* with no winning trip nothing was gained on the positions, and if every  *)
(* trip won, something was.                                                *)
(***************************************************************************)
WinRateIsHonest ==
    oneSided = Instruments =>
        LET rate == Metrics(records, account).winRate
        IN  /\ rate = Zero => realized[1] <= 0
            /\ Same(rate, <<1, 1>>) => realized[1] > 0
=============================================================================
