----------------------------- MODULE EmaStrategy -----------------------------
(***************************************************************************)
(* The crossover strategy of the example program in the place of the       *)
(* arbitrary strategy of SingleRun (equity_daily_crossover.rs): it buys    *)
(* when its fast average crosses above the slow one and sells when it      *)
(* falls back, and remembers in a flag of its own whether it is long.      *)
(* Averages are fractions.                                                 *)
(***************************************************************************)
EXTENDS SingleRun

CONSTANTS FastPeriod, SlowPeriod, Units

(* What the strategy may order is among the orders of the run. *)
MarketOrder(i, side) ==
    [ instrument |-> i, side |-> side, type |-> "Market", qty |-> Units,
      limit |-> None, stop |-> None, tif |-> "Day" ]

ASSUME EmaAssumption ==
    /\ FastPeriod \in Nat \ {0}
    /\ SlowPeriod \in Nat \ {0}
    /\ Units \in Quantity
    /\ None \notin Int \X Int
    /\ \A i \in Instruments : {MarketOrder(i, "Buy"), MarketOrder(i, "Sell")} \subseteq OrderSpecs

VARIABLES
    barsSeen,
    fastEma, slowEma,   \* None until a bar was seen
    isLong

emaVars == <<barsSeen, fastEma, slowEma, isLong>>
emaRunVars == <<simVars, emaVars>>

EmaInit ==
    /\ RunInit
    /\ barsSeen = 0
    /\ fastEma = None
    /\ slowEma = None
    /\ isLong = FALSE

(* Fault: the weight of a price is 2 / period. *)
FaultUpdateEma(prev, price, period) ==
    IF prev = None THEN WholePrice(price)
    ELSE Frac(2 * price * prev[2] + (period - 2) * prev[1], period * prev[2])

(* The price weighs 2 / (period + 1), the average so far the rest. *)
UpdateEma(prev, price, period) ==
    IF prev = None THEN WholePrice(price)
    ELSE Frac(2 * price * prev[2] + (period - 1) * prev[1], (period + 1) * prev[2])

(* Fault: equal averages count as a cross. *)
FaultAbove(fast, slow) == fast[1] * slow[2] >= slow[1] * fast[2]

Above(fast, slow) == fast[1] * slow[2] > slow[1] * fast[2]

(* Nothing is decided on the first bar, nor before SlowPeriod bars. *)
Ready == barsSeen > 0 /\ barsSeen + 1 >= SlowPeriod

GoldenCross ==
    Ready /\ ~Above(fastEma, slowEma) /\ Above(fastEma', slowEma') /\ ~isLong

(* Fault: what is not held is sold as well. *)
FaultDeathCross ==
    Ready /\ Above(fastEma, slowEma) /\ ~Above(fastEma', slowEma')

DeathCross ==
    Ready /\ Above(fastEma, slowEma) /\ ~Above(fastEma', slowEma') /\ isLong

(***************************************************************************)
(* on_bar: the averages take the bar in whichever instrument it is of; the *)
(* order goes to the instrument of the bar.                                *)
(***************************************************************************)
OnBar(i, close) ==
    /\ barsSeen' = barsSeen + 1
    /\ fastEma' = UpdateEma(fastEma, close, FastPeriod)
    /\ slowEma' = UpdateEma(slowEma, close, SlowPeriod)
    /\ \/ GoldenCross /\ isLong' = TRUE /\ queue' = <<MarketOrder(i, "Buy")>>
       \/ DeathCross /\ isLong' = FALSE /\ queue' = <<MarketOrder(i, "Sell")>>
       \/ ~GoldenCross /\ ~DeathCross /\ isLong' = isLong /\ queue' = <<>>

EmaProcessEvent ==
    LET ev == stream[pos]
    IN  /\ ProcessEvent
        /\ IF gateOpen' /\ ev.payload.type = "Bar"
           THEN OnBar(ev.instrument, ev.payload.close)
           ELSE UNCHANGED emaVars

(* The steps of the run that do not call the strategy. *)
OtherStep ==
    \/ New
    \/ Execute
    \/ SkipEvent
    \/ SubmitNext
    \/ EndEvents
    \/ \E i \in Instruments : SettleNext(i)
    \/ Finish

EmaNext ==
    \/ EmaProcessEvent
    \/ OtherStep /\ UNCHANGED emaVars

EmaSpec == EmaInit /\ [][EmaNext]_emaRunVars

-----------------------------------------------------------------------------
(* Properties *)

(***************************************************************************)
(* The strategy is long only while its fast average is above the slow one: *)
(* no path through the early returns of on_bar leaves the flag set after   *)
(* the averages have crossed back or met.                                  *)
(***************************************************************************)
LongOnlyAbove == isLong => fastEma[1] * slowEma[2] > slowEma[1] * fastEma[2]

(***************************************************************************)
(* The flag is set when an order is returned and never looks back.  Until  *)
(* settlement it is ahead of the account by exactly what is on its way and *)
(* what was refused during a halt.  If nothing was refused and all orders  *)
(* are of one instrument, the account holds nothing or one lot, never two  *)
(* and never a short, although a sale may be returned before the purchase  *)
(* it belongs to has been executed.                                        *)
(***************************************************************************)
Signed(o) == Sign(o.side) * o.qty
Refused   == {n \in Submitted : Concluded(n) /\ log[n][1].kind = "reject"}
SumOrders(S) == SumFunctionOnSet([n \in S |-> Signed(orders[n])], S)
Returned  == SumFunction([k \in DOMAIN queue |-> Signed(queue[k])])
Holdings  == SumFunctionOnSet(account.qty, Instruments)

OneTraded ==
    \A m, n \in Submitted : orders[m].instrument = orders[n].instrument

AccountFollowsFlag ==
    phase = "events" =>
        /\ Holdings + Returned + SumOrders({n \in Submitted : Working(n)}) + SumOrders(Refused)
              = (IF isLong THEN Units ELSE 0)
        /\ Refused = {} /\ OneTraded => Holdings \in {0, Units}

(***************************************************************************)
(* The averages are those of an unbroken stretch of the replay, the bars   *)
(* of all instruments together, up to the last bar replayed: each is the   *)
(* weighted sum of their closes that its definition unrolls to.  No bar of *)
(* the run is left out.  Which bar is the first to count is left open: the *)
(* documents say one of the warmup, the gate lets in one of the run.       *)
(***************************************************************************)
BarsFrom(first) ==
    {k \in first..(pos - 1) :
        stream[k].instrument \in Instruments /\ stream[k].payload.type = "Bar"}

Power(b, n) == LET power[k \in Nat] == IF k = 0 THEN 1 ELSE b * power[k - 1] IN power[n]

(* What a bar weighs: its own part, reduced by every bar that came later. *)
Weight(bars, k, period) ==
    LET earlier == Cardinality({j \in bars : j < k})
        later   == Cardinality({j \in bars : j > k})
    IN  Power(period - 1, later)
          * (IF earlier = 0 THEN 1 ELSE 2 * Power(period + 1, earlier - 1))

WeightedSum(bars, period) ==
    SumFunctionOnSet([k \in bars |-> Weight(bars, k, period) * stream[k].payload.close], bars)

Average(bars, period) ==
    <<WeightedSum(bars, period), Power(period + 1, Cardinality(bars) - 1)>>

AveragesAreOfTheRun ==
    \E first \in 1..pos :
        LET bars == BarsFrom(first)
        IN  /\ \A k \in BarsFrom(1) : stream[k].ts >= TimeStart => k \in bars
            /\ barsSeen = Cardinality(bars)
            /\ barsSeen > 0 => /\ Same(fastEma, Average(bars, FastPeriod))
                               /\ Same(slowEma, Average(bars, SlowPeriod))

(***************************************************************************)
(* A market order is executed at the open of the first bar that comes when *)
(* the order is active, and never by the bar it was decided on, for data   *)
(* with at most one bar of an instrument at a time, derived bars included. *)
(***************************************************************************)
BarsOf(i) ==
    {k \in DOMAIN stream :
        stream[k].instrument = i /\ stream[k].payload.type \in {"Bar", "DerivedBar"}}

OneBarAtATime ==
    \A i \in Instruments : \A j, k \in BarsOf(i) : stream[j].ts = stream[k].ts => j = k

ExecutedAtTheNextOpen ==
    OneBarAtATime =>
        \A n \in Fills : log[n][1].via = "bar" =>
            LET o     == orders[n]
                bars  == {k \in BarsOf(o.instrument) :
                            stream[k].ts > o.ts /\ stream[k].ts >= ActiveTs(n)}
            IN  /\ bars # {}
                /\ log[n][1].ts = stream[Min(bars)].ts
                /\ log[n][1].notional = Units * stream[Min(bars)].payload.open
=============================================================================
