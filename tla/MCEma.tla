-------------------------------- MODULE MCEma --------------------------------
(***************************************************************************)
(* The crossover strategy on a warmup bar and six bars with any closes of  *)
(* three prices, opening elsewhere than they close.  The bars are all of   *)
(* one instrument, or the last is derived, or two or three are of another  *)
(* instrument, whose sale may overtake the purchase, or the market is      *)
(* halted when two of the bars arrive.  An order needs two bars to become  *)
(* active, so that purchase and sale may be on their way together.         *)
(***************************************************************************)
EXTENDS EmaStrategy

CONSTANTS a, b

MCInstruments == {a, b}
MCIdRank == [i \in {a, b} |-> IF i = a THEN 1 ELSE 2]
MCFeeSchedule == [i \in MCInstruments |-> None]

(* Three prices with which the averages meet as well as cross. *)
Closes == {1, 6, 7}

Bar(p) == [type |-> "Bar", open |-> 8 - p, high |-> 7, low |-> 1, close |-> p]
Derived(p) == [Bar(p) EXCEPT !.type = "DerivedBar"]
Status(s) == [type |-> "TradingStatus", status |-> s]
At(ts, i, seq, p) == [ts |-> ts, instrument |-> i, seq |-> seq, payload |-> p]

MCPayloads ==
    {Bar(p) : p \in Closes} \union {Derived(p) : p \in Closes}
        \union {Status("Halted"), Status("Open")}

Warmup == <<At(0, a, 1, Bar(7)), At(0, b, 1, Bar(6))>>
Week(closes, id) == [k \in 1..6 |-> At(k, id[k], 1, Bar(closes[k]))]
DerivedAtLast(week) == [week EXCEPT ![6].payload.type = "DerivedBar"]
Only(i) == [k \in 1..6 |-> i]
Halt == <<At(4, a, 0, Status("Halted")), At(6, a, 0, Status("Open"))>>

MCRequests ==
    { [ instruments |-> <<[id |-> a, formation |-> "Clob", caps |-> {}],
                          [id |-> b, formation |-> "Clob", caps |-> {}]>>,
        events |-> events, timeStart |-> TimeStart, timeEnd |-> MaxTime,
        warmupStart |-> WarmupStart, latency |-> Latency ] :
      events \in UNION { { Warmup \o Week(closes, Only(a)),
                           Warmup \o DerivedAtLast(Week(closes, Only(a))),
                           Warmup \o Week(closes, [Only(a) EXCEPT ![4] = b, ![6] = b]),
                           Warmup \o Week(closes, [k \in 1..6 |-> IF k < 4 THEN a ELSE b]),
                           Warmup \o Week(closes, Only(a)) \o Halt } :
                         closes \in [1..6 -> Closes] } }

MCOrderSpecs == {MarketOrder(i, side) : i \in MCInstruments, side \in {"Buy", "Sell"}}
=============================================================================
