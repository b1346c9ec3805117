-------------------------------- MODULE MCRun --------------------------------
(***************************************************************************)
(* SingleRun with two instruments and one name that is not an instrument.  *)
(* A request lists four events of a pool, latest first: bars before, at    *)
(* and after time_start and after time_end, a trade, a quote and two kinds *)
(* of marks, some at the same time.  Further requests are at fault in one  *)
(* or two ways, which are refused.                                         *)
(***************************************************************************)
EXTENDS RunClaims

CONSTANTS a, b, x

MCInstruments == {a, b}
MCIdRank == [i \in {a, b, x} |-> CASE i = a -> 1 [] i = b -> 2 [] i = x -> 3]
MCFeeSchedule == [i \in MCInstruments |-> None]

Bar(p)   == [type |-> "Bar", open |-> p, high |-> p, low |-> p, close |-> p]
Trade(p) == [type |-> "Trade", price |-> p]
Quote    == [type |-> "Quote", bid |-> 1, bidSize |-> 1, ask |-> 2, askSize |-> 1]
Mark     == [type |-> "Mark", price |-> 2]
MarkUpdate == [type |-> "MarkUpdate", markPrice |-> 2]
At(ts, i, seq, p) == [ts |-> ts, instrument |-> i, seq |-> seq, payload |-> p]

MCPayloads == {Bar(1), Bar(2), Bar(3), Trade(1), Quote, Mark, MarkUpdate}

Pool == << At(3, a, 1, Bar(3)), At(2, a, 2, Trade(1)), At(2, a, 1, Bar(2)),
           At(2, b, 1, Bar(1)), At(1, x, 1, Bar(2)), At(1, a, 1, Bar(2)),
           At(1, b, 2, Quote), At(1, a, 2, MarkUpdate), At(0, a, 1, Bar(1)), At(0, b, 1, Mark) >>

Chosen(S) == SelectSeq([k \in DOMAIN Pool |-> k], LAMBDA k : k \in S)
Lists ==
    { [k \in 1..4 |-> Pool[Chosen(S)[k]]] : S \in kSubset(4, DOMAIN Pool) }

Declare(i, formation, caps) == [id |-> i, formation |-> formation, caps |-> caps]
Perp    == {"HasFunding", "HasMarkPrice", "HasLiquidation", "IsLeveraged"}
Request(instruments, events) ==
    [ instruments |-> instruments, events |-> events,
      timeStart |-> 1, timeEnd |-> 2, warmupStart |-> WarmupStart, latency |-> 1 ]

Sound    == Request(<<Declare(a, "Clob", {}), Declare(b, "Clob", Perp)>>, <<Pool[7], Pool[4]>>)
Twice    == [Sound EXCEPT !.instruments = Append(Sound.instruments, Declare(a, "Clob", {"IsUnique"}))]
Faults(r) ==
    { r,
      [r EXCEPT !.timeEnd = 1], [r EXCEPT !.timeEnd = 0], [r EXCEPT !.warmupStart = 2],
      [r EXCEPT !.warmupStart = None, !.timeEnd = 1], [r EXCEPT !.latency = -1],
      [r EXCEPT !.instruments = Append(r.instruments, Declare(a, "Amm", {}))],
      [r EXCEPT !.events = <<Pool[4]>>], [r EXCEPT !.events = <<>>],
      [r EXCEPT !.events = <<Pool[5], Pool[6]>>],
      [r EXCEPT !.events = <<Pool[1], Pool[4], At(1, a, 2, MarkUpdate)>>],
      [r EXCEPT !.events = <<Pool[4], At(1, a, 2, MarkUpdate)>>],
      [r EXCEPT !.instruments[2].caps = Perp \ {"HasMarkPrice"}],
      [r EXCEPT !.instruments[2].caps = Perp \ {"IsLeveraged"}],
      [r EXCEPT !.instruments[1].caps = {"IsUnique", "IsFungibleSKU"}] }

MCRequests ==
    {Request(Sound.instruments, events) : events \in Lists}
      \union UNION {Faults(r) : r \in Faults(Sound) \union {Twice}}

PlaceOrder(i, side, type, limit) ==
    [ instrument |-> i, side |-> side, type |-> type, qty |-> 1,
      limit |-> limit, stop |-> None, tif |-> "Gtc" ]

MCOrderSpecs == {PlaceOrder(a, "Buy", "Market", None), PlaceOrder(b, "Sell", "Market", None),
                 PlaceOrder(a, "Buy", "Limit", 1)}
MCStrayOrders == {PlaceOrder(x, "Buy", "Market", None)}
=============================================================================
