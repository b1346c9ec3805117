----------------------------- MODULE MCEngineBars -----------------------------
(***************************************************************************)
(* OrderBookEngine on bar data with trade prints and halts: one            *)
(* instrument, prices 1..4.  The bars include one that gaps over every     *)
(* order price, one that trades through the whole range and a quiet one.   *)
(***************************************************************************)
EXTENDS EngineClaims

CONSTANT a

MCInstruments == {a}
MCFeeSchedule == [i \in MCInstruments |-> None]

Bar(type, o, h, l, c) == [type |-> type, open |-> o, high |-> h, low |-> l, close |-> c]
Place(side, type, qty, limit, stop, tif) ==
    [ instrument |-> a, side |-> side, type |-> type, qty |-> qty,
      limit |-> limit, stop |-> stop, tif |-> tif ]

MCPayloads ==
    { Bar("Bar", 2, 4, 1, 3), Bar("Bar", 4, 4, 4, 4), Bar("DerivedBar", 2, 2, 2, 2),
      [type |-> "Trade", price |-> 1], [type |-> "Trade", price |-> 3],
      [type |-> "TradingStatus", status |-> "Halted"],
      [type |-> "TradingStatus", status |-> "Open"] }

MCOrderSpecs ==
    { Place("Buy", "Market", 2, None, None, "Gtc"),
      Place("Unknown", "Market", 1, None, None, "Ioc"),
      Place("Buy", "Limit", 1, 1, None, "Gtc"),
      Place("Sell", "Limit", 1, 3, None, "Day"),
      Place("Buy", "Limit", 1, 2, None, "Fok"),
      Place("Buy", "Stop", 1, None, 3, "Gtc"),
      Place("Sell", "Stop", 1, None, 2, "Ioc"),
      Place("Sell", "StopLimit", 1, 3, 2, "Gtc") }
=============================================================================
