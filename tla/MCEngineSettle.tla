---------------------------- MODULE MCEngineSettle ----------------------------
(***************************************************************************)
(* Two engines and their common account, up to and through settlement:     *)
(* trades, marks, funding, fee updates and per-order events, and an        *)
(* instrument that may reach the end of the run without showing a price.   *)
(***************************************************************************)
EXTENDS EngineExtensions

CONSTANTS a, b

MCInstruments == {a, b}
MCFeeSchedule == [i \in MCInstruments |-> IF i = a THEN None ELSE <<>>]
MCDynamicFees == {a}
MCCaps == [i \in MCInstruments |->
             IF i = a THEN {"HasFeeScheduleUpdates"} ELSE {"HasFunding", "HasMarkPrice", "HasSessions", "HasShortBorrow"}]

Place(i, side, type, limit, tif) ==
    [ instrument |-> i, side |-> side, type |-> type, qty |-> 1,
      limit |-> limit, stop |-> None, tif |-> tif ]

MCDataPayloads ==
    { [type |-> "Trade", price |-> 2],
      [type |-> "MarkUpdate", markPrice |-> 3],
      [type |-> "Funding", markPrice |-> 1, rate |-> 1],
      [type |-> "FeeScheduleUpdate", makerBps |-> 1, takerBps |-> 9],
      [type |-> "OrderBookOrderEvent"],
      [type |-> "TradingSession", session |-> "AfterHours", multiplier |-> 2],
      [type |-> "BorrowRate", rate |-> 1, hard |-> TRUE] }
MCPayloads == {EngineView(p) : p \in MCDataPayloads}

MCOrderSpecs ==
    { Place(a, "Buy", "Market", None, "Gtc"), Place(b, "Sell", "Market", None, "Gtc"),
      Place(b, "Buy", "Limit", 2, "Gtc"), Place(a, "Sell", "Limit", 2, "Gtc") }
=============================================================================
