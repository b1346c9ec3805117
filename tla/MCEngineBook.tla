----------------------------- MODULE MCEngineBook -----------------------------
(***************************************************************************)
(* OrderBookEngine on book data: quotes, deltas and snapshots for one      *)
(* instrument, with a bar that triggers what rests.  Levels have different *)
(* sizes, so that a market order of 3 walks two levels or runs out of      *)
(* book, and the fee schedule has different maker and taker rates.         *)
(***************************************************************************)
EXTENDS EngineClaims

CONSTANT a

MCInstruments == {a}
MCFeeSchedule == [i \in MCInstruments |-> <<[maker |-> 1, taker |-> 7]>>]

Quote(bid, bidSize, ask, askSize) ==
    [type |-> "Quote", bid |-> bid, bidSize |-> bidSize, ask |-> ask, askSize |-> askSize]
Delta(side, price, size, action) ==
    [type |-> "BookDelta", side |-> side, price |-> price, size |-> size, action |-> action]
Place(side, type, qty, limit, stop, tif) ==
    [ instrument |-> a, side |-> side, type |-> type, qty |-> qty,
      limit |-> limit, stop |-> stop, tif |-> tif ]

MCPayloads ==
    { Quote(2, 2, 3, 1), Quote(1, 2, 2, 0),
      Delta("Sell", 4, 2, "Add"), Delta("Sell", 3, 0, "Modify"),
      Delta("Buy", 2, 1, "Delete"),
      [type |-> "BookSnapshot", bids |-> [p \in {1, 2} |-> p - 1],
                                asks |-> [p \in {3, 4} |-> 1]],
      [type |-> "Bar", open |-> 2, high |-> 3, low |-> 2, close |-> 3] }

MCOrderSpecs ==
    { Place("Buy", "Market", 3, None, None, "Fok"),
      Place("Sell", "Market", 2, None, None, "Gtc"),
      Place("Unknown", "Market", 1, None, None, "Gtc"),
      Place("Buy", "Limit", 2, 3, None, "Gtc"),
      Place("Sell", "Limit", 2, 2, None, "Ioc"),
      Place("Sell", "Limit", 1, 3, None, "Gtc") }
=============================================================================
