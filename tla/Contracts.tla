------------------------------ MODULE Contracts ------------------------------
(***************************************************************************)
(* The vocabulary shared by every component: crates/contracts.             *)
(*                                                                         *)
(* Decimals are abstracted to integers.  Prices and quantities are         *)
(* positive; money (cash, notional, fees) is counted in 1/10000 of a       *)
(* price unit where a fee is involved, so that a fee of `bps' basis points *)
(* on a notional is the exact product notional * bps (BPS_DIVISOR).        *)
(* An Option is a value or None.                                           *)
(***************************************************************************)
EXTENDS Integers, Sequences, FiniteSets

CONSTANTS
    None,           \* Option::None
    Instruments     \* the instruments of one run

ASSUME NoneAssumption == None \notin Int

Optional(S) == S \union {None}

Sides       == {"Buy", "Sell", "Unknown"}
OrderTypes  == {"Market", "Limit", "Stop", "StopLimit"}
TimeInForce == {"Gtc", "Ioc", "Fok", "Day"}
Fidelity    == {"Bar", "L1", "L2", "L3"}

Price     == Nat \ {0}
Quantity  == Nat \ {0}
Bps       == Nat
Timestamp == Nat

(***************************************************************************)
(* An order as a strategy returns it.  max_slippage_bps is never read and  *)
(* the order's own submitted_ts is overwritten in effect by the engine's   *)
(* clock, so neither is kept.                                              *)
(***************************************************************************)
Order ==
    [ instrument : Instruments, side : Sides, type : OrderTypes,
      qty : Quantity, limit : Optional(Price), stop : Optional(Price),
      tif : TimeInForce ]

(***************************************************************************)
(* One price level list of a book: finitely many prices, each with its     *)
(* displayed size.                                                         *)
(***************************************************************************)
IsLevels(levels, Size) ==
    /\ DOMAIN levels \subseteq Price
    /\ IsFiniteSet(DOMAIN levels)
    /\ \A p \in DOMAIN levels : levels[p] \in Size

(***************************************************************************)
(* The payloads Engine A or the strategy loop reacts to.  "Other" stands   *)
(* for the informational ones, which both ignore.                          *)
(***************************************************************************)
BarPayload ==
    [ type : {"Bar", "DerivedBar"},
      open : Price, high : Price, low : Price, close : Price ]
QuotePayload ==
    [ type : {"Quote"}, bid : Price, bidSize : Nat, ask : Price, askSize : Nat ]
TradePayload == [ type : {"Trade"}, price : Price ]
DeltaPayload ==
    [ type : {"BookDelta"}, side : Sides, price : Price, size : Nat,
      action : {"Add", "Modify", "Delete", "Clear"} ]
MarkPayload    == [ type : {"MarkUpdate", "Funding"}, markPrice : Price ]
StatusPayload  ==
    [ type : {"TradingStatus"},
      status : {"Open", "Halted", "Suspended", "Closed", "PreOpen", "Auction"} ]
FeePayload     == [ type : {"FeeScheduleUpdate"}, makerBps : Bps, takerBps : Bps ]
SignalPayload  == [ type : {"OrderBookOrderEvent", "Other"} ]
ViewMarkPayload == [ type : {"Mark"}, price : Price ]
IsSnapshot(p)  ==
    /\ p.type = "BookSnapshot"
    /\ IsLevels(p.bids, Nat)
    /\ IsLevels(p.asks, Nat)
=============================================================================
