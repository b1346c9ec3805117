------------------------------ MODULE FillModel ------------------------------
(***************************************************************************)
(* The pure fill functions of Engine A (engine_a/fill.rs).                 *)
(*                                                                         *)
(* A fill carries its quantity and its notional; its price is              *)
(* notional / qty, which for a walk over several levels is the volume      *)
(* weighted average price.  The notional is in price units and the fee in  *)
(* 1/10000 of one.  Slippage is a report column that nothing reads back,   *)
(* so it is left out.                                                      *)
(***************************************************************************)
EXTENDS BookView

DefaultTakerBps == 5
DefaultMakerBps == 0

(***************************************************************************)
(* compute_fee: the instrument's own schedule, when it has one, hides the  *)
(* override.  Only the first tier is used; an empty schedule falls back to *)
(* the defaults.                                                           *)
(***************************************************************************)
FeeBps(isMaker, schedule, takerOverride) ==
    LET tier ==
        IF schedule # None /\ schedule # <<>> THEN Head(schedule)
        ELSE [ maker |-> DefaultMakerBps,
               taker |-> IF schedule = None /\ takerOverride # None
                         THEN takerOverride ELSE DefaultTakerBps ]
    IN  IF isMaker THEN tier.maker ELSE tier.taker

MakeFill(qty, notional, bps, partial) ==
    [ qty |-> qty, notional |-> notional, fee |-> notional * bps,
      partial |-> partial ]

(***************************************************************************)
(* A fill of the whole order at one price: fill_at_price, and the inline   *)
(* fills of resting orders.  A limit order pays the maker rate.            *)
(***************************************************************************)
FillAtPrice(order, price, schedule, takerOverride) ==
    MakeFill(order.qty, order.qty * price,
             FeeBps(order.type = "Limit", schedule, takerOverride), FALSE)

(* Fault: the displayed size is ignored. *)
FaultL1WholeOrder(order, book, schedule, takerOverride) ==
    LET touch == Touch(book, order.side)
    IN  IF touch = None THEN None
        ELSE MakeFill(order.qty, order.qty * touch,
                      FeeBps(FALSE, schedule, takerOverride), FALSE)

(* Fill at the touch up to its displayed size; the rest is not filled. *)
FillL1(order, book, schedule, takerOverride) ==
    LET touch == Touch(book, order.side)
        qty   == Min({order.qty, Opposing(book, order.side)[touch]})
    IN  IF touch = None THEN None
        ELSE MakeFill(qty, qty * touch, FeeBps(FALSE, schedule, takerOverride),
                      qty < order.qty)

(* Walk the opposing levels; what the book cannot give is not filled. *)
FillL2(order, book, schedule, takerOverride) ==
    LET taken    == Walk(book, order.side, order.qty)
        qty      == Depth(taken, DOMAIN taken)
        notional == SumFunction([p \in DOMAIN taken |-> p * taken[p]])
    IN  IF order.side = "Unknown" \/ DOMAIN taken = {} THEN None
        ELSE MakeFill(qty, notional, FeeBps(FALSE, schedule, takerOverride),
                      qty < order.qty)

(* Fault: the comparison of the buy side is used for both sides. *)
FaultMarketableAsBuy(order, touch) ==
    order.limit # None /\ touch # None /\ touch <= order.limit

(* A marketable limit order takes the touch for its whole quantity. *)
Marketable(order, touch) ==
    /\ order.limit # None
    /\ touch # None
    /\ IF order.side = "Buy" THEN touch <= order.limit ELSE touch >= order.limit

(* Fault: every limit order is taken for a maker. *)
FaultLimitAlwaysMaker(order, book, schedule, takerOverride) ==
    LET touch == Touch(book, order.side)
    IN  IF Marketable(order, touch)
        THEN FillAtPrice(order, touch, schedule, takerOverride)
        ELSE None

TryFillLimit(order, book, schedule, takerOverride) ==
    LET touch == Touch(book, order.side)
    IN  IF Marketable(order, touch)
        THEN MakeFill(order.qty, order.qty * touch,
                      FeeBps(FALSE, schedule, takerOverride), FALSE)
        ELSE None
=============================================================================
