------------------------------ MODULE MarketView ------------------------------
(***************************************************************************)
(* The market view a strategy reads (strategy/market_view.rs): per id the  *)
(* last bar, quote, mark and trade observed, and the time of the last      *)
(* event.  A bar is kept by its close; sizes and volumes are left out.     *)
(***************************************************************************)
EXTENDS EventStream

NewView(ts) ==
    [ ts     |-> ts,
      bars   |-> [x \in Names |-> None],
      quotes |-> [x \in Names |-> None],
      marks  |-> [x \in Names |-> None],
      trades |-> [x \in Names |-> None] ]

(* update: a derived bar and a funding event leave the view as it is. *)
UpdateView(view, x, ts, p) ==
    LET seen == [view EXCEPT !.ts = ts]
    IN  CASE p.type = "Bar" ->
               [seen EXCEPT !.bars[x]  = [close |-> p.close, ts |-> ts],
                            !.marks[x] = p.close]
          [] p.type = "Quote" ->
               [seen EXCEPT !.quotes[x] = [bid |-> p.bid, ask |-> p.ask, ts |-> ts]]
          [] p.type = "Trade" ->
               [seen EXCEPT !.trades[x] = [price |-> p.price, ts |-> ts],
                            !.marks[x]  = p.price]
          [] p.type = "Mark"       -> [seen EXCEPT !.marks[x] = p.price]
          [] p.type = "MarkUpdate" -> [seen EXCEPT !.marks[x] = p.markPrice]
          [] OTHER -> seen
=============================================================================
