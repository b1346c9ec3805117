------------------------------ MODULE BookView ------------------------------
(***************************************************************************)
(* The order book view of Engine A (engine_a/book.rs): a value with two    *)
(* sides, each a function from price to displayed size, and the operations *)
(* that update and read it.                                                *)
(***************************************************************************)
EXTENDS Contracts, FiniteSetsExt, Functions

EmptyBook == [bids |-> <<>>, asks |-> <<>>]

(* No level of a book is ever displayed with size zero. *)
IsBook(book) ==
    /\ DOMAIN book = {"bids", "asks"}
    /\ IsLevels(book.bids, Quantity) /\ IsLevels(book.asks, Quantity)

IsEmptyBook(book) == DOMAIN book.bids = {} /\ DOMAIN book.asks = {}

RemoveLevel(levels, price) == Restrict(levels, DOMAIN levels \ {price})

(* An update to size zero (or below) removes the level. *)
SetLevel(levels, price, size) ==
    IF size <= 0
    THEN RemoveLevel(levels, price)
    ELSE [p \in DOMAIN levels \union {price} |->
             IF p = price THEN size ELSE levels[p]]

ChangeLevels(levels, price, size, action) ==
    CASE action \in {"Add", "Modify"} -> SetLevel(levels, price, size)
      [] action = "Delete"            -> RemoveLevel(levels, price)
      [] action = "Clear"             -> <<>>

ApplyDelta(book, side, price, size, action) ==
    CASE side = "Buy"  -> [book EXCEPT !.bids = ChangeLevels(@, price, size, action)]
      [] side = "Sell" -> [book EXCEPT !.asks = ChangeLevels(@, price, size, action)]
      [] OTHER         -> book

NonZero(levels) == Restrict(levels, {p \in DOMAIN levels : levels[p] > 0})

ApplySnapshot(bids, asks) == [bids |-> NonZero(bids), asks |-> NonZero(asks)]

BestBid(book) == IF DOMAIN book.bids = {} THEN None ELSE Max(DOMAIN book.bids)
BestAsk(book) == IF DOMAIN book.asks = {} THEN None ELSE Min(DOMAIN book.asks)

(***************************************************************************)
(* The side an order of the given side trades against, its touch, and the  *)
(* prices the walk visits before p.                                        *)
(***************************************************************************)
Opposing(book, side) == IF side = "Buy" THEN book.asks ELSE book.bids
Touch(book, side) ==
    CASE side = "Buy"  -> BestAsk(book)
      [] side = "Sell" -> BestBid(book)
      [] OTHER         -> None
Better(side, p, q) == IF side = "Buy" THEN p < q ELSE p > q

Depth(levels, prices) == SumFunctionOnSet(levels, prices)

(* Fault: every level is offered the whole order. *)
FaultWalkWithoutRemainder(book, side, qty) ==
    LET levels == Opposing(book, side)
    IN  [p \in DOMAIN levels |-> Min({qty, levels[p]})]

(***************************************************************************)
(* walk_asks and walk_bids: best price first, each level gives what is     *)
(* still wanted up to its size, until nothing is wanted.  The loop in      *)
(* closed form: level p gives what the levels before it left over.         *)
(***************************************************************************)
Walk(book, side, qty) ==
    LET levels  == Opposing(book, side)
        Before(p) == {q \in DOMAIN levels : Better(side, q, p)}
        wanted(p) == qty - Depth(levels, Before(p))
        visited == {p \in DOMAIN levels : wanted(p) > 0}
    IN  [p \in visited |-> Min({wanted(p), levels[p]})]
=============================================================================
