------------------------------ MODULE MCAccount ------------------------------
(***************************************************************************)
(* SimpleAccount with two instruments.  The fills open, extend, reduce and *)
(* reverse positions of both signs, at prices that do not divide evenly.   *)
(***************************************************************************)
EXTENDS AccountClaims

CONSTANTS a, b

MCInstruments == {a, b}

FillOf(i, side, qty, notional, fee) ==
    [instrument |-> i, side |-> side, qty |-> qty, notional |-> notional, fee |-> fee]

MCFillReports ==
    { FillOf(a, "Buy", 1, 2, 3), FillOf(a, "Buy", 2, 5, 1), FillOf(a, "Sell", 1, 3, 2),
      FillOf(a, "Sell", 4, 9, 1), FillOf(a, "Unknown", 1, 1, 5),
      FillOf(b, "Buy", 1, 1, 0), FillOf(b, "Sell", 2, 6, 2) }
=============================================================================
