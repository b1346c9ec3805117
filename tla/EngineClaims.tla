----------------------------- MODULE EngineClaims -----------------------------
(***************************************************************************)
(* What the repository's documents and comments say of Engine A and the    *)
(* code does not do.  Each claim is refuted by a run of its own; none of   *)
(* them is a property of the model.                                        *)
(***************************************************************************)
EXTENDS OrderBookEngine

(***************************************************************************)
(* COMP-003 section 6: while trading is halted resting orders are frozen   *)
(* and nothing fills.  The code looks at the halt in submit_order only.    *)
(***************************************************************************)
NoFillsWhileHalted ==
    [][ Running' => \A n \in NewFills : ~halted'[orders'[n].instrument] ]_vars

(***************************************************************************)
(* COMP-003 section 4: an order becomes active at t + latency and matches  *)
(* only data at or after that time.  submit_order matches it at once, with *)
(* the book as it stands, and dates the fill t + latency.                  *)
(***************************************************************************)
NoExecutionBeforeActive ==
    [][ Running' => \A n \in NewFills : now' >= orders'[n].ts + Latency ]_vars

AllSettled == \A i \in Instruments : settled[i]
Flat == \A i \in Instruments : account.qty[i] = 0

(***************************************************************************)
(* COMP-003 section 1: settle force-closes open positions at the end of a  *)
(* run.  settle fills buffered market orders after it has closed.          *)
(***************************************************************************)
PricedEnginesEndFlat ==
    AllSettled /\ (\A i \in Instruments : SettlePrice(i) # None) => Flat

(***************************************************************************)
(* DATA-002 section 11: identical inputs, identical results.  The engines  *)
(* are settled in the order of a HashMap, and each closes every position   *)
(* of the account at its own price.                                        *)
(***************************************************************************)
SettlementIsDeterministic ==
    Running /\ now = MaxTime => \A i, j \in Instruments :
        SettleAccount(SettleAccount(account, i), j).cash =
            SettleAccount(SettleAccount(account, j), i).cash
=============================================================================
