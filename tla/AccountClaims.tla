---------------------------- MODULE AccountClaims ----------------------------
(***************************************************************************)
(* What a comment says of the summary of a run and the code does not do;   *)
(* the claim is refuted by a run of its own.                               *)
(***************************************************************************)
EXTENDS SimpleAccount

(* What everything sold or bought back has earned, less all fees. *)
Earnings == Plus(<<-TotalFees(records), 1>>, realized)

(***************************************************************************)
(* metrics/lib.rs: total_pnl is the total realized profit across trades.   *)
(* compute_metrics adds up cash flows, so that what was paid for positions *)
(* still held counts as a loss.                                            *)
(***************************************************************************)
TotalPnlIsRealized ==
    ~resized => Same(<<Metrics(records, account).totalPnl, 1>>, Earnings)
=============================================================================
