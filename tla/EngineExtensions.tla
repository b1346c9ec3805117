-------------------------- MODULE EngineExtensions --------------------------
(***************************************************************************)
(* The capability-gated extensions of Engine A (engine_a/extensions.rs):   *)
(* every event is first offered to them, before the engine itself handles  *)
(* it.  Of the fee state the engine reads the taker rate, which is the     *)
(* dynamicTaker of OrderBookEngine; the rest of what the extensions keep   *)
(* is read by nothing, and apply_funding and accrue_borrow have no caller. *)
(***************************************************************************)
EXTENDS EngineClaims

CONSTANTS
    Caps,           \* per instrument, its capabilities among the gating ones
    DataPayloads    \* the payloads of the data, with what extensions read

GatingCaps ==
    {"HasSessions", "HasFunding", "HasMarkPrice", "HasBorrowRate",
     "HasShortBorrow", "HasFeeScheduleUpdates"}

(***************************************************************************)
(* What the engine itself reads of a payload: neither funding and borrow   *)
(* rates nor trading sessions.                                             *)
(***************************************************************************)
EngineView(p) ==
    CASE p.type \in {"TradingSession", "BorrowRate"} -> [type |-> "Other"]
      [] p.type = "Funding" -> [type |-> "Funding", markPrice |-> p.markPrice]
      [] OTHER -> p

ASSUME ExtensionAssumption ==
    /\ Caps \in [Instruments -> SUBSET GatingCaps]
    /\ DynamicFees = {i \in Instruments : "HasFeeScheduleUpdates" \in Caps[i]}
    /\ Payloads = {EngineView(p) : p \in DataPayloads}

VARIABLES
    session,    \* type and multiplier of the last TradingSession; regular hours?
    funding,    \* last funding rate
    borrow,     \* last borrow rate
    dynamicMaker

extVars == <<session, funding, borrow, dynamicMaker>>
allVars == <<vars, extVars>>

ExtInit ==
    /\ Init
    /\ session = [i \in Instruments |-> [type |-> None, multiplier |-> 1, regular |-> FALSE]]
    /\ funding = [i \in Instruments |-> None]
    /\ borrow = [i \in Instruments |-> [rate |-> 0, hard |-> FALSE]]
    /\ dynamicMaker = [i \in Instruments |-> None]

Gated(i, caps) == Caps[i] \cap caps # {}

(* Every session counts as regular hours. *)
UpdateSession(i, p) ==
    session' = [session EXCEPT ![i] =
        IF Gated(i, {"HasSessions"}) /\ p.type = "TradingSession"
        THEN [type |-> p.session, multiplier |-> p.multiplier, regular |-> TRUE] ELSE @]

(* The copies of prices and the due time, which nothing reads either, are  *)
(* left out, and with them what a MarkUpdate does here.                    *)
UpdateFunding(i, p) ==
    funding' = [funding EXCEPT ![i] =
        IF Gated(i, {"HasFunding", "HasMarkPrice"}) /\ p.type = "Funding"
        THEN p.rate ELSE @]

UpdateBorrow(i, p) ==
    borrow' = [borrow EXCEPT ![i] =
        IF Gated(i, {"HasBorrowRate", "HasShortBorrow"}) /\ p.type = "BorrowRate"
        THEN [rate |-> p.rate, hard |-> p.hard] ELSE @]

UpdateFees(i, p) ==
    dynamicMaker' = [dynamicMaker EXCEPT ![i] =
        IF Gated(i, {"HasFeeScheduleUpdates"}) /\ p.type = "FeeScheduleUpdate"
        THEN p.makerBps ELSE @]

(* dispatch_extensions *)
Dispatch(i, p) ==
    /\ UpdateSession(i, p)
    /\ UpdateFunding(i, p)
    /\ UpdateBorrow(i, p)
    /\ UpdateFees(i, p)

OnData(i, ts, p) ==
    /\ OnEvent(i, ts, EngineView(p))
    /\ Dispatch(i, p)

ExtNext ==
    \/ \E i \in Instruments, ts \in now..MaxTime, p \in DataPayloads : OnData(i, ts, p)
    \/ \E order \in OrderSpecs : OnSubmit(order) /\ UNCHANGED extVars
    \/ \E ts \in (now + 1)..MaxTime : OnClock(ts) /\ UNCHANGED extVars
    \/ \E i \in Instruments : OnSettle(i) /\ UNCHANGED extVars

ExtSpec == ExtInit /\ [][ExtNext]_allVars
=============================================================================
