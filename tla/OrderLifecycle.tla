---------------------------- MODULE OrderLifecycle ----------------------------
(***************************************************************************)
(* What an engine promises about every order it is given (OrderResult and  *)
(* TradeRecord in contracts/trade.rs), with no market, book or price:      *)
(* orders are taken one at a time; each is concluded at once or is kept    *)
(* working; a working order is concluded by a fill or a rejection; and a   *)
(* conclusion is final.  No order is ever forgotten.                       *)
(***************************************************************************)
EXTENDS Naturals

CONSTANT OrderIds   \* a set of submission numbers

VARIABLE state

Done == {"filled", "rejected"}
States == {"new", "working"} \union Done

Init == state = [n \in OrderIds |-> "new"]

(* The next order is submitted: executed, refused, or accepted to work. *)
Submit(n) ==
    /\ state[n] = "new"
    /\ \A m \in OrderIds : m < n => state[m] # "new"
    /\ \E s \in {"working"} \union Done : state' = [state EXCEPT ![n] = s]

(* One market event, or settlement, concludes any of the working orders. *)
Conclude ==
    /\ state' \in [OrderIds -> States]
    /\ \A n \in OrderIds :
          \/ state'[n] = state[n]
          \/ state[n] = "working" /\ state'[n] \in Done

Next == Conclude \/ \E n \in OrderIds : Submit(n)

Spec == Init /\ [][Next]_state
=============================================================================
