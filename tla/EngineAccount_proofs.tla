------------------------- MODULE EngineAccount_proofs -------------------------
(***************************************************************************)
(* Machine-checked proofs, for every value of the constants, that the      *)
(* account tells the same story as the trade records while a run lasts,    *)
(* and that a position left open by the settlement is one the settlement   *)
(* itself made.                                                            *)
(*                                                                         *)
(* ReportFills is a recursion over the submission numbers.  What it does   *)
(* to cash and positions is shown by induction over these numbers to be a  *)
(* sum over the orders that were filled, which is what the records of a    *)
(* step add to the sums over all records.                                  *)
(***************************************************************************)
EXTENDS EngineFills_proofs

-----------------------------------------------------------------------------
(* One fill *)

HasCash(a) == "cash" \in DOMAIN a /\ a.cash \in Int
HasPositions(a) == "qty" \in DOMAIN a /\ a.qty \in [Instruments -> Int]

(* What a fill takes from the cash and adds to the position. *)
Cost(side, fill) == Sign(side) * fill.notional * MoneyScale + fill.fee
Gain(side, fill) == Sign(side) * fill.qty

IsFill(fill) == fill.qty \in Int /\ fill.notional \in Int /\ fill.fee \in Int

(* What a fill costs and gains are integers, so they can be summed. *)
LEMMA FillNumbers ==
    ASSUME NEW side, NEW fill, IsFill(fill)
    PROVE  Cost(side, fill) \in Int /\ Gain(side, fill) \in Int
<1>1. Sign(side) \in Int /\ MoneyScale \in Int
  BY DEF Sign, MoneyScale
<1> QED BY <1>1 DEF Cost, Gain, IsFill

(* report_fill changes the cash by the cost, one position by the gain. *)
LEMMA OneFill ==
    ASSUME NEW a, HasPositions(a), NEW i \in Instruments, NEW side, NEW fill, IsFill(fill)
    PROVE  LET b == ReportFill(a, i, side, fill)
           IN  /\ HasPositions(b)
               /\ b.qty = [a.qty EXCEPT ![i] = @ + Gain(side, fill)]
               /\ HasCash(a) => HasCash(b) /\ b.cash = a.cash - Cost(side, fill)
<1> DEFINE b == ReportFill(a, i, side, fill)
           money == fill.notional * MoneyScale
           bought == [a EXCEPT !.cash = @ - (money + fill.fee),
                               !.qty[i] = @ + fill.qty,
                               !.basis[i] = BuyBasis(a, i, fill)]
           sold == [a EXCEPT !.cash = @ + (money - fill.fee),
                             !.qty[i] = @ - fill.qty,
                             !.basis[i] = SellBasis(a, i, fill)]
           neither == [a EXCEPT !.cash = @ - fill.fee]
           moved == CASE side = "Buy" -> bought
                      [] side = "Sell" -> sold
                      [] OTHER -> neither
<1>1. b = [moved EXCEPT !.mark[i] = FillPrice(fill)]
  BY DEF ReportFill
<1>2. money \in Int /\ fill.qty \in Int /\ fill.fee \in Int /\ fill.notional \in Int
  BY DEF IsFill, MoneyScale
<1>3. a.qty \in [Instruments -> Int] /\ "qty" \in DOMAIN a
  BY DEF HasPositions
<1>4. DOMAIN b = DOMAIN moved /\ b.qty = moved.qty /\ b.cash = moved.cash
  BY <1>1
<1>5. CASE side = "Buy"
  <2>1. moved = bought
    BY <1>5
  <2>2. /\ DOMAIN bought = DOMAIN a
        /\ bought.qty = [a.qty EXCEPT ![i] = @ + fill.qty]
        /\ "cash" \in DOMAIN a => bought.cash = a.cash - (money + fill.fee)
    BY <1>3
  <2>3. Gain(side, fill) = fill.qty /\ Cost(side, fill) = money + fill.fee
    BY <1>2, <1>5 DEF Gain, Cost, Sign, MoneyScale
  <2> HIDE DEF b, moved, bought, money
  <2> QED BY <1>2, <1>3, <1>4, <2>1, <2>2, <2>3 DEF HasCash, HasPositions, b
<1>6. CASE side = "Sell"
  <2>1. moved = sold
    BY <1>6
  <2>2. /\ DOMAIN sold = DOMAIN a
        /\ sold.qty = [a.qty EXCEPT ![i] = @ - fill.qty]
        /\ "cash" \in DOMAIN a => sold.cash = a.cash + (money - fill.fee)
    BY <1>3
  <2>3. Gain(side, fill) = - fill.qty /\ Cost(side, fill) = fill.fee - money
    BY <1>2, <1>6 DEF Gain, Cost, Sign, MoneyScale
  <2> HIDE DEF b, moved, sold, money
  <2> QED BY <1>2, <1>3, <1>4, <2>1, <2>2, <2>3 DEF HasCash, HasPositions, b
<1>7. CASE side \notin {"Buy", "Sell"}
  <2>1. moved = neither
    BY <1>7
  <2>2. /\ DOMAIN neither = DOMAIN a
        /\ neither.qty = a.qty
        /\ "cash" \in DOMAIN a => neither.cash = a.cash - fill.fee
    BY <1>3
  <2>3. Gain(side, fill) = 0 /\ Cost(side, fill) = fill.fee
    BY <1>2, <1>7 DEF Gain, Cost, Sign, MoneyScale
  <2> HIDE DEF b, moved, neither, money
  <2> QED BY <1>2, <1>3, <1>4, <2>1, <2>2, <2>3 DEF HasCash, HasPositions, b
<1> QED BY <1>5, <1>6, <1>7

-----------------------------------------------------------------------------
(* A batch of fills *)

CostOf(os, fills) == [n \in DOMAIN fills |-> Cost(os[n].side, fills[n])]
GainOf(os, fills) == [n \in DOMAIN fills |-> Gain(os[n].side, fills[n])]
OfInstrument(os, S, i) == {n \in S : os[n].instrument = i}

(* From account a to account b the fills of the orders in S were reported. *)
PositionsMoved(os, a, b, S, fills) ==
    /\ HasPositions(b)
    /\ \A j \in Instruments :
          b.qty[j] = a.qty[j] + SumFunctionOnSet(GainOf(os, fills), OfInstrument(os, S, j))
CashMoved(os, a, b, S, fills) ==
    /\ HasCash(b)
    /\ b.cash = a.cash - SumFunctionOnSet(CostOf(os, fills), S)

Moved(os, a, b, S, fills) ==
    /\ PositionsMoved(os, a, b, S, fills)
    /\ HasCash(a) => CashMoved(os, a, b, S, fills)

(* The fills in S have numbers, and their orders an instrument. *)
Reportable(os, S, fills) ==
    /\ S \subseteq OrderIds /\ S \subseteq DOMAIN fills
    /\ \A n \in S : IsFill(fills[n]) /\ os[n].instrument \in Instruments

(* There are finitely many orders, so every sum over some of them is one. *)
LEMMA OrderIdsFinite == IsFiniteSet(OrderIds) /\ \A S \in SUBSET OrderIds : IsFiniteSet(S)
<1>1. IsFiniteSet(OrderIds)
  BY EngineAssumption, FS_Interval DEF OrderIds
<1> QED BY <1>1, FS_Subset

(* The same of every fill in a batch. *)
LEMMA ReportableNumbers ==
    ASSUME NEW os, NEW fills, NEW S, Reportable(os, S, fills)
    PROVE  \A n \in S : CostOf(os, fills)[n] \in Int /\ GainOf(os, fills)[n] \in Int
BY FillNumbers DEF Reportable, CostOf, GainOf

(* Reporting nothing moves nothing. *)
LEMMA NothingMoved ==
    ASSUME NEW os, NEW a, HasPositions(a), NEW fills
    PROVE  Moved(os, a, a, {}, fills)
<1>1. \A j \in Instruments : OfInstrument(os, {}, j) = {}
  BY DEF OfInstrument
<1>2. \A f : SumFunctionOnSet(f, {}) = 0
  BY SumEmpty
<1>3. \A j \in Instruments : a.qty[j] = a.qty[j] + 0
  BY DEF HasPositions
<1>4. PositionsMoved(os, a, a, {}, fills)
  BY <1>1, <1>2, <1>3, Zenon DEF PositionsMoved
<1>5. HasCash(a) => a.cash = a.cash - 0
  BY DEF HasCash
<1> QED BY <1>2, <1>4, <1>5, Zenon DEF Moved, CashMoved

(* Two batches, one after the other, are one. *)
LEMMA MovedTwice ==
    ASSUME NEW os, NEW fills, NEW S, NEW R, S \intersect R = {},
           Reportable(os, S, fills), Reportable(os, R, fills),
           NEW a, NEW b, NEW c, HasPositions(a),
           Moved(os, a, b, S, fills), Moved(os, b, c, R, fills)
    PROVE  Moved(os, a, c, S \union R, fills)
<1> DEFINE cost == CostOf(os, fills)
           gain == GainOf(os, fills)
<1>1. /\ IsFiniteSet(S) /\ IsFiniteSet(R)
      /\ \A n \in S \union R : cost[n] \in Int /\ gain[n] \in Int
  BY OrderIdsFinite, ReportableNumbers DEF Reportable
<1> HIDE DEF cost, gain
<1>2. ASSUME NEW j \in Instruments
      PROVE  c.qty[j] = a.qty[j] + SumFunctionOnSet(gain, OfInstrument(os, S \union R, j))
  <2> DEFINE Sj == OfInstrument(os, S, j)
             Rj == OfInstrument(os, R, j)
  <2>1. Sj \in SUBSET S /\ Rj \in SUBSET R /\ OfInstrument(os, S \union R, j) = Sj \union Rj
    BY DEF OfInstrument
  <2>2. /\ b.qty[j] = a.qty[j] + SumFunctionOnSet(gain, Sj)
        /\ c.qty[j] = b.qty[j] + SumFunctionOnSet(gain, Rj)
        /\ a.qty[j] \in Int
    BY DEF Moved, PositionsMoved, HasPositions, gain
  <2> HIDE DEF Sj, Rj
  <2>3. IsFiniteSet(Sj) /\ IsFiniteSet(Rj) /\ Sj \intersect Rj = {}
    BY <1>1, <2>1, FS_Subset
  <2>4. \A n \in Sj \union Rj : gain[n] \in Int
    BY <1>1, <2>1
  <2>5. SumFunctionOnSet(gain, Sj \union Rj) =
           SumFunctionOnSet(gain, Sj) + SumFunctionOnSet(gain, Rj)
    BY <2>3, <2>4, SumDisjoint
  <2>6. SumFunctionOnSet(gain, Sj) \in Int /\ SumFunctionOnSet(gain, Rj) \in Int
    BY <2>3, <2>4, SumType
  <2>7. c.qty[j] = a.qty[j] + (SumFunctionOnSet(gain, Sj) + SumFunctionOnSet(gain, Rj))
    BY <2>2, <2>6
  <2> QED BY <2>1, <2>5, <2>7, Zenon
<1>3. ASSUME HasCash(a)
      PROVE  HasCash(c) /\ c.cash = a.cash - SumFunctionOnSet(cost, S \union R)
  <2>1. /\ HasCash(b) /\ b.cash = a.cash - SumFunctionOnSet(cost, S)
        /\ HasCash(c) /\ c.cash = b.cash - SumFunctionOnSet(cost, R)
        /\ a.cash \in Int
    BY <1>3 DEF Moved, CashMoved, HasCash, cost
  <2>2. SumFunctionOnSet(cost, S \union R) =
           SumFunctionOnSet(cost, S) + SumFunctionOnSet(cost, R)
    BY <1>1, SumDisjoint
  <2>3. SumFunctionOnSet(cost, S) \in Int /\ SumFunctionOnSet(cost, R) \in Int
    BY <1>1, SumType
  <2> QED BY <2>1, <2>2, <2>3
<1> QED BY <1>2, <1>3 DEF Moved, PositionsMoved, CashMoved, cost, gain

(* One fill is a batch. *)
LEMMA MovedOnce ==
    ASSUME NEW os, NEW n \in OrderIds, NEW fills, Reportable(os, {n}, fills),
           NEW a, HasPositions(a)
    PROVE  Moved(os, a, ReportFill(a, os[n].instrument, os[n].side, fills[n]), {n}, fills)
<1> DEFINE i == os[n].instrument
           b == ReportFill(a, i, os[n].side, fills[n])
           cost == CostOf(os, fills)
           gain == GainOf(os, fills)
<1>1. IsFill(fills[n]) /\ i \in Instruments /\ n \in DOMAIN fills
  BY DEF Reportable
<1>2. /\ HasPositions(b)
      /\ b.qty = [a.qty EXCEPT ![i] = @ + Gain(os[n].side, fills[n])]
      /\ HasCash(a) => HasCash(b) /\ b.cash = a.cash - Cost(os[n].side, fills[n])
  BY <1>1, OneFill
<1>3. cost[n] = Cost(os[n].side, fills[n]) /\ gain[n] = Gain(os[n].side, fills[n])
  BY <1>1 DEF CostOf, GainOf
<1>4. cost[n] \in Int /\ gain[n] \in Int
  BY ReportableNumbers
<1>5. \A f : f[n] \in Int => SumFunctionOnSet(f, {n}) = f[n]
  <2> SUFFICES ASSUME NEW f, f[n] \in Int
               PROVE  SumFunctionOnSet(f, {n}) = f[n]
    OBVIOUS
  <2>1. SumFunctionOnSet(f, {} \union {n}) = SumFunctionOnSet(f, {}) + f[n]
    BY SumAdd, FS_EmptySet
  <2>2. {} \union {n} = {n} /\ SumFunctionOnSet(f, {}) = 0
    BY SumEmpty
  <2> QED BY <2>1, <2>2
<1>6. \A j \in Instruments : OfInstrument(os, {n}, j) = IF j = i THEN {n} ELSE {}
  BY DEF OfInstrument
<1>7. /\ SumFunctionOnSet(gain, {n}) = gain[n] /\ SumFunctionOnSet(cost, {n}) = cost[n]
      /\ SumFunctionOnSet(gain, {}) = 0
  BY <1>4, <1>5, SumEmpty
<1>8. a.qty \in [Instruments -> Int]
  BY DEF HasPositions
<1> HIDE DEF cost, gain, b, i
<1>9. ASSUME NEW j \in Instruments
      PROVE  b.qty[j] = a.qty[j] + SumFunctionOnSet(gain, OfInstrument(os, {n}, j))
  <2>1. CASE j = i
    <3>1. b.qty[j] = a.qty[j] + gain[n]
      BY <1>2, <1>3, <1>8, <2>1
    <3> QED BY <1>6, <1>7, <2>1, <3>1
  <2>2. CASE j # i
    <3>1. b.qty[j] = a.qty[j] /\ a.qty[j] \in Int
      BY <1>2, <1>8, <2>2
    <3>2. SumFunctionOnSet(gain, OfInstrument(os, {n}, j)) = 0
      BY <1>6, <1>7, <2>2
    <3> QED BY <3>1, <3>2
  <2> QED BY <2>1, <2>2
<1> QED BY <1>2, <1>3, <1>7, <1>9 DEF Moved, PositionsMoved, CashMoved, b, i, cost, gain

-----------------------------------------------------------------------------
(* The recursion of ReportFills *)

ReportStep(S, fills, a, n) ==
    IF n \in S THEN ReportFill(a, orders[n].instrument, orders[n].side, fills[n]) ELSE a

Reports(acct, S, fills, N, f) ==
    f = [n \in 0..N |-> IF n = 0 THEN acct ELSE ReportStep(S, fills, f[n - 1], n)]

(* ReportFills is the last value of a chosen solution of its recursion. *)
LEMMA ReportIsChosen ==
    ASSUME NEW acct, NEW S, NEW fills
    PROVE  ReportFills(acct, S, fills) =
             (CHOOSE f : Reports(acct, S, fills, MaxOrders, f))[MaxOrders]
BY DEF ReportFills, Reports, ReportStep

(* The recursion has a solution, as far as one likes. *)
LEMMA ReportsExist ==
    ASSUME NEW acct, NEW S, NEW fills, NEW N \in Nat
    PROVE  \E f : Reports(acct, S, fills, N, f)
<1> DEFINE T == {n \in Nat : \E f : Reports(acct, S, fills, n, f)}
<1>1. 0 \in T
  <2> DEFINE f == [n \in 0..0 |-> acct]
  <2>1. \A n \in 0..0 : n = 0
    OBVIOUS
  <2>2. Reports(acct, S, fills, 0, f)
    BY <2>1 DEF Reports
  <2> QED BY <2>2
<1>2. ASSUME NEW n \in Nat, n \in T
      PROVE  n + 1 \in T
  <2>1. PICK f : Reports(acct, S, fills, n, f)
    BY <1>2
  <2> DEFINE g == [m \in 0..(n + 1) |->
                     IF m = 0 THEN acct ELSE ReportStep(S, fills, f[m - 1], m)]
  <2>2. \A m \in 0..n : g[m] = f[m] /\ m \in 0..(n + 1)
    BY <2>1 DEF Reports
  <2>3. \A m \in 0..(n + 1) : m # 0 => m - 1 \in 0..n
    OBVIOUS
  <2>4. \A m \in 0..(n + 1) : m # 0 => f[m - 1] = g[m - 1]
    BY <2>2, <2>3
  <2>5. g = [m \in 0..(n + 1) |->
               IF m = 0 THEN acct ELSE ReportStep(S, fills, g[m - 1], m)]
    BY <2>4
  <2> HIDE DEF g
  <2>6. Reports(acct, S, fills, n + 1, g)
    BY <2>5 DEF Reports
  <2> QED BY <1>2, <2>6
<1> HIDE DEF T
<1>3. N \in T
  BY <1>1, <1>2, NaturalsBySuccessor
<1> QED BY <1>3 DEF T

(***************************************************************************)
(* What reporting a batch does to the account: the cost of its fills comes *)
(* off the cash, and each position grows by the gains of its orders.       *)
(***************************************************************************)
LEMMA BatchReported ==
    ASSUME NEW S, NEW fills, Reportable(orders, S, fills), NEW acct, HasPositions(acct)
    PROVE  Moved(orders, acct, ReportFills(acct, S, fills), S, fills)
<1> DEFINE f == CHOOSE g : Reports(acct, S, fills, MaxOrders, g)
           Upto(k) == {n \in S : n <= k}
           T == {k \in Nat : k <= MaxOrders => Moved(orders, acct, f[k], Upto(k), fills)}
<1>1. MaxOrders \in Nat /\ S \subseteq 1..MaxOrders
  BY EngineAssumption DEF Reportable, OrderIds
<1>10. \A n \in S : n \in Int /\ n >= 1 /\ n <= MaxOrders
  BY <1>1
<1>2. Reports(acct, S, fills, MaxOrders, f)
  BY <1>1, ReportsExist
<1>3. ReportFills(acct, S, fills) = f[MaxOrders]
  BY ReportIsChosen
<1> HIDE DEF f
<1>4. f[0] = acct
  BY <1>1, <1>2 DEF Reports
<1>5. \A n \in 1..MaxOrders : f[n] = ReportStep(S, fills, f[n - 1], n)
  BY <1>1, <1>2 DEF Reports
<1>6. 0 \in T
  <2>1. Upto(0) = {}
    BY <1>10
  <2> QED BY <1>4, <2>1, NothingMoved
<1>7. ASSUME NEW n \in Nat, n \in T
      PROVE  n + 1 \in T
  <2> SUFFICES ASSUME n + 1 <= MaxOrders
               PROVE  Moved(orders, acct, f[n + 1], Upto(n + 1), fills)
    BY <1>7
  <2>1. Moved(orders, acct, f[n], Upto(n), fills) /\ HasPositions(f[n])
    BY <1>1, <1>7 DEF Moved, PositionsMoved
  <2>2. f[n + 1] = ReportStep(S, fills, f[n], n + 1) /\ n + 1 \in OrderIds
    <3>1. n + 1 \in 1..MaxOrders /\ (n + 1) - 1 = n
      BY <1>1
    <3> QED BY <1>5, <3>1 DEF OrderIds
  <2>3. CASE n + 1 \in S
    <3>5. \A x \in S : x <= n + 1 <=> (x <= n \/ x = n + 1)
      BY <1>10
    <3>6. ~(n + 1 <= n)
      OBVIOUS
    <3>1. Upto(n + 1) = Upto(n) \union {n + 1} /\ Upto(n) \intersect {n + 1} = {}
      BY <2>3, <3>5, <3>6
    <3>2. Reportable(orders, Upto(n), fills) /\ Reportable(orders, {n + 1}, fills)
      BY <2>3 DEF Reportable
    <3>3. f[n + 1] = ReportFill(f[n], orders[n + 1].instrument, orders[n + 1].side,
                                fills[n + 1])
      BY <2>2, <2>3 DEF ReportStep
    <3>4. Moved(orders, f[n], f[n + 1], {n + 1}, fills)
      BY <2>1, <2>2, <3>2, <3>3, MovedOnce
    <3> HIDE DEF Upto
    <3> QED BY <2>1, <3>1, <3>2, <3>4, MovedTwice
  <2>4. CASE n + 1 \notin S
    <3>2. \A x \in S : x <= n + 1 <=> x <= n
      BY <1>10, <2>4
    <3>1. Upto(n + 1) = Upto(n)
      BY <3>2
    <3> QED BY <2>1, <2>2, <2>4, <3>1 DEF ReportStep
  <2> QED BY <2>3, <2>4
<1> HIDE DEF T
<1>8. MaxOrders \in T
  BY <1>1, <1>6, <1>7, NaturalsBySuccessor
<1>9. Upto(MaxOrders) = S
  BY <1>10
<1> QED BY <1>1, <1>3, <1>8, <1>9 DEF T

-----------------------------------------------------------------------------
(* The account and the records *)

(***************************************************************************)
(* The inductive invariant: while nothing is settled cash and positions    *)
(* are numbers, the sums over the records.  Positions stay numbers to the  *)
(* end.                                                                    *)
(***************************************************************************)
MatchInv ==
    /\ HasPositions(account)
    /\ Running => HasCash(account)
    /\ AccountMatchesRecords

(* The same cash and the same positions. *)
SameMoney(a, b) == DOMAIN a = DOMAIN b /\ a.cash = b.cash /\ a.qty = b.qty

(* The record of a fill has numbers. *)
LEMMA RecordNumbers ==
    ASSUME Inv, TimeInv, FairInv, NEW n \in Fills
    PROVE  IsFill(log[n][1]) /\ orders[n].instrument \in Instruments
<1>1. n \in Submitted
  BY HeldIsSubmitted DEF Fills
<1>2. orders[n].qty \in Nat /\ orders[n].instrument \in Instruments
  BY <1>1 DEF TimeInv, SubmittedOrder, Quantity
<1>3. /\ log[n][1].qty \in 1..orders[n].qty
      /\ log[n][1].notional \in Nat /\ log[n][1].fee \in Nat
  BY DEF FairInv, FairFill
<1> QED BY <1>2, <1>3 DEF IsFill

(* The columns of the invariant, in the terms of the lemmas on reporting. *)
LEMMA PaidAndAcquired ==
    /\ DOMAIN Paid = Fills /\ DOMAIN Acquired = Fills
    /\ \A n \in Fills : /\ Paid[n] = Cost(orders[n].side, log[n][1])
                        /\ Acquired[n] = Gain(orders[n].side, log[n][1])
BY DEF Paid, Acquired, Cost, Gain

(* The same in the successor state. *)
LEMMA PaidAndAcquiredNext ==
    /\ DOMAIN Paid' = Fills' /\ DOMAIN Acquired' = Fills'
    /\ \A n \in Fills' : /\ Paid'[n] = Cost(orders'[n].side, log'[n][1])
                         /\ Acquired'[n] = Gain(orders'[n].side, log'[n][1])
BY DEF Paid, Acquired, Cost, Gain

(* A sum over old and new orders, each part told by a function of its own. *)
LEMMA SumOfParts ==
    ASSUME NEW S, NEW D, IsFiniteSet(S), IsFiniteSet(D), S \intersect D = {},
           NEW f, NEW g, NEW h,
           \A n \in S : g[n] \in Int /\ f[n] = g[n],
           \A n \in D : h[n] \in Int /\ f[n] = h[n]
    PROVE  /\ SumFunctionOnSet(f, S \union D) = SumFunctionOnSet(g, S) + SumFunctionOnSet(h, D)
           /\ SumFunctionOnSet(g, S) \in Int /\ SumFunctionOnSet(h, D) \in Int
<1>1. SumFunctionOnSet(f, S \union D) = SumFunctionOnSet(f, S) + SumFunctionOnSet(f, D)
  BY SumDisjoint
<1>2. SumFunctionOnSet(f, S) = SumFunctionOnSet(g, S)
  BY SumEqual
<1>3. SumFunctionOnSet(f, D) = SumFunctionOnSet(h, D)
  BY SumEqual
<1>4. SumFunctionOnSet(g, S) \in Int /\ SumFunctionOnSet(h, D) \in Int
  BY SumType
<1> QED BY <1>1, <1>2, <1>3, <1>4, Zenon

(***************************************************************************)
(* A step that records fills and reports just them keeps account and       *)
(* records in step.                                                        *)
(***************************************************************************)
LEMMA ReportedAndRecorded ==
    ASSUME Inv, TimeInv, FairInv, MatchInv, Running,
           NEW fills, NEW rejects, NEW ts, NEW via,
           Record(fills, rejects, ts, via), rejects \subseteq OrderIds,
           Reportable(orders', DOMAIN fills, fills),
           \A n \in DOMAIN fills \union rejects : log[n] = <<>>,
           \A n \in Fills : orders'[n] = orders[n],
           NEW b, Moved(orders', account, b, DOMAIN fills, fills), SameMoney(account', b)
    PROVE  MatchInv'
<1> DEFINE D == DOMAIN fills
           cost == CostOf(orders', fills)
           gain == GainOf(orders', fills)
<1>1. D \subseteq OrderIds
  BY DEF Reportable
<1>2. /\ \A n \in D : log'[n] = <<FillRecord(ts, fills[n], via)>>
      /\ Fills' = Fills \union D
      /\ Fills \intersect D = {}
      /\ \A n \in Fills : log'[n] = log[n]
  BY <1>1, FirstRecords DEF Inv, TypeOK
<1>3. IsFiniteSet(Fills) /\ IsFiniteSet(D)
  BY <1>1, OrderIdsFinite DEF Fills
<1>4. \A n \in Fills : /\ Paid[n] \in Int /\ Acquired[n] \in Int
                       /\ Paid'[n] = Paid[n] /\ Acquired'[n] = Acquired[n]
  <2> SUFFICES ASSUME NEW n \in Fills
               PROVE  /\ Paid[n] \in Int /\ Acquired[n] \in Int
                      /\ Paid'[n] = Paid[n] /\ Acquired'[n] = Acquired[n]
    OBVIOUS
  <2>1. Paid[n] \in Int /\ Acquired[n] \in Int
    BY RecordNumbers, FillNumbers, PaidAndAcquired
  <2>2. Paid'[n] = Paid[n] /\ Acquired'[n] = Acquired[n]
    BY <1>2, PaidAndAcquired, PaidAndAcquiredNext
  <2> QED BY <2>1, <2>2
<1>5. \A n \in D : /\ cost[n] \in Int /\ gain[n] \in Int
                   /\ Paid'[n] = cost[n] /\ Acquired'[n] = gain[n]
  <2> SUFFICES ASSUME NEW n \in D
               PROVE  /\ cost[n] \in Int /\ gain[n] \in Int
                      /\ Paid'[n] = cost[n] /\ Acquired'[n] = gain[n]
    OBVIOUS
  <2>1. cost[n] \in Int /\ gain[n] \in Int
    BY ReportableNumbers
  <2>2. log'[n][1] = FillRecord(ts, fills[n], via)
    BY <1>2
  <2>3. /\ log'[n][1].qty = fills[n].qty /\ log'[n][1].notional = fills[n].notional
        /\ log'[n][1].fee = fills[n].fee
    BY <2>2 DEF FillRecord
  <2>4. /\ Paid'[n] = Cost(orders'[n].side, log'[n][1])
        /\ Acquired'[n] = Gain(orders'[n].side, log'[n][1])
    BY <1>2, PaidAndAcquiredNext
  <2> QED BY <2>1, <2>3, <2>4 DEF CostOf, GainOf, Cost, Gain
<1>6. /\ HasPositions(b) /\ HasCash(b)
      /\ b.cash = account.cash - SumFunctionOnSet(cost, D)
      /\ \A j \in Instruments : b.qty[j] = account.qty[j]
                                 + SumFunctionOnSet(gain, OfInstrument(orders', D, j))
  BY DEF Moved, PositionsMoved, CashMoved, MatchInv
<1>7. HasPositions(account') /\ HasCash(account')
  BY <1>6 DEF SameMoney, HasPositions, HasCash
<1>8. /\ account.cash = StartingBalance * MoneyScale - SumFunctionOnSet(Paid, Fills)
      /\ \A j \in Instruments : account.qty[j] =
             SumFunctionOnSet(Acquired, OfInstrument(orders, Fills, j))
  BY PaidAndAcquired DEF MatchInv, AccountMatchesRecords, SumFunction, OfInstrument
<1> HIDE DEF D, cost, gain
<1>9. account'.cash = StartingBalance * MoneyScale - SumFunctionOnSet(Paid', Fills')
  <2>1. SumFunctionOnSet(Paid', Fills \union D) =
           SumFunctionOnSet(Paid, Fills) + SumFunctionOnSet(cost, D)
    BY <1>2, <1>3, <1>4, <1>5, SumOfParts
  <2>4. SumFunctionOnSet(Paid, Fills) \in Int /\ SumFunctionOnSet(cost, D) \in Int
    BY <1>3, <1>4, <1>5, SumType
  <2>2. StartingBalance * MoneyScale \in Int
    BY EngineAssumption DEF MoneyScale
  <2>3. account'.cash = StartingBalance * MoneyScale
                          - (SumFunctionOnSet(Paid, Fills) + SumFunctionOnSet(cost, D))
    BY <1>6, <1>8, <2>2, <2>4 DEF SameMoney
  <2> QED BY <1>2, <2>1, <2>3, Zenon
<1>10. ASSUME NEW j \in Instruments
       PROVE  account'.qty[j] = SumFunctionOnSet(Acquired', OfInstrument(orders', Fills', j))
  <2> DEFINE S == OfInstrument(orders, Fills, j)
             R == OfInstrument(orders', D, j)
  <2>1. OfInstrument(orders', Fills', j) = S \union R
    BY <1>2 DEF OfInstrument
  <2>2. S \in SUBSET Fills /\ R \in SUBSET D
    BY DEF OfInstrument
  <2>3. account'.qty[j] = account.qty[j] + SumFunctionOnSet(gain, R)
    BY <1>6 DEF SameMoney
  <2>4. account.qty[j] = SumFunctionOnSet(Acquired, S)
    BY <1>8
  <2> HIDE DEF S, R
  <2>5. IsFiniteSet(S) /\ IsFiniteSet(R) /\ S \intersect R = {}
    BY <1>2, <1>3, <2>2, FS_Subset
  <2>6. SumFunctionOnSet(Acquired', S \union R) =
           SumFunctionOnSet(Acquired, S) + SumFunctionOnSet(gain, R)
    BY <1>4, <1>5, <2>2, <2>5, SumOfParts
  <2> QED BY <2>1, <2>3, <2>4, <2>6, Zenon
<1>11. AccountMatchesRecords'
  BY <1>9, <1>10, PaidAndAcquiredNext DEF AccountMatchesRecords, SumFunction, OfInstrument
<1> QED BY <1>7, <1>11 DEF MatchInv

(* A step that reports and records nothing keeps them in step. *)
LEMMA QuietMatch ==
    ASSUME MatchInv, Running, UNCHANGED log, SameMoney(account', account),
           \A n \in Fills : orders'[n] = orders[n]
    PROVE  MatchInv'
<1>1. Fills' = Fills
  BY DEF Fills
<1>2. Paid' = Paid /\ Acquired' = Acquired
  BY <1>1 DEF Paid, Acquired
<1>3. \A i \in Instruments : {n \in Fills : orders'[n].instrument = i}
                             = {n \in Fills : orders[n].instrument = i}
  OBVIOUS
<1>4. HasPositions(account') /\ HasCash(account')
  BY DEF MatchInv, SameMoney, HasPositions, HasCash
<1>5. AccountMatchesRecords'
  BY <1>1, <1>2, <1>3 DEF MatchInv, AccountMatchesRecords, SameMoney
<1> QED BY <1>4, <1>5 DEF MatchInv

-----------------------------------------------------------------------------
(* Every step *)

(* Fair fills of held orders can be reported. *)
LEMMA FairIsReportable ==
    ASSUME Inv, TimeInv, NEW i \in Instruments, NEW fills, NEW via,
           DOMAIN fills \subseteq pending[i] \union resting[i],
           \A n \in DOMAIN fills : FairFill(fills[n], orders[n], via),
           NEW S \in SUBSET DOMAIN fills
    PROVE  Reportable(orders, S, fills)
<1> SUFFICES ASSUME NEW n \in S
             PROVE  n \in OrderIds /\ IsFill(fills[n]) /\ orders[n].instrument \in Instruments
  BY DEF Reportable
<1>1. n \in OrderIds /\ OrderTerms(orders[n])
  BY HeldTerms
<1>2. orders[n].qty \in Nat /\ orders[n].instrument \in Instruments
  BY <1>1 DEF OrderTerms, Quantity
<1>3. /\ fills[n].qty \in 1..orders[n].qty
      /\ fills[n].notional \in Nat /\ fills[n].fee \in Nat
  BY DEF FairFill
<1> QED BY <1>1, <1>2, <1>3 DEF IsFill

(* A new mark changes neither cash nor positions. *)
LEMMA MarkIsNoMoney ==
    ASSUME NEW a, NEW i, NEW price
    PROVE  SameMoney(UpdateMark(a, i, price), a)
BY DEF SameMoney, UpdateMark

(* Where the money is the same, the same has to be reported. *)
LEMMA MovedFromSame ==
    ASSUME NEW os, NEW S, NEW fills, NEW a, NEW c, SameMoney(c, a),
           NEW b, Moved(os, c, b, S, fills)
    PROVE  Moved(os, a, b, S, fills)
BY DEF Moved, PositionsMoved, CashMoved, SameMoney, HasCash

(* A handler that records fills of held orders and reports just them. *)
LEMMA HandlerMatches ==
    ASSUME Inv, TimeInv, FairInv, MatchInv, Running, NEW i \in Instruments,
           NEW fills, NEW rejects, NEW ts, NEW via,
           Record(fills, rejects, ts, via),
           DOMAIN fills \union rejects \subseteq pending[i] \union resting[i],
           \A n \in DOMAIN fills : FairFill(fills[n], orders[n], via),
           UNCHANGED orders,
           NEW b, Moved(orders, account, b, DOMAIN fills, fills), SameMoney(account', b)
    PROVE  MatchInv'
<1>1. Reportable(orders, DOMAIN fills, fills)
  BY FairIsReportable
<1>2. \A n \in DOMAIN fills \union rejects : n \in OrderIds /\ log[n] = <<>>
  BY HeldIsUnrecorded
<1>3. Reportable(orders', DOMAIN fills, fills) /\ Moved(orders', account, b, DOMAIN fills, fills)
  BY <1>1
<1> QED BY <1>2, <1>3, ReportedAndRecorded

(* on_event reports to the account what it records. *)
LEMMA EventMatches ==
    ASSUME Inv, TimeInv, FairInv, MatchInv, Running, NEW i \in Instruments, NEW ts,
           NEW p \in Payloads, HandleEvent(i, ts, p)
    PROVE  MatchInv'
<1>0. HasPositions(account)
  BY DEF MatchInv
<1>1. CASE p.type \in {"Bar", "DerivedBar"} /\ HandleBar(i, ts, p)
  <2> DEFINE fills == BarFills(i, ts, p)
             bought == BarBought(i, ts)
             reached == BarReached(i, ts, p)
             expired == BarExpired(i, ts, p)
             first == ReportFills(account, bought, fills)
             second == ReportFills(first, reached, fills)
  <2>1. /\ Record(fills, expired, ts, "bar") /\ UNCHANGED orders
        /\ account' = UpdateMark(second, i, p.close)
    BY <1>1, BarStep
  <2>2. DOMAIN fills \union expired \subseteq pending[i] \union resting[i]
    BY DEF BarFills, BarExpired, BarBought, BarReached, BarChecked, Eligible
  <2>3. \A n \in DOMAIN fills : FairFill(fills[n], orders[n], "bar")
    BY <1>1, BarFillsFair, PayloadTypes
  <2>4. DOMAIN fills = bought \union reached
    BY DEF BarFills
  <2>5. bought \intersect reached = {}
    <3>1. bought \subseteq pending[i] /\ reached \subseteq resting[i]
      BY DEF BarBought, BarReached, BarChecked, Eligible
    <3> QED BY <3>1 DEF Inv, OrderConservation
  <2> HIDE DEF fills, bought, reached, expired
  <2>6. Reportable(orders, bought, fills) /\ Reportable(orders, reached, fills)
    BY <2>2, <2>3, <2>4, FairIsReportable
  <2>7. Moved(orders, account, first, bought, fills) /\ HasPositions(first)
    BY <1>0, <2>6, BatchReported DEF Moved, PositionsMoved
  <2>8. Moved(orders, first, second, reached, fills)
    BY <2>6, <2>7, BatchReported
  <2> HIDE DEF first, second
  <2>9. Moved(orders, account, second, DOMAIN fills, fills)
    BY <1>0, <2>4, <2>5, <2>6, <2>7, <2>8, MovedTwice
  <2>10. SameMoney(account', second)
    BY <2>1, MarkIsNoMoney
  <2> QED BY <2>1, <2>2, <2>3, <2>9, <2>10, HandlerMatches
<1>2. CASE p.type = "Quote" /\ HandleQuote(i, ts, p)
  <2> DEFINE fills == QuoteFills(i, ts, p)
             filled == DOMAIN fills
  <2>1. /\ Record(fills, {}, ts, "quote") /\ UNCHANGED orders
        /\ account' = ReportFills(account, filled, fills)
    BY <1>2, QuoteStep
  <2>2. filled \subseteq pending[i]
    BY DEF QuoteFills, Eligible
  <2>3. IsBook(QuotedBook(i, p))
    BY <1>2, PayloadTypes, DeltaIsBook DEF QuotedBook, Inv, TypeOK
  <2>4. \A n \in filled : FairFill(fills[n], orders[n], "quote")
    BY <2>3, QuoteFillsFair
  <2> HIDE DEF fills
  <2>5. Reportable(orders, filled, fills)
    BY <2>2, <2>4, FairIsReportable
  <2>6. Moved(orders, account, account', filled, fills)
    BY <1>0, <2>1, <2>5, BatchReported
  <2>7. SameMoney(account', account') /\ filled \union {} \subseteq pending[i] \union resting[i]
    BY <2>2 DEF SameMoney
  <2> QED BY <2>1, <2>4, <2>6, <2>7, HandlerMatches
<1>3. CASE p.type = "Trade" /\ HandleTrade(i, ts, p.price)
  <2> DEFINE fills == TradeFills(i, ts, p.price)
             reached == TradeReached(i, ts, p.price)
             marked == UpdateMark(account, i, p.price)
  <2>1. /\ Record(fills, {}, ts, "trade") /\ UNCHANGED orders
        /\ account' = ReportFills(marked, reached, fills)
    BY <1>3, TradeStep
  <2>2. DOMAIN fills = reached /\ reached \union {} \subseteq pending[i] \union resting[i]
    BY DEF TradeFills, TradeReached, Eligible
  <2>3. \A n \in DOMAIN fills : FairFill(fills[n], orders[n], "trade")
    BY TradeFillsFair
  <2>4. SameMoney(marked, account) /\ HasPositions(marked)
    BY <1>0, MarkIsNoMoney DEF SameMoney, HasPositions
  <2> HIDE DEF fills, reached, marked
  <2>5. Reportable(orders, reached, fills)
    BY <2>2, <2>3, FairIsReportable
  <2>6. Moved(orders, marked, account', reached, fills)
    BY <2>1, <2>4, <2>5, BatchReported
  <2>7. Moved(orders, account, account', reached, fills)
    BY <2>4, <2>6, MovedFromSame
  <2>8. SameMoney(account', account')
    BY DEF SameMoney
  <2> QED BY <2>1, <2>2, <2>3, <2>7, <2>8, HandlerMatches
<1>4. SameMoney(account, account)
  BY DEF SameMoney
<1>5. ASSUME NEW newBook, HandleBook(i, newBook)
      PROVE  MatchInv'
  BY <1>4, <1>5, QuietMatch DEF HandleBook, orderVars, runVars
<1>6. CASE HandleMark(i, p)
  <2>1. SameMoney(account', account)
    BY <1>4, <1>6, MarkIsNoMoney DEF HandleMark
  <2> QED BY <1>6, <2>1, QuietMatch DEF HandleMark, orderVars, runVars
<1>7. CASE HandleStatus(i, p.status)
  BY <1>4, <1>7, QuietMatch DEF HandleStatus, orderVars, runVars
<1>8. CASE HandleFees(i, p)
  BY <1>4, <1>8, QuietMatch DEF HandleFees, orderVars, runVars
<1>9. CASE HandleSignal(i, p.type)
  BY <1>4, <1>9, QuietMatch DEF HandleSignal, orderVars, runVars
<1> QED BY <1>1, <1>2, <1>3, <1>5, <1>6, <1>7, <1>8, <1>9 DEF HandleEvent

(* submit_order reports an immediate execution, and nothing else. *)
LEMMA SubmitMatches ==
    ASSUME Inv, TimeInv, FairInv, MatchInv, Running,
           NEW order \in Order, SubmitOrder(order)
    PROVE  MatchInv'
<1> DEFINE n == count + 1
           i == order.instrument
           fill == ImmediateFill(i, order)
           one == [m \in {n} |-> fill]
<1>1. n \in OrderIds /\ log[n] = <<>> /\ \A m \in Fills : orders'[m] = orders[m]
  BY SubmitKeepsFilled
<1>2. orders'[n].instrument = i /\ orders'[n].side = order.side
  BY <1>1 DEF SubmitOrder, Inv, TypeOK
<1>3. \/ log' = log /\ account' = account
      \/ \E via : Record(<<>>, {n}, now, via) /\ account' = account
      \/ /\ fill # None /\ Record(one, {}, now + Latency, "book")
         /\ account' = ReportFill(account, i, order.side, fill)
  BY DEF SubmitOrder, Conclude, Buffer, Rest
<1>4. DOMAIN one = {n} /\ DOMAIN <<>> = {} /\ one[n] = fill
  OBVIOUS
<1>5. fill # None => FairFill(fill, order, "book")
  BY ImmediateIsFair
<1>6. order.qty \in Nat /\ i \in Instruments
  BY DEF Order, Quantity
<1>7. HasPositions(account) /\ SameMoney(account', account') /\ SameMoney(account, account)
  BY DEF MatchInv, SameMoney
<1> HIDE DEF n, i, fill, one
<1>8. CASE log' = log /\ account' = account
  BY <1>1, <1>7, <1>8, QuietMatch
<1>9. ASSUME NEW via, Record(<<>>, {n}, now, via), account' = account
      PROVE  MatchInv'
  <2>1. Reportable(orders', DOMAIN <<>>, <<>>)
    BY <1>4 DEF Reportable
  <2>2. Moved(orders', account, account', DOMAIN <<>>, <<>>)
    BY <1>4, <1>7, <1>9, NothingMoved
  <2>3. \A m \in DOMAIN <<>> \union {n} : log[m] = <<>>
    BY <1>1, <1>4
  <2> QED BY <1>1, <1>7, <1>9, <2>1, <2>2, <2>3, ReportedAndRecorded
<1>10. CASE /\ fill # None /\ Record(one, {}, now + Latency, "book")
            /\ account' = ReportFill(account, i, order.side, fill)
  <2>1. IsFill(fill)
    <3>1. fill.qty \in 1..order.qty /\ fill.notional \in Nat /\ fill.fee \in Nat
      BY <1>5, <1>10 DEF FairFill
    <3> QED BY <1>6, <3>1 DEF IsFill
  <2>2. Reportable(orders', {n}, one)
    BY <1>1, <1>2, <1>4, <1>6, <2>1 DEF Reportable
  <2>3. Moved(orders', account, account', {n}, one)
    <3>1. account' = ReportFill(account, orders'[n].instrument, orders'[n].side, one[n])
      BY <1>2, <1>4, <1>10
    <3> QED BY <1>1, <1>7, <2>2, <3>1, MovedOnce
  <2> QED BY <1>1, <1>4, <1>7, <1>10, <2>2, <2>3, ReportedAndRecorded
<1> QED BY <1>3, <1>8, <1>9, <1>10

-----------------------------------------------------------------------------
(* Settlement *)

(***************************************************************************)
(* Once an engine with a price is settled, what is open was filled by a    *)
(* settlement.  It takes one such engine, not all of them: each closes the *)
(* positions of every instrument before it fills its own buffered orders.  *)
(***************************************************************************)
OpenInv ==
    (\E i \in Instruments : settled[i] /\ SettlePrice(i) # None) =>
        \A j \in Instruments : account.qty[j] # 0 =>
            \E n \in Fills : orders[n].instrument = j /\ log[n][1].via = "settle"

(* With a price: all flat, then the settled engine's own fills. *)
LEMMA SettlementMoves ==
    ASSUME Inv, TimeInv, MatchInv, NEW i \in Instruments, SettlePrice(i) # None
    PROVE  LET b == SettleAccount(account, i)
           IN  /\ HasPositions(b)
               /\ \A j \in Instruments : b.qty[j] # 0 =>
                     \E n \in pending[i] : orders[n].instrument = j
<1> DEFINE closed == ForceCloseAll(account, SettlePrice(i))
           fills == SettleFills(i)
           b == ReportFills(closed, pending[i], fills)
<1>1. SettleAccount(account, i) = b
  BY DEF SettleAccount
<1>2. /\ "qty" \in DOMAIN closed
      /\ closed.qty = [j \in Instruments |-> 0]
  BY DEF ForceCloseAll, MatchInv, HasPositions
<1>3. HasPositions(closed) /\ \A j \in Instruments : closed.qty[j] = 0
  BY <1>2 DEF HasPositions
<1>4. DOMAIN fills = pending[i]
  BY DEF SettleFills
<1>5. Reportable(orders, pending[i], fills)
  BY <1>4, SettleFillsFair, FairIsReportable
<1> HIDE DEF closed, fills
<1>6. Moved(orders, closed, b, pending[i], fills)
  BY <1>3, <1>5, BatchReported
<1> HIDE DEF b
<1>7. ASSUME NEW j \in Instruments, b.qty[j] # 0
      PROVE  \E n \in pending[i] : orders[n].instrument = j
  <2> SUFFICES ASSUME OfInstrument(orders, pending[i], j) = {}
               PROVE  FALSE
    BY DEF OfInstrument
  <2>1. b.qty[j] = closed.qty[j] + SumFunctionOnSet(GainOf(orders, fills), {})
    BY <1>6 DEF Moved, PositionsMoved
  <2>2. SumFunctionOnSet(GainOf(orders, fills), {}) = 0
    BY SumEmpty
  <2> QED BY <1>3, <1>7, <2>1, <2>2
<1> QED BY <1>1, <1>6, <1>7 DEF Moved, PositionsMoved

(* A settlement leaves open only what it filled itself. *)
LEMMA SettleMatches ==
    ASSUME Inv, TimeInv, MatchInv, OpenInv, NEW i \in Instruments, SettleEngine(i)
    PROVE  MatchInv' /\ OpenInv'
<1>1. /\ settled' = [settled EXCEPT ![i] = TRUE]
      /\ account' = SettleAccount(account, i)
      /\ UNCHANGED <<marketVars, orders>>
  BY DEF SettleEngine
<1>2. ~Running'
  BY <1>1 DEF Running, Inv, TypeOK
<1>3. \A j \in Instruments : SettlePrice(j)' = SettlePrice(j)
  BY <1>1 DEF SettlePrice, marketVars
<1>4. CASE SettlePrice(i) = None /\ UNCHANGED orderVars
  <2>1. account' = account
    BY <1>1, <1>4 DEF SettleAccount
  <2>2. log' = log /\ Fills' = Fills
    BY <1>4 DEF orderVars, Fills
  <2>3. \A j \in Instruments \ {i} : settled'[j] = settled[j]
    BY <1>1 DEF Inv, TypeOK
  <2>4. (\E j \in Instruments : settled'[j] /\ SettlePrice(j)' # None) =>
           \E j \in Instruments : settled[j] /\ SettlePrice(j) # None
    BY <1>3, <1>4, <2>3
  <2>5. OpenInv'
    BY <1>1, <2>1, <2>2, <2>4 DEF OpenInv
  <2>6. MatchInv'
    BY <1>2, <2>1 DEF MatchInv, AccountMatchesRecords
  <2> QED BY <2>5, <2>6
<1>5. CASE SettlePrice(i) # None /\ Record(SettleFills(i), resting[i], now, "settle")
  <2>1. /\ HasPositions(account')
        /\ \A j \in Instruments : account'.qty[j] # 0 =>
              \E n \in pending[i] : orders[n].instrument = j
    BY <1>1, <1>5, SettlementMoves
  <2>2. DOMAIN SettleFills(i) = pending[i]
    BY DEF SettleFills
  <2>3. \A n \in pending[i] \union resting[i] : n \in OrderIds /\ log[n] = <<>>
    BY HeldIsUnrecorded
  <2>4. /\ \A n \in pending[i] :
              log'[n] = <<FillRecord(now, SettleFills(i)[n], "settle")>>
        /\ Fills' = Fills \union pending[i]
    BY <1>5, <2>2, <2>3, FirstRecords DEF Inv, TypeOK
  <2>5. ASSUME NEW n \in pending[i]
        PROVE  n \in Fills' /\ log'[n][1].via = "settle"
    <3> DEFINE r == FillRecord(now, SettleFills(i)[n], "settle")
    <3>1. r.via = "settle"
      BY DEF FillRecord
    <3>2. log'[n] = <<r>>
      BY <2>4
    <3> HIDE DEF r
    <3>3. log'[n][1] = r
      BY <3>2
    <3> QED BY <2>4, <3>1, <3>3
  <2>6. OpenInv'
    BY <1>1, <2>1, <2>5 DEF OpenInv
  <2>7. MatchInv'
    BY <1>2, <2>1 DEF MatchInv, AccountMatchesRecords
  <2> QED BY <2>6, <2>7
<1> QED BY <1>4, <1>5 DEF SettleEngine

(* While the run lasts, nothing is settled. *)
LEMMA RunningOpens ==
    ASSUME Running, UNCHANGED settled
    PROVE  OpenInv'
BY DEF Running, OpenInv

(* Every step keeps account and records in step, and the settlement fair. *)
LEMMA NextMatches ==
    Inv /\ TimeInv /\ FairInv /\ MatchInv /\ OpenInv /\ [Next]_vars
        => MatchInv' /\ OpenInv'
<1> SUFFICES ASSUME Inv, TimeInv, FairInv, MatchInv, OpenInv, [Next]_vars
             PROVE  MatchInv' /\ OpenInv'
  OBVIOUS
<1>1. ASSUME NEW i \in Instruments, NEW ts, NEW p \in Payloads, OnEvent(i, ts, p)
      PROVE  MatchInv' /\ OpenInv'
  <2>1. Running /\ HandleEvent(i, ts, p)
    BY <1>1 DEF OnEvent
  <2>2. UNCHANGED settled
    BY <2>1 DEF HandleEvent, HandleBar, HandleQuote, HandleTrade, HandleBook,
       HandleMark, HandleStatus, HandleFees, HandleSignal, runVars
  <2> QED BY <2>1, <2>2, EventMatches, RunningOpens
<1>2. ASSUME NEW order \in OrderSpecs, OnSubmit(order)
      PROVE  MatchInv' /\ OpenInv'
  <2>1. order \in Order /\ Running /\ SubmitOrder(order) /\ UNCHANGED settled
    BY <1>2, EngineAssumption DEF OnSubmit, SubmitOrder
  <2> QED BY <2>1, SubmitMatches, RunningOpens
<1>3. ASSUME NEW ts, OnClock(ts)
      PROVE  MatchInv' /\ OpenInv'
  <2>1. Running /\ UNCHANGED <<log, orders, settled, account>>
    BY <1>3 DEF OnClock, orderVars, runVars
  <2>2. SameMoney(account', account)
    BY <2>1 DEF SameMoney
  <2> QED BY <2>1, <2>2, QuietMatch, RunningOpens
<1>4. ASSUME NEW i \in Instruments, OnSettle(i)
      PROVE  MatchInv' /\ OpenInv'
  BY <1>4, SettleMatches DEF OnSettle
<1>5. CASE UNCHANGED vars
  <2>1. UNCHANGED <<marketVars, log, orders, settled, account>>
    BY <1>5 DEF vars, orderVars, runVars
  <2>2. Fills' = Fills /\ \A i \in Instruments : SettlePrice(i)' = SettlePrice(i)
    BY <2>1 DEF Fills, SettlePrice, marketVars
  <2>3. OpenInv'
    BY <2>1, <2>2 DEF OpenInv
  <2>4. Running' = Running
    BY <2>1 DEF Running
  <2>5. CASE Running
    <3>1. SameMoney(account', account)
      BY <2>1 DEF SameMoney
    <3> QED BY <2>1, <2>3, <2>5, <3>1, QuietMatch
  <2>6. CASE ~Running
    BY <2>1, <2>3, <2>4, <2>6 DEF MatchInv, AccountMatchesRecords
  <2> QED BY <2>5, <2>6
<1> QED BY <1>1, <1>2, <1>3, <1>4, <1>5 DEF Next

(* A new account has the starting balance and no position. *)
LEMMA InitMatches == Init => MatchInv /\ OpenInv
<1> SUFFICES ASSUME Init PROVE MatchInv /\ OpenInv
  OBVIOUS
<1>1. Fills = {}
  BY DEF Init, Fills
<1>2. SumFunction(Paid) = 0
  BY <1>1, PaidAndAcquired, SumEmpty DEF SumFunction
<1>3. \A i \in Instruments : {n \in Fills : orders[n].instrument = i} = {}
  BY <1>1
<1>4. SumFunctionOnSet(Acquired, {}) = 0
  BY SumEmpty
<1>5. /\ account.cash = StartingBalance * MoneyScale
      /\ account.qty = [i \in Instruments |-> 0]
      /\ "cash" \in DOMAIN account /\ "qty" \in DOMAIN account
  BY DEF Init, NewAccount
<1>6. StartingBalance * MoneyScale \in Int
  BY EngineAssumption DEF MoneyScale
<1>7. HasPositions(account) /\ HasCash(account)
  BY <1>5, <1>6 DEF HasPositions, HasCash
<1>8. AccountMatchesRecords
  <2>1. StartingBalance * MoneyScale = StartingBalance * MoneyScale - 0
    BY <1>6
  <2>2. \A i \in Instruments : account.qty[i] = 0
    BY <1>5
  <2> QED BY <1>2, <1>3, <1>4, <1>5, <2>1, <2>2, Zenon DEF AccountMatchesRecords
<1>9. OpenInv
  BY DEF Init, OpenInv
<1> QED BY <1>7, <1>8, <1>9 DEF MatchInv

-----------------------------------------------------------------------------
(* The theorems *)

(* Both hold in every behaviour; the fills being fair is what makes them numbers. *)
LEMMA MatchInvariant == Spec => [](MatchInv /\ OpenInv)
BY InitMatches, NextMatches, InvInvariant, TimesSane, FillsAreFair, PTL DEF Spec

(***************************************************************************)
(* While a run lasts, cash and every position are exactly what the trade   *)
(* records say: no fill is reported twice, dropped, or reported with other *)
(* terms than the recorded ones, however many fills one event makes.       *)
(***************************************************************************)
THEOREM AccountMatches == Spec => []AccountMatchesRecords
BY MatchInvariant, PTL DEF MatchInv

(***************************************************************************)
(* The settlement leaves no position open but those its own fills of       *)
(* buffered orders made, in whatever order the engines are settled.        *)
(***************************************************************************)
THEOREM OpenWasBuffered == Spec => []OpenAtEndWasBuffered
<1>1. OpenInv => OpenAtEndWasBuffered
  BY DEF OpenInv, OpenAtEndWasBuffered
<1> QED BY <1>1, MatchInvariant, PTL
=============================================================================
