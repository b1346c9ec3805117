-------------------------- MODULE EngineFills_proofs --------------------------
(***************************************************************************)
(* Machine-checked proofs, for every value of the constants, about the     *)
(* terms of a fill: no limit is exceeded, no stop improved, the right fee  *)
(* is charged, and a market order that meets the book stays inside it.     *)
(*                                                                         *)
(* Each way to a fill (bar, quote, trade, book, settlement) is shown to    *)
(* give fills with FairFill; one lemma shows that recording fair fills of  *)
(* held orders keeps the invariant FairInv, which says the same of every   *)
(* record.                                                                 *)
(***************************************************************************)
EXTENDS OrderBookEngine_proofs, SumTheorems

-----------------------------------------------------------------------------
(* Fair fills *)

(* What the fill functions need to know of an order. *)
OrderTerms(o) ==
    /\ o.instrument \in Instruments
    /\ o.qty \in Quantity
    /\ o.limit \in Optional(Price)
    /\ o.stop \in Optional(Price)

(* The fee rate an order pays that was filled by the handler `via'. *)
RateFollows(fill, o, via) ==
    LET schedule == FeeSchedule[o.instrument]
        rested   == o.type = "Limit" /\ via # "book"
    IN  schedule # None /\ schedule # <<>> =>
          fill.fee = fill.notional *
             (IF rested THEN schedule[1].maker ELSE schedule[1].taker)

LimitKept(fill, o) ==
    o.type = "Limit" =>
        /\ o.side = "Buy"  => fill.notional <= o.limit * fill.qty
        /\ o.side = "Sell" => fill.notional >= o.limit * fill.qty

StopKept(fill, o) ==
    o.type = "Stop" /\ o.limit = None =>
        /\ o.side = "Buy"  => fill.notional >= o.stop * fill.qty
        /\ o.side = "Sell" => fill.notional <= o.stop * fill.qty

FairFill(fill, o, via) ==
    /\ fill.qty \in 1..o.qty
    /\ fill.notional \in Nat
    /\ fill.fee \in Nat
    /\ LimitKept(fill, o)
    /\ StopKept(fill, o)
    /\ RateFollows(fill, o, via)

(* The rate is a natural, and that of the first tier if there is one. *)
LEMMA FeeRate ==
    ASSUME Inv, NEW i \in Instruments, NEW isMaker \in BOOLEAN
    PROVE  /\ FeeBps(isMaker, FeeSchedule[i], EffectiveTaker(i)) \in Nat
           /\ FeeSchedule[i] # None /\ FeeSchedule[i] # <<>> =>
                FeeBps(isMaker, FeeSchedule[i], EffectiveTaker(i)) =
                  IF isMaker THEN FeeSchedule[i][1].maker ELSE FeeSchedule[i][1].taker
<1>1. FeeSchedule[i] \in Optional(Seq(FeeTier))
  BY EngineAssumption
<1>2. EffectiveTaker(i) \in Optional(Nat)
  BY EngineAssumption DEF Inv, TypeOK, EffectiveTaker, Optional, Bps
<1>3. CASE FeeSchedule[i] # None /\ FeeSchedule[i] # <<>>
  <2>1. FeeSchedule[i] \in Seq(FeeTier) /\ FeeSchedule[i] # <<>>
    BY <1>1, <1>3 DEF Optional
  <2>2. Head(FeeSchedule[i]) = FeeSchedule[i][1] /\ FeeSchedule[i][1] \in FeeTier
    BY <2>1
  <2> QED BY <1>3, <2>2 DEF FeeBps, FeeTier, Bps
<1>4. CASE ~(FeeSchedule[i] # None /\ FeeSchedule[i] # <<>>)
  BY <1>2, <1>4 DEF FeeBps, Optional, DefaultMakerBps, DefaultTakerBps
<1> QED BY <1>3, <1>4

(* The product of two naturals is one. *)
LEMMA ProductNat ==
    ASSUME NEW a \in Nat, NEW b \in Nat
    PROVE  a * b \in Nat
OBVIOUS

(* A made fill is fair if its price is, and its rate is the one to pay. *)
LEMMA MadeFill ==
    ASSUME Inv, NEW o, OrderTerms(o), NEW via, NEW isMaker \in BOOLEAN,
           NEW qty \in 1..o.qty, NEW notional \in Nat, NEW partial,
           isMaker <=> (o.type = "Limit" /\ via # "book"),
           LimitKept([qty |-> qty, notional |-> notional], o),
           StopKept([qty |-> qty, notional |-> notional], o)
    PROVE  FairFill(MakeFill(qty, notional,
                             FeeBps(isMaker, FeeSchedule[o.instrument],
                                    EffectiveTaker(o.instrument)), partial), o, via)
<1> DEFINE i == o.instrument
           bps == FeeBps(isMaker, FeeSchedule[i], EffectiveTaker(i))
           fill == MakeFill(qty, notional, bps, partial)
<1>1. /\ bps \in Nat
      /\ FeeSchedule[i] # None /\ FeeSchedule[i] # <<>> =>
           bps = IF isMaker THEN FeeSchedule[i][1].maker ELSE FeeSchedule[i][1].taker
  BY FeeRate DEF OrderTerms
<1> HIDE DEF bps
<1>2. fill.qty = qty /\ fill.notional = notional /\ fill.fee = notional * bps
  BY DEF MakeFill
<1>3. fill.fee \in Nat
  BY <1>1, <1>2, ProductNat
<1> HIDE DEF fill
<1>4. LimitKept(fill, o) /\ StopKept(fill, o)
  BY <1>2 DEF LimitKept, StopKept
<1>5. RateFollows(fill, o, via)
  BY <1>1, <1>2 DEF RateFollows
<1> QED BY <1>2, <1>3, <1>4, <1>5 DEF FairFill, fill, bps

(* The whole order at one price: bars, trades and settlement. *)
LEMMA WholeFillIsFair ==
    ASSUME Inv, NEW o, OrderTerms(o), NEW price \in Price, NEW via, via # "book",
           o.type = "Limit" => price = o.limit,
           o.type = "Stop" /\ o.limit = None =>
               /\ o.stop # None
               /\ o.side = "Buy" => price >= o.stop
               /\ o.side = "Sell" => price <= o.stop
    PROVE  FairFill(FillWhole(o.instrument, o, price), o, via)
<1>1. o.qty \in Nat /\ o.qty \in 1..o.qty /\ price \in Nat
  BY DEF OrderTerms, Quantity, Price
<1>2. o.qty * price \in Nat
  BY <1>1, ProductNat
<1> DEFINE terms == [qty |-> o.qty, notional |-> o.qty * price]
<1>3. LimitKept(terms, o)
  BY <1>1 DEF LimitKept
<1>4. StopKept(terms, o)
  <2> SUFFICES ASSUME o.type = "Stop", o.limit = None
               PROVE  /\ o.side = "Buy"  => o.qty * price >= o.stop * o.qty
                      /\ o.side = "Sell" => o.qty * price <= o.stop * o.qty
    BY DEF StopKept
  <2>1. o.stop \in Nat
    BY DEF OrderTerms, Optional, Price
  <2> QED BY <1>1, <2>1
<1> QED BY <1>1, <1>2, <1>3, <1>4, MadeFill DEF FillWhole, FillAtPrice

-----------------------------------------------------------------------------
(* Fills against the book *)

(* The touch of a book is a displayed price, best of the opposing side. *)
LEMMA TouchIsDisplayed ==
    ASSUME NEW b, IsBook(b), NEW side, Touch(b, side) # None
    PROVE  /\ side \in {"Buy", "Sell"}
           /\ Touch(b, side) \in DOMAIN Opposing(b, side)
           /\ Touch(b, side) \in Price
           /\ Opposing(b, side)[Touch(b, side)] \in Quantity
<1>1. CASE side = "Buy"
  <2> DEFINE S == DOMAIN b.asks
  <2>1. S # {} /\ Touch(b, side) = Min(S) /\ Opposing(b, side) = b.asks
    BY <1>1 DEF Touch, BestAsk, Opposing
  <2>2. S \in SUBSET Nat /\ S \subseteq Price
    BY DEF IsBook, IsLevels, Price
  <2>3. Min(S) \in S
    BY <2>1, <2>2, MinIsLeast
  <2> QED BY <1>1, <2>1, <2>2, <2>3 DEF IsBook, IsLevels
<1>2. CASE side = "Sell"
  <2> DEFINE S == DOMAIN b.bids
  <2>1. S # {} /\ Touch(b, side) = Max(S) /\ Opposing(b, side) = b.bids
    BY <1>2 DEF Touch, BestBid, Opposing
  <2>2. S \in SUBSET Nat /\ S \subseteq Price /\ IsFiniteSet(S)
    BY DEF IsBook, IsLevels, Price
  <2>3. Max(S) \in S
    BY <2>1, <2>2, MaxIsGreatest
  <2> QED BY <1>2, <2>1, <2>2, <2>3 DEF IsBook, IsLevels
<1>3. CASE side \notin {"Buy", "Sell"}
  BY <1>3 DEF Touch
<1> QED BY <1>1, <1>2, <1>3

(* The levels an order trades against. *)
LEMMA OpposingLevels ==
    ASSUME NEW b, IsBook(b), NEW side
    PROVE  /\ DOMAIN Opposing(b, side) \in SUBSET Nat
           /\ DOMAIN Opposing(b, side) \subseteq Price
           /\ IsFiniteSet(DOMAIN Opposing(b, side))
           /\ \A p \in DOMAIN Opposing(b, side) : Opposing(b, side)[p] \in Quantity
BY DEF IsBook, IsLevels, Opposing, Price

(* A market order at the touch gets what is displayed there. *)
LEMMA L1IsFair ==
    ASSUME Inv, NEW o, OrderTerms(o), o.type = "Market", NEW b, IsBook(b), NEW via,
           FillL1(o, b, FeeSchedule[o.instrument], EffectiveTaker(o.instrument)) # None
    PROVE  LET fill == FillL1(o, b, FeeSchedule[o.instrument], EffectiveTaker(o.instrument))
           IN  FairFill(fill, o, via) /\ InsideBook(Opposing(b, o.side), fill)
<1> DEFINE levels == Opposing(b, o.side)
           touch == Touch(b, o.side)
           qty == Min({o.qty, levels[touch]})
           fill == MakeFill(qty, qty * touch,
                            FeeBps(FALSE, FeeSchedule[o.instrument],
                                   EffectiveTaker(o.instrument)), qty < o.qty)
<1>1. touch # None /\ FillL1(o, b, FeeSchedule[o.instrument],
                             EffectiveTaker(o.instrument)) = fill
  BY DEF FillL1
<1>2. touch \in DOMAIN levels /\ touch \in Nat /\ levels[touch] \in Nat /\ levels[touch] > 0
  BY <1>1, TouchIsDisplayed DEF Price, Quantity
<1>3. /\ DOMAIN levels \in SUBSET Nat /\ IsFiniteSet(DOMAIN levels)
      /\ \A p \in DOMAIN levels : levels[p] \in Nat
  BY OpposingLevels DEF Quantity
<1> HIDE DEF levels, touch
<1>4. o.qty \in Nat /\ o.qty > 0
  BY DEF OrderTerms, Quantity
<1>5. qty \in 1..o.qty /\ qty <= levels[touch] /\ qty \in Nat
  <2>1. o.qty \in Int /\ levels[touch] \in Int
    BY <1>2, <1>4
  <2>2. qty \in {o.qty, levels[touch]} /\ qty <= o.qty /\ qty <= levels[touch]
    BY <2>1, PairExtrema
  <2> HIDE DEF qty
  <2> QED BY <1>2, <1>4, <2>2
<1> HIDE DEF qty
<1>6. qty * touch \in Nat
  BY <1>2, <1>5, ProductNat
<1>7. LimitKept([qty |-> qty, notional |-> qty * touch], o)
      /\ StopKept([qty |-> qty, notional |-> qty * touch], o)
  BY DEF LimitKept, StopKept
<1>8. FairFill(fill, o, via)
  BY <1>5, <1>6, <1>7, MadeFill
<1>9. fill.qty = qty /\ fill.notional = qty * touch
  BY DEF MakeFill
<1> HIDE DEF fill
<1>10. InsideBook(levels, fill)
  <2>1. levels[touch] <= Depth(levels, DOMAIN levels) /\ Depth(levels, DOMAIN levels) \in Nat
    <3>1. {touch} \in SUBSET DOMAIN levels
      BY <1>2
    <3>2. SumFunctionOnSet(levels, {touch}) = levels[touch]
      <4>1. SumFunctionOnSet(levels, {} \union {touch}) = SumFunctionOnSet(levels, {}) + levels[touch]
        BY <1>2, SumAdd, FS_EmptySet
      <4>2. {} \union {touch} = {touch} /\ SumFunctionOnSet(levels, {}) = 0
        BY SumEmpty
      <4> QED BY <1>2, <4>1, <4>2
    <3>3. /\ SumFunctionOnSet(levels, DOMAIN levels) \in Nat
          /\ SumFunctionOnSet(levels, {touch}) <= SumFunctionOnSet(levels, DOMAIN levels)
      BY <1>3, <3>1, SumNatural
    <3> QED BY <3>2, <3>3 DEF Depth
  <2>2. Min(DOMAIN levels) \in Nat /\ Min(DOMAIN levels) <= touch
    BY <1>2, <1>3, MinIsLeast
  <2>3. Max(DOMAIN levels) \in Nat /\ touch <= Max(DOMAIN levels)
    BY <1>2, <1>3, MaxIsGreatest
  <2>4. Min(DOMAIN levels) * qty <= qty * touch /\ qty * touch <= Max(DOMAIN levels) * qty
    BY <1>2, <1>5, <2>2, <2>3
  <2> QED BY <1>2, <1>5, <1>9, <2>1, <2>4 DEF InsideBook
<1> QED BY <1>1, <1>8, <1>10 DEF levels

(* A marketable limit order takes the touch, which its limit allows. *)
LEMMA LimitIsFair ==
    ASSUME Inv, NEW o, OrderTerms(o), o.type = "Limit", NEW b, IsBook(b),
           TryFillLimit(o, b, FeeSchedule[o.instrument],
                        EffectiveTaker(o.instrument)) # None
    PROVE  FairFill(TryFillLimit(o, b, FeeSchedule[o.instrument],
                                 EffectiveTaker(o.instrument)), o, "book")
<1> DEFINE touch == Touch(b, o.side)
           fill == MakeFill(o.qty, o.qty * touch,
                            FeeBps(FALSE, FeeSchedule[o.instrument],
                                   EffectiveTaker(o.instrument)), FALSE)
<1>1. Marketable(o, touch)
      /\ TryFillLimit(o, b, FeeSchedule[o.instrument],
                      EffectiveTaker(o.instrument)) = fill
  BY DEF TryFillLimit
<1>2. o.side \in {"Buy", "Sell"} /\ touch \in Nat
  BY <1>1, TouchIsDisplayed DEF Marketable, Price
<1>3. o.qty \in Nat /\ o.qty \in 1..o.qty /\ o.limit \in Nat
  BY <1>1 DEF OrderTerms, Quantity, Price, Optional, Marketable
<1> HIDE DEF touch
<1>4. o.qty * touch \in Nat
  BY <1>2, <1>3, ProductNat
<1>5. LimitKept([qty |-> o.qty, notional |-> o.qty * touch], o)
  <2>1. CASE o.side = "Buy"
    <3>1. touch <= o.limit
      BY <1>1, <2>1 DEF Marketable
    <3>2. o.qty * touch <= o.limit * o.qty
      BY <1>2, <1>3, <3>1
    <3> QED BY <2>1, <3>2 DEF LimitKept
  <2>2. CASE o.side = "Sell"
    <3>1. touch >= o.limit
      BY <1>1, <2>2 DEF Marketable
    <3>2. o.qty * touch >= o.limit * o.qty
      BY <1>2, <1>3, <3>1
    <3> QED BY <2>2, <3>2 DEF LimitKept
  <2> QED BY <1>2, <2>1, <2>2
<1>6. StopKept([qty |-> o.qty, notional |-> o.qty * touch], o)
  BY DEF StopKept
<1> QED BY <1>1, <1>3, <1>4, <1>5, <1>6, MadeFill

(***************************************************************************)
(* What the walk takes: from displayed levels, no more than a level shows, *)
(* and no more in all than is wanted.  The last is not plain from any one  *)
(* level: the worst level visited gives at most what all better ones left  *)
(* over, and those gave no more than they show.                            *)
(***************************************************************************)
LEMMA WalkTakes ==
    ASSUME NEW b, IsBook(b), NEW side \in {"Buy", "Sell"}, NEW qty \in Quantity
    PROVE  LET levels == Opposing(b, side)
               taken == Walk(b, side, qty)
           IN  /\ DOMAIN taken \subseteq DOMAIN levels
               /\ \A p \in DOMAIN taken : taken[p] \in 1..levels[p]
               /\ DOMAIN taken # {} => Depth(taken, DOMAIN taken) \in 1..qty
<1> DEFINE levels == Opposing(b, side)
           Before(p) == {q \in DOMAIN levels : Better(side, q, p)}
           wanted(p) == qty - Depth(levels, Before(p))
           visited == {p \in DOMAIN levels : wanted(p) > 0}
           taken == [p \in visited |-> Min({wanted(p), levels[p]})]
<1>0. Walk(b, side, qty) = taken
  BY DEF Walk
<1>1. /\ DOMAIN levels \in SUBSET Nat /\ IsFiniteSet(DOMAIN levels)
      /\ \A p \in DOMAIN levels : levels[p] \in Nat /\ levels[p] > 0
  BY OpposingLevels DEF Quantity
<1> HIDE DEF levels
<1>2. DOMAIN taken = visited /\ visited \subseteq DOMAIN levels
  OBVIOUS
<1>3. \A S \in SUBSET DOMAIN levels : IsFiniteSet(S) /\ Depth(levels, S) \in Nat
  BY <1>1, FS_Subset, SumNatural DEF Depth
<1>4. qty \in Nat /\ qty > 0
  BY DEF Quantity
<1>5. \A p \in visited : wanted(p) \in Nat /\ wanted(p) > 0
  BY <1>3, <1>4
<1>6. \A p \in visited : taken[p] \in 1..levels[p] /\ taken[p] <= wanted(p)
  <2> SUFFICES ASSUME NEW p \in visited
               PROVE  taken[p] \in 1..levels[p] /\ taken[p] <= wanted(p)
    OBVIOUS
  <2>1. taken[p] = Min({wanted(p), levels[p]})
    OBVIOUS
  <2>2. wanted(p) \in Int /\ levels[p] \in Int /\ wanted(p) > 0 /\ levels[p] > 0
    BY <1>1, <1>2, <1>5
  <2> HIDE DEF taken, wanted, visited
  <2>3. /\ taken[p] \in {wanted(p), levels[p]}
        /\ taken[p] <= wanted(p) /\ taken[p] <= levels[p]
    <3> DEFINE x == wanted(p)
               y == levels[p]
    <3> HIDE DEF x, y
    <3>1. x \in Int /\ y \in Int
      BY <2>2 DEF x, y
    <3>2. Min({x, y}) \in {x, y} /\ Min({x, y}) <= x /\ Min({x, y}) <= y
      BY <3>1, PairExtrema
    <3>3. taken[p] = Min({x, y})
      BY <2>1 DEF x, y
    <3> QED BY <3>2, <3>3 DEF x, y
  <2>4. taken[p] \in Int /\ taken[p] > 0
    BY <2>2, <2>3
  <2>5. \A x, y \in Int : x > 0 /\ x <= y => x \in 1..y
    OBVIOUS
  <2>6. taken[p] \in 1..levels[p]
    BY <2>2, <2>3, <2>4, <2>5
  <2> QED BY <2>3, <2>6
<1>7. ASSUME visited # {}
      PROVE  Depth(taken, visited) \in 1..qty
  <2>1. PICK w \in visited : \A p \in visited \ {w} : Better(side, p, w)
    <3> DEFINE most == Max(visited)
               least == Min(visited)
    <3>1. visited \in SUBSET Nat /\ IsFiniteSet(visited)
      BY <1>1, <1>2, <1>3
    <3> HIDE DEF visited
    <3>2. CASE side = "Buy"
      <4>1. most \in visited /\ \A p \in visited : p <= most
        BY <1>7, <3>1, MaxIsGreatest
      <4> HIDE DEF most
      <4>2. \A p \in visited \ {most} : p < most
        BY <3>1, <4>1
      <4> QED BY <3>2, <4>1, <4>2 DEF Better
    <3>3. CASE side = "Sell"
      <4>1. least \in visited /\ \A p \in visited : least <= p
        BY <1>7, <3>1, MinIsLeast
      <4> HIDE DEF least
      <4>2. \A p \in visited \ {least} : p > least
        BY <3>1, <4>1
      <4> QED BY <3>3, <4>1, <4>2 DEF Better
    <3> QED BY <3>2, <3>3
  <2> DEFINE others == visited \ {w}
  <2>2. others \in SUBSET Before(w) /\ Before(w) \in SUBSET DOMAIN levels /\ IsFiniteSet(others)
    BY <1>2, <1>3, <2>1
  <2>5. wanted(w) = qty - Depth(levels, Before(w))
    OBVIOUS
  <2>6. others \union {w} = visited /\ w \notin others /\ others \subseteq visited
    OBVIOUS
  <2> HIDE DEF others, taken, visited, Before, wanted
  <2>3. \A p \in others : taken[p] \in Nat /\ levels[p] \in Nat /\ taken[p] <= levels[p]
    BY <1>1, <1>2, <1>6, <2>6
  <2>4. taken[w] \in Nat /\ taken[w] > 0 /\ taken[w] <= wanted(w)
    BY <1>1, <1>2, <1>6
  <2>7. Depth(taken, visited) = Depth(taken, others) + taken[w]
    <3>1. \A p \in others \union {w} : taken[p] \in Int
      BY <2>3, <2>4
    <3>2. SumFunctionOnSet(taken, others \union {w}) = SumFunctionOnSet(taken, others) + taken[w]
      BY <2>2, <2>6, <3>1, SumAdd
    <3> QED BY <2>6, <3>2 DEF Depth
  <2>8. Depth(taken, others) \in Nat /\ Depth(taken, others) <= Depth(levels, others)
    BY <2>2, <2>3, SumNatural, SumMonotonic DEF Depth
  <2>9. /\ Depth(levels, Before(w)) \in Nat
        /\ Depth(levels, others) <= Depth(levels, Before(w))
        /\ Depth(levels, others) \in Nat
    <3>1. IsFiniteSet(Before(w)) /\ \A p \in Before(w) : levels[p] \in Nat
      BY <1>1, <1>3, <2>2
    <3>2. others \in SUBSET DOMAIN levels
      BY <2>2
    <3> QED BY <1>3, <2>2, <3>1, <3>2, SumNatural DEF Depth
  <2> QED BY <1>4, <2>4, <2>5, <2>7, <2>8, <2>9
<1> HIDE DEF taken, visited
<1> QED BY <1>0, <1>2, <1>6, <1>7 DEF levels

(* A market order that walks the book pays between best and worst price. *)
LEMMA L2IsFair ==
    ASSUME Inv, NEW o, OrderTerms(o), o.type = "Market", o.side \in Sides,
           NEW b, IsBook(b), NEW via,
           FillL2(o, b, FeeSchedule[o.instrument], EffectiveTaker(o.instrument)) # None
    PROVE  LET fill == FillL2(o, b, FeeSchedule[o.instrument], EffectiveTaker(o.instrument))
           IN  FairFill(fill, o, via) /\ InsideBook(Opposing(b, o.side), fill)
<1> DEFINE levels == Opposing(b, o.side)
           prices == DOMAIN levels
           taken == Walk(b, o.side, o.qty)
           S == DOMAIN taken
           cost == [p \in S |-> p * taken[p]]
           qty == Depth(taken, S)
           notional == SumFunctionOnSet(cost, S)
           fill == MakeFill(qty, notional,
                            FeeBps(FALSE, FeeSchedule[o.instrument],
                                   EffectiveTaker(o.instrument)), qty < o.qty)
<1>1. /\ o.side \in {"Buy", "Sell"} /\ S # {}
      /\ FillL2(o, b, FeeSchedule[o.instrument], EffectiveTaker(o.instrument)) = fill
  BY DEF FillL2, SumFunction, Sides
<1>2. /\ S \subseteq prices
      /\ \A p \in S : taken[p] \in 1..levels[p]
      /\ qty \in 1..o.qty
  BY <1>1, WalkTakes DEF OrderTerms
<1>3. /\ prices \in SUBSET Nat /\ IsFiniteSet(prices)
      /\ \A p \in prices : levels[p] \in Nat
  BY OpposingLevels DEF Quantity
<1>4. \A p \in S : cost[p] = p * taken[p]
  OBVIOUS
<1> HIDE DEF levels, prices, taken, S, cost
<1>5. S \in SUBSET prices /\ IsFiniteSet(S) /\ \A p \in S : p \in Nat /\ taken[p] \in Nat
  <2>1. S \in SUBSET prices
    BY <1>2
  <2>2. IsFiniteSet(S)
    BY <1>3, <2>1, FS_Subset
  <2>3. ASSUME NEW p \in S
        PROVE  p \in Nat /\ taken[p] \in Nat
    <3>1. p \in Nat /\ levels[p] \in Nat /\ taken[p] \in 1..levels[p]
      BY <1>2, <1>3
    <3> QED BY <3>1
  <2> QED BY <2>1, <2>2, <2>3
<1>6. \A p \in S : cost[p] \in Nat
  BY <1>4, <1>5, ProductNat
<1>7. notional \in Nat
  BY <1>5, <1>6, SumNatural
<1>8. qty \in Nat
  BY <1>5, SumNatural DEF Depth
<1>9. LimitKept([qty |-> qty, notional |-> notional], o)
      /\ StopKept([qty |-> qty, notional |-> notional], o)
  BY DEF LimitKept, StopKept
<1>10. FairFill(fill, o, via)
  <2> HIDE DEF qty, notional
  <2> QED BY <1>2, <1>7, <1>9, MadeFill
<1>11. qty <= Depth(levels, prices)
  <2>1. Depth(levels, S) \in Nat /\ Depth(levels, prices) \in Nat
        /\ Depth(levels, S) <= Depth(levels, prices)
    BY <1>3, <1>5, FS_Subset, SumNatural DEF Depth
  <2>2. \A p \in S : taken[p] \in Int /\ levels[p] \in Int /\ taken[p] <= levels[p]
    BY <1>2, <1>3, <1>5
  <2>3. qty <= Depth(levels, S)
    BY <1>5, <2>2, SumMonotonic DEF Depth
  <2> HIDE DEF qty
  <2> QED BY <1>8, <2>1, <2>3
<1>12. Min(prices) * qty <= notional /\ notional <= Max(prices) * qty
  <2> DEFINE lo == Min(prices)
             hi == Max(prices)
             low == [p \in S |-> lo * taken[p]]
             high == [p \in S |-> hi * taken[p]]
  <2>0. prices # {}
    BY <1>1, <1>5
  <2>1. lo \in Nat /\ hi \in Nat /\ \A p \in prices : lo <= p /\ p <= hi
    BY <1>3, <2>0, MinIsLeast, MaxIsGreatest
  <2>2. \A p \in S : low[p] = lo * taken[p] /\ high[p] = hi * taken[p]
    OBVIOUS
  <2> HIDE DEF lo, hi, low, high
  <2>3. ASSUME NEW p \in S
        PROVE  /\ low[p] \in Int /\ high[p] \in Int /\ cost[p] \in Int
               /\ low[p] <= cost[p] /\ cost[p] <= high[p]
    <3>1. p \in Nat /\ taken[p] \in Nat /\ lo <= p /\ p <= hi
      BY <1>5, <2>1
    <3>2. lo * taken[p] <= p * taken[p] /\ p * taken[p] <= hi * taken[p]
      BY <2>1, <3>1
    <3>3. lo * taken[p] \in Int /\ hi * taken[p] \in Int
      BY <2>1, <3>1
    <3> QED BY <1>4, <1>6, <2>2, <3>2, <3>3
  <2>4. SumFunctionOnSet(low, S) = lo * qty /\ SumFunctionOnSet(high, S) = hi * qty
    BY <1>5, <2>1, <2>2, SumScaled DEF Depth
  <2>5. SumFunctionOnSet(low, S) <= notional /\ notional <= SumFunctionOnSet(high, S)
    BY <1>5, <2>3, SumMonotonic
  <2> QED BY <2>4, <2>5 DEF lo, hi
<1>13. fill.qty = qty /\ fill.notional = notional
  BY DEF MakeFill
<1> HIDE DEF fill, qty, notional
<1>14. InsideBook(levels, fill)
  BY <1>11, <1>12, <1>13 DEF InsideBook, prices
<1> QED BY <1>1, <1>10, <1>14 DEF levels, fill, qty, notional, S, taken, cost

(* An order against the book it meets on arrival. *)
LEMMA ImmediateIsFair ==
    ASSUME Inv, NEW order \in Order,
           ImmediateFill(order.instrument, order) # None
    PROVE  LET i == order.instrument
               fill == ImmediateFill(i, order)
           IN  /\ FairFill(fill, order, "book")
               /\ order.type = "Market" =>
                    InsideBook(Opposing(book[i], order.side), fill)
<1> DEFINE i == order.instrument
           schedule == FeeSchedule[i]
           taker == EffectiveTaker(i)
           walked == FillL2(order, book[i], schedule, taker)
           touched == FillL1(order, book[i], schedule, taker)
           limited == TryFillLimit(order, book[i], schedule, taker)
           fill == ImmediateFill(i, order)
<1>1. OrderTerms(order) /\ order.side \in Sides /\ i \in Instruments /\ IsBook(book[i])
  BY DEF OrderTerms, Order, Inv, TypeOK
<1>2. /\ order.type = "Market" =>
           (walked # None /\ fill = walked) \/ (touched # None /\ fill = touched)
      /\ order.type = "Limit" => fill = limited /\ limited # None
      /\ order.type \in {"Market", "Limit"}
  BY DEF ImmediateFill
<1> QED BY <1>1, <1>2, L1IsFair, L2IsFair, LimitIsFair

-----------------------------------------------------------------------------
(* What the handlers fill *)

BarBought(i, ts) == Eligible(pending[i], ts)
BarChecked(i, ts) == {n \in Eligible(resting[i], ts) : Checkable(orders[n])}
BarReached(i, ts, bar) == {n \in BarChecked(i, ts) : CrossedByBar(orders[n], bar)}
BarExpired(i, ts, bar) ==
    {n \in BarChecked(i, ts) \ BarReached(i, ts, bar) : orders[n].tif # "Gtc"}
BarFills(i, ts, bar) ==
    [n \in BarBought(i, ts) \union BarReached(i, ts, bar) |->
       FillWhole(i, orders[n], IF n \in BarBought(i, ts) THEN bar.open
                               ELSE BarFillPrice(orders[n], bar))]

QuotedBook(i, q) ==
    ApplyDelta(ApplyDelta(book[i], "Buy", q.bid, q.bidSize, "Modify"),
               "Sell", q.ask, q.askSize, "Modify")
QuoteFill(i, q, n) == FillL1(orders[n], QuotedBook(i, q), FeeSchedule[i], EffectiveTaker(i))
QuoteFills(i, ts, q) ==
    [n \in {m \in Eligible(pending[i], ts) : QuoteFill(i, q, m) # None} |->
       QuoteFill(i, q, n)]

TradeReached(i, ts, price) ==
    {n \in Eligible(resting[i], ts) :
       Checkable(orders[n]) /\ CrossedByTrade(orders[n], price)}
TradeFills(i, ts, price) ==
    [n \in TradeReached(i, ts, price) |->
       FillWhole(i, orders[n], TradeFillPrice(orders[n]))]

(* The handlers in these words. *)
LEMMA BarStep ==
    ASSUME NEW i, NEW ts, NEW bar, HandleBar(i, ts, bar)
    PROVE  /\ Record(BarFills(i, ts, bar), BarExpired(i, ts, bar), ts, "bar")
           /\ account' = UpdateMark(ReportFills(ReportFills(account, BarBought(i, ts),
                                                             BarFills(i, ts, bar)),
                                                 BarReached(i, ts, bar),
                                                 BarFills(i, ts, bar)),
                                     i, bar.close)
           /\ UNCHANGED <<book, count, orders, settled>>
BY DEF HandleBar, BarFills, BarExpired, BarReached, BarChecked, BarBought, runVars

(* What a quote records, reports and leaves alone. *)
LEMMA QuoteStep ==
    ASSUME NEW i, NEW ts, NEW q, HandleQuote(i, ts, q)
    PROVE  /\ Record(QuoteFills(i, ts, q), {}, ts, "quote")
           /\ account' = ReportFills(account, DOMAIN QuoteFills(i, ts, q),
                                     QuoteFills(i, ts, q))
           /\ book' = [book EXCEPT ![i] = QuotedBook(i, q)]
           /\ UNCHANGED <<count, orders, settled>>
BY DEF HandleQuote, QuoteFills, QuoteFill, QuotedBook, runVars

(* What a trade records, reports and leaves alone. *)
LEMMA TradeStep ==
    ASSUME NEW i, NEW ts, NEW price, HandleTrade(i, ts, price)
    PROVE  /\ Record(TradeFills(i, ts, price), {}, ts, "trade")
           /\ account' = ReportFills(UpdateMark(account, i, price),
                                     TradeReached(i, ts, price), TradeFills(i, ts, price))
           /\ UNCHANGED <<book, count, orders, settled>>
BY DEF HandleTrade, TradeFills, TradeReached, runVars

(* An order the engine holds has terms and belongs to the engine. *)
LEMMA HeldTerms ==
    ASSUME Inv, TimeInv, NEW i \in Instruments, NEW n \in pending[i] \union resting[i]
    PROVE  /\ OrderTerms(orders[n]) /\ orders[n].instrument = i
           /\ orders[n] \in SubmittedOrder
           /\ n \in OrderIds
           /\ n \in pending[i] => orders[n].type = "Market"
           /\ n \in resting[i] => orders[n].type # "Market"
<1>1. n \in Submitted
  BY HeldIsSubmitted
<1>2. orders[n] \in SubmittedOrder
  BY <1>1 DEF TimeInv
<1>3. OrderTerms(orders[n])
  BY <1>2 DEF OrderTerms, SubmittedOrder
<1> QED BY <1>2, <1>3 DEF Inv, TypeOK, OrderConservation

(* The fills of a handler are fair, whatever the bar, quote or trade. *)
LEMMA BarFillsFair ==
    ASSUME Inv, TimeInv, NEW i \in Instruments, NEW ts, NEW bar,
           bar.open \in Price
    PROVE  \A n \in DOMAIN BarFills(i, ts, bar) :
              FairFill(BarFills(i, ts, bar)[n], orders[n], "bar")
<1> SUFFICES ASSUME NEW n \in BarBought(i, ts) \union BarReached(i, ts, bar)
             PROVE  FairFill(BarFills(i, ts, bar)[n], orders[n], "bar")
  BY DEF BarFills
<1> DEFINE o == orders[n]
<1>1. CASE n \in BarBought(i, ts)
  <2>1. OrderTerms(o) /\ o.instrument = i /\ o.type = "Market"
    BY <1>1, HeldTerms DEF BarBought, Eligible
  <2>2. BarFills(i, ts, bar)[n] = FillWhole(o.instrument, o, bar.open)
    BY <1>1, <2>1 DEF BarFills
  <2> QED BY <2>1, <2>2, WholeFillIsFair
<1>2. CASE n \notin BarBought(i, ts)
  <2>1. n \in BarReached(i, ts, bar)
    BY <1>2
  <2>2. OrderTerms(o) /\ o.instrument = i /\ Checkable(o)
    BY <2>1, HeldTerms DEF BarReached, BarChecked, Eligible
  <2> DEFINE price == BarFillPrice(o, bar)
  <2>3. BarFills(i, ts, bar)[n] = FillWhole(o.instrument, o, price)
    BY <1>2, <2>2 DEF BarFills
  <2>4. CASE o.type = "Limit"
    <3>1. price = o.limit /\ price \in Price
      BY <2>2, <2>4 DEF BarFillPrice, Checkable, OrderTerms, Optional
    <3> QED BY <2>2, <2>3, <2>4, <3>1, WholeFillIsFair
  <2>5. CASE o.type # "Limit"
    <3> DEFINE worst == Max({o.stop, bar.open})
               best == Min({o.stop, bar.open})
    <3>1. /\ o.stop # None /\ o.stop \in Int /\ o.stop > 0
          /\ bar.open \in Int /\ bar.open > 0
      BY <2>2, <2>5 DEF Checkable, OrderTerms, Optional, Price
    <3>2. price = IF o.side = "Buy" THEN worst ELSE best
      BY <2>5 DEF BarFillPrice
    <3>5. /\ worst \in {o.stop, bar.open} /\ o.stop <= worst
          /\ best \in {o.stop, bar.open} /\ best <= o.stop
      BY <3>1, PairExtrema
    <3> HIDE DEF price, worst, best
    <3>3. /\ price \in {o.stop, bar.open}
          /\ o.side = "Buy" => price >= o.stop
          /\ o.side = "Sell" => price <= o.stop
      BY <3>1, <3>2, <3>5
    <3>4. price \in Price
      BY <3>1, <3>3 DEF Price
    <3> QED BY <2>2, <2>3, <2>5, <3>1, <3>3, <3>4, WholeFillIsFair
  <2> QED BY <2>4, <2>5
<1> QED BY <1>1, <1>2

(* A quote fills at the touch, out of the book that it has just updated. *)
LEMMA QuoteFillsFair ==
    ASSUME Inv, TimeInv, NEW i \in Instruments, NEW ts, NEW q, IsBook(QuotedBook(i, q))
    PROVE  \A n \in DOMAIN QuoteFills(i, ts, q) :
              /\ FairFill(QuoteFills(i, ts, q)[n], orders[n], "quote")
              /\ InsideBook(Opposing(QuotedBook(i, q), orders[n].side),
                            QuoteFills(i, ts, q)[n])
<1> SUFFICES ASSUME NEW n \in Eligible(pending[i], ts), QuoteFill(i, q, n) # None
             PROVE  /\ FairFill(QuoteFill(i, q, n), orders[n], "quote")
                    /\ InsideBook(Opposing(QuotedBook(i, q), orders[n].side),
                                  QuoteFill(i, q, n))
  BY DEF QuoteFills
<1>1. OrderTerms(orders[n]) /\ orders[n].instrument = i /\ orders[n].type = "Market"
  BY HeldTerms DEF Eligible
<1> QED BY <1>1, L1IsFair DEF QuoteFill

(* A trade fills resting orders at their own prices. *)
LEMMA TradeFillsFair ==
    ASSUME Inv, TimeInv, NEW i \in Instruments, NEW ts, NEW price
    PROVE  \A n \in DOMAIN TradeFills(i, ts, price) :
              FairFill(TradeFills(i, ts, price)[n], orders[n], "trade")
<1> SUFFICES ASSUME NEW n \in TradeReached(i, ts, price)
             PROVE  FairFill(TradeFills(i, ts, price)[n], orders[n], "trade")
  BY DEF TradeFills
<1> DEFINE o == orders[n]
<1>1. OrderTerms(o) /\ o.instrument = i /\ Checkable(o)
  BY HeldTerms DEF TradeReached, Eligible
<1>2. TradeFills(i, ts, price)[n] = FillWhole(o.instrument, o, TradeFillPrice(o))
  BY <1>1 DEF TradeFills
<1>3. /\ TradeFillPrice(o) \in Price
      /\ o.type = "Limit" => TradeFillPrice(o) = o.limit
      /\ o.type = "Stop" /\ o.limit = None => TradeFillPrice(o) = o.stop /\ o.stop # None
  BY <1>1 DEF TradeFillPrice, Checkable, OrderTerms, Optional
<1>4. o.stop # None => o.stop \in Nat
  BY <1>1 DEF OrderTerms, Optional, Price
<1> QED BY <1>1, <1>2, <1>3, <1>4, WholeFillIsFair

(* Settlement fills buffered market orders, which have no limit to respect. *)
LEMMA SettleFillsFair ==
    ASSUME Inv, TimeInv, NEW i \in Instruments, SettlePrice(i) # None
    PROVE  \A n \in DOMAIN SettleFills(i) :
              FairFill(SettleFills(i)[n], orders[n], "settle")
<1> SUFFICES ASSUME NEW n \in pending[i]
             PROVE  FairFill(SettleFills(i)[n], orders[n], "settle")
  BY DEF SettleFills
<1>1. OrderTerms(orders[n]) /\ orders[n].instrument = i /\ orders[n].type = "Market"
  BY HeldTerms
<1>2. SettlePrice(i) \in Price
  BY DEF SettlePrice, Inv, TypeOK, Optional
<1>3. SettleFills(i)[n] = FillWhole(orders[n].instrument, orders[n], SettlePrice(i))
  BY <1>1 DEF SettleFills
<1> QED BY <1>1, <1>2, <1>3, WholeFillIsFair

-----------------------------------------------------------------------------
(* The records of fair fills *)

FairInv == \A n \in Fills : FairFill(log[n][1], orders[n], log[n][1].via)

(* What a step's fills must be for its records to be fair. *)
FairExecution(fills, via) ==
    \A n \in DOMAIN fills :
        /\ FairFill(fills[n], orders'[n], via)
        /\ via \in {"book", "quote"} /\ orders'[n].type = "Market" =>
              InsideBook(Opposing(book'[orders'[n].instrument], orders'[n].side), fills[n])

NewFillsInsideBook ==
    \A n \in NewFills :
        LET o == orders'[n]
            r == log'[n][Len(log'[n])]
        IN  r.via \in {"book", "quote"} /\ o.type = "Market" =>
                InsideBook(Opposing(book'[o.instrument], o.side), r)

(* The first records of orders: who has been filled, and how. *)
LEMMA FirstRecords ==
    ASSUME DOMAIN log = OrderIds, NEW fills, NEW rejects, NEW ts, NEW via,
           Record(fills, rejects, ts, via),
           DOMAIN fills \subseteq OrderIds, rejects \subseteq OrderIds,
           \A n \in DOMAIN fills \union rejects : log[n] = <<>>
    PROVE  /\ \A n \in DOMAIN fills : log'[n] = <<FillRecord(ts, fills[n], via)>>
           /\ \A n \in OrderIds \ (DOMAIN fills \union rejects) : log'[n] = log[n]
           /\ Fills' = Fills \union DOMAIN fills
           /\ Fills \intersect DOMAIN fills = {}
           /\ \A n \in Fills : log'[n] = log[n]
           /\ NewFills = DOMAIN fills
<1>1. \A n \in DOMAIN fills : log'[n] = <<FillRecord(ts, fills[n], via)>>
  BY FirstRecord DEF Record
<1>2. \A n \in rejects \ DOMAIN fills : log'[n] = <<RejectRecord(ts, via)>>
  BY FirstRecord DEF Record
<1>3. \A n \in OrderIds \ (DOMAIN fills \union rejects) : log'[n] = log[n]
  BY DEF Record
<1>4. \A r : <<r>> # <<>> /\ <<r>>[1] = r /\ Len(<<r>>) = 1
  OBVIOUS
<1>5. \A n \in OrderIds : n \in Fills' <=> (n \in Fills \/ n \in DOMAIN fills)
  <2> SUFFICES ASSUME NEW n \in OrderIds
               PROVE  n \in Fills' <=> (n \in Fills \/ n \in DOMAIN fills)
    OBVIOUS
  <2>1. CASE n \in DOMAIN fills
    <3> DEFINE r == FillRecord(ts, fills[n], via)
    <3>1. log'[n] = <<r>> /\ log[n] = <<>>
      BY <1>1, <2>1
    <3>2. r.kind = "fill"
      BY DEF FillRecord
    <3> HIDE DEF r
    <3>3. log'[n] # <<>> /\ log'[n][1] = r /\ Len(log'[n]) = 1
      BY <1>4, <3>1
    <3> QED BY <2>1, <3>1, <3>2, <3>3 DEF Fills
  <2>2. CASE n \in rejects \ DOMAIN fills
    BY <1>2, <1>4, <2>2 DEF Fills, RejectRecord
  <2>3. CASE n \notin DOMAIN fills \union rejects
    BY <1>3, <2>3 DEF Fills
  <2> QED BY <2>1, <2>2, <2>3
<1>6. \A n \in OrderIds : n \in NewFills <=> n \in DOMAIN fills
  <2> SUFFICES ASSUME NEW n \in OrderIds
               PROVE  n \in NewFills <=> n \in DOMAIN fills
    OBVIOUS
  <2>1. CASE n \in DOMAIN fills
    <3> DEFINE r == FillRecord(ts, fills[n], via)
    <3>1. log'[n] = <<r>> /\ log[n] = <<>>
      BY <1>1, <2>1
    <3>2. r.kind = "fill"
      BY DEF FillRecord
    <3> HIDE DEF r
    <3>3. log'[n] # <<>> /\ log'[n][1] = r /\ Len(log'[n]) = 1
      BY <1>4, <3>1
    <3> QED BY <2>1, <3>1, <3>2, <3>3 DEF NewFills
  <2>2. CASE n \in rejects \ DOMAIN fills
    BY <1>2, <1>4, <2>2 DEF NewFills, RejectRecord
  <2>3. CASE n \notin DOMAIN fills \union rejects
    BY <1>3, <2>3 DEF NewFills
  <2> QED BY <2>1, <2>2, <2>3
<1>7. Fills \subseteq OrderIds /\ Fills' \subseteq OrderIds /\ NewFills \subseteq OrderIds
  BY DEF Fills, NewFills
<1>8. \A n \in Fills : n \notin DOMAIN fills \union rejects
  BY DEF Fills
<1> QED BY <1>1, <1>3, <1>5, <1>6, <1>7, <1>8

(* A fair execution of orders without a record keeps every record fair. *)
LEMMA FairRecords ==
    ASSUME Inv, FairInv, NEW fills, NEW rejects, NEW ts, NEW via,
           Record(fills, rejects, ts, via), FairExecution(fills, via),
           DOMAIN fills \subseteq OrderIds, rejects \subseteq OrderIds,
           \A n \in DOMAIN fills \union rejects : log[n] = <<>>,
           \A n \in Fills : orders'[n] = orders[n]
    PROVE  FairInv' /\ NewFillsInsideBook
<1>1. /\ \A n \in DOMAIN fills : log'[n] = <<FillRecord(ts, fills[n], via)>>
      /\ Fills' = Fills \union DOMAIN fills
      /\ \A n \in Fills : log'[n] = log[n]
      /\ NewFills = DOMAIN fills
  BY FirstRecords DEF Inv, TypeOK
<1>2. ASSUME NEW n \in DOMAIN fills
      PROVE  /\ Len(log'[n]) = 1
             /\ FairFill(log'[n][1], orders'[n], log'[n][1].via)
             /\ log'[n][1].via = via
             /\ \A levels : InsideBook(levels, fills[n]) => InsideBook(levels, log'[n][1])
  <2> DEFINE r == FillRecord(ts, fills[n], via)
  <2>1. log'[n] = <<r>>
    BY <1>1
  <2>2. Len(log'[n]) = 1 /\ log'[n][1] = r
    BY <2>1
  <2>3. /\ r.qty = fills[n].qty /\ r.notional = fills[n].notional
        /\ r.fee = fills[n].fee /\ r.via = via
    BY DEF FillRecord
  <2>4. FairFill(fills[n], orders'[n], via)
    BY DEF FairExecution
  <2> HIDE DEF r
  <2>5. FairFill(r, orders'[n], via)
    BY <2>3, <2>4 DEF FairFill, LimitKept, StopKept, RateFollows
  <2>6. \A levels : InsideBook(levels, fills[n]) => InsideBook(levels, r)
    BY <2>3 DEF InsideBook
  <2> QED BY <2>2, <2>3, <2>5, <2>6
<1>3. FairInv'
  <2> SUFFICES ASSUME NEW n \in Fills'
               PROVE  FairFill(log'[n][1], orders'[n], log'[n][1].via)
    BY DEF FairInv
  <2>1. CASE n \in DOMAIN fills
    BY <1>2, <2>1
  <2>2. CASE n \in Fills
    BY <1>1, <2>2 DEF FairInv
  <2> QED BY <1>1, <2>1, <2>2
<1>4. NewFillsInsideBook
  BY <1>1, <1>2 DEF NewFillsInsideBook, FairExecution
<1> QED BY <1>3, <1>4

(* A step that touches no record keeps them fair. *)
LEMMA QuietRecords ==
    ASSUME FairInv, UNCHANGED log, \A n \in Fills : orders'[n] = orders[n]
    PROVE  FairInv' /\ NewFillsInsideBook
BY DEF FairInv, Fills, NewFills, NewFillsInsideBook

(* The orders an engine holds have no record yet. *)
LEMMA HeldIsUnrecorded ==
    ASSUME Inv, NEW i \in Instruments, NEW n \in pending[i] \union resting[i]
    PROVE  n \in OrderIds /\ log[n] = <<>>
BY DEF Inv, TypeOK, OrderConservation, Working, Concluded

-----------------------------------------------------------------------------
(* Every step *)

(* A handler's fills of orders the engine holds. *)
LEMMA HandlerRecords ==
    ASSUME Inv, FairInv, NEW i \in Instruments,
           NEW fills, NEW rejects, NEW ts, NEW via,
           Record(fills, rejects, ts, via), FairExecution(fills, via),
           DOMAIN fills \union rejects \subseteq pending[i] \union resting[i],
           UNCHANGED orders
    PROVE  FairInv' /\ NewFillsInsideBook
<1>1. \A n \in DOMAIN fills \union rejects : n \in OrderIds /\ log[n] = <<>>
  BY HeldIsUnrecorded
<1> QED BY <1>1, FairRecords

(* on_event executes fairly, and at a quote inside the quoted book. *)
LEMMA EventIsFair ==
    ASSUME Inv, TimeInv, FairInv, NEW i \in Instruments, NEW ts, NEW p \in Payloads,
           HandleEvent(i, ts, p)
    PROVE  FairInv' /\ NewFillsInsideBook
<1>1. CASE p.type \in {"Bar", "DerivedBar"} /\ HandleBar(i, ts, p)
  <2> DEFINE fills == BarFills(i, ts, p)
             expired == BarExpired(i, ts, p)
  <2>1. Record(fills, expired, ts, "bar") /\ UNCHANGED orders
    BY <1>1, BarStep
  <2>2. DOMAIN fills \union expired \subseteq pending[i] \union resting[i]
    BY DEF BarFills, BarExpired, BarBought, BarReached, BarChecked, Eligible
  <2>3. \A n \in DOMAIN fills : FairFill(fills[n], orders[n], "bar")
    BY <1>1, BarFillsFair, PayloadTypes
  <2> HIDE DEF fills, expired
  <2>4. FairExecution(fills, "bar")
    BY <2>1, <2>3 DEF FairExecution
  <2> QED BY <2>1, <2>2, <2>4, HandlerRecords
<1>2. CASE p.type = "Quote" /\ HandleQuote(i, ts, p)
  <2> DEFINE fills == QuoteFills(i, ts, p)
             quoted == QuotedBook(i, p)
  <2>1. /\ Record(fills, {}, ts, "quote") /\ UNCHANGED orders
        /\ book' = [book EXCEPT ![i] = quoted]
    BY <1>2, QuoteStep
  <2>2. IsBook(quoted) /\ book'[i] = quoted
    BY <1>2, <2>1, PayloadTypes, DeltaIsBook DEF QuotedBook, Inv, TypeOK
  <2>3. DOMAIN fills \subseteq pending[i]
    BY DEF QuoteFills, Eligible
  <2>4. \A n \in DOMAIN fills :
           /\ FairFill(fills[n], orders[n], "quote")
           /\ InsideBook(Opposing(quoted, orders[n].side), fills[n])
    BY <2>2, QuoteFillsFair
  <2>5. \A n \in DOMAIN fills : orders[n].instrument = i
    BY <2>3, HeldTerms
  <2> HIDE DEF fills, quoted
  <2>6. FairExecution(fills, "quote")
    BY <2>1, <2>2, <2>4, <2>5 DEF FairExecution
  <2>7. DOMAIN fills \union {} \subseteq pending[i] \union resting[i]
    BY <2>3
  <2> QED BY <2>1, <2>6, <2>7, HandlerRecords
<1>3. CASE p.type = "Trade" /\ HandleTrade(i, ts, p.price)
  <2> DEFINE fills == TradeFills(i, ts, p.price)
  <2>1. Record(fills, {}, ts, "trade") /\ UNCHANGED orders
    BY <1>3, TradeStep
  <2>2. DOMAIN fills \union {} \subseteq pending[i] \union resting[i]
    BY DEF TradeFills, TradeReached, Eligible
  <2>3. \A n \in DOMAIN fills : FairFill(fills[n], orders[n], "trade")
    BY TradeFillsFair
  <2> HIDE DEF fills
  <2>4. FairExecution(fills, "trade")
    BY <2>1, <2>3 DEF FairExecution
  <2> QED BY <2>1, <2>2, <2>4, HandlerRecords
<1>4. ASSUME NEW newBook, HandleBook(i, newBook)
      PROVE  FairInv' /\ NewFillsInsideBook
  BY <1>4, QuietRecords DEF HandleBook, orderVars, runVars
<1>5. CASE HandleMark(i, p)
  BY <1>5, QuietRecords DEF HandleMark, orderVars, runVars
<1>6. CASE HandleStatus(i, p.status)
  BY <1>6, QuietRecords DEF HandleStatus, orderVars, runVars
<1>7. CASE HandleFees(i, p)
  BY <1>7, QuietRecords DEF HandleFees, orderVars, runVars
<1>8. CASE HandleSignal(i, p.type)
  BY <1>8, QuietRecords DEF HandleSignal, orderVars, runVars
<1> QED BY <1>1, <1>2, <1>3, <1>4, <1>5, <1>6, <1>7, <1>8 DEF HandleEvent

(* A submission leaves the orders that have been filled alone. *)
LEMMA SubmitKeepsFilled ==
    ASSUME Inv, NEW order \in Order, SubmitOrder(order)
    PROVE  /\ count + 1 \in OrderIds /\ log[count + 1] = <<>>
           /\ count + 1 \notin Submitted
           /\ \A m \in Fills : m \in Submitted /\ orders'[m] = orders[m]
<1>1. count + 1 \in OrderIds /\ log[count + 1] = <<>>
  BY SubmitStores
<1>2. count \in Nat /\ MaxOrders \in Nat
  BY EngineAssumption DEF Inv, TypeOK
<1>3. \A m \in Submitted : orders'[m] = orders[m] /\ m # count + 1
  <2>1. \A m \in Submitted : m \in OrderIds /\ m # count + 1
    BY <1>1, <1>2 DEF Submitted, OrderIds
  <2> QED BY <2>1, SubmitStores
<1>4. \A m \in Fills : m \in Submitted
  BY HeldIsSubmitted DEF Fills
<1> QED BY <1>1, <1>3, <1>4

(* submit_order executes fairly, a market order inside the book it meets. *)
LEMMA SubmitIsFair ==
    ASSUME Inv, FairInv, NEW order \in Order, SubmitOrder(order)
    PROVE  FairInv' /\ NewFillsInsideBook
<1> DEFINE n == count + 1
           i == order.instrument
           fill == ImmediateFill(i, order)
           one == [m \in {n} |-> fill]
<1>1. n \in OrderIds /\ log[n] = <<>> /\ \A m \in Fills : orders'[m] = orders[m]
  BY SubmitKeepsFilled
<1>2. /\ orders'[n].instrument = order.instrument /\ orders'[n].side = order.side
      /\ orders'[n].type = order.type /\ orders'[n].qty = order.qty
      /\ orders'[n].limit = order.limit /\ orders'[n].stop = order.stop
  BY <1>1 DEF SubmitOrder, Inv, TypeOK
<1>3. \/ log' = log
      \/ \E via : Record(<<>>, {n}, now, via)
      \/ fill # None /\ Record(one, {}, now + Latency, "book") /\ book' = book
  BY DEF SubmitOrder, Conclude, Buffer, Rest, marketVars
<1>4. DOMAIN one = {n} /\ DOMAIN <<>> = {} /\ one[n] = fill
  OBVIOUS
<1>5. fill # None => /\ FairFill(fill, order, "book")
                     /\ order.type = "Market" =>
                          InsideBook(Opposing(book[order.instrument], order.side), fill)
  BY ImmediateIsFair
<1> HIDE DEF n, i, fill, one
<1>6. CASE log' = log
  BY <1>1, <1>6, QuietRecords
<1>7. ASSUME NEW via, Record(<<>>, {n}, now, via)
      PROVE  FairInv' /\ NewFillsInsideBook
  <2>1. FairExecution(<<>>, via)
    BY <1>4 DEF FairExecution
  <2> QED BY <1>1, <1>4, <1>7, <2>1, FairRecords
<1>8. CASE fill # None /\ Record(one, {}, now + Latency, "book") /\ book' = book
  <2>1. FairFill(fill, orders'[n], "book")
    BY <1>2, <1>5, <1>8 DEF FairFill, LimitKept, StopKept, RateFollows
  <2>2. orders'[n].type = "Market" =>
           InsideBook(Opposing(book'[orders'[n].instrument], orders'[n].side), fill)
    BY <1>2, <1>5, <1>8
  <2>3. FairExecution(one, "book")
    BY <1>4, <2>1, <2>2 DEF FairExecution
  <2> QED BY <1>1, <1>4, <1>8, <2>3, FairRecords
<1> QED BY <1>3, <1>6, <1>7, <1>8

(* Settlement fills what is buffered at the settlement price. *)
LEMMA SettleIsFair ==
    ASSUME Inv, TimeInv, FairInv, NEW i \in Instruments, SettleEngine(i)
    PROVE  FairInv' /\ NewFillsInsideBook
<1>1. UNCHANGED orders
  BY DEF SettleEngine
<1>2. CASE UNCHANGED orderVars
  BY <1>1, <1>2, QuietRecords DEF orderVars
<1>3. CASE SettlePrice(i) # None /\ Record(SettleFills(i), resting[i], now, "settle")
  <2>1. DOMAIN SettleFills(i) = pending[i]
    BY DEF SettleFills
  <2>2. FairExecution(SettleFills(i), "settle")
    BY <1>1, <1>3, SettleFillsFair DEF FairExecution
  <2> QED BY <1>1, <1>3, <2>1, <2>2, HandlerRecords
<1> QED BY <1>2, <1>3 DEF SettleEngine

(* No step records an unfair fill. *)
LEMMA NextFair ==
    Inv /\ TimeInv /\ FairInv /\ [Next]_vars => FairInv' /\ NewFillsInsideBook
<1> SUFFICES ASSUME Inv, TimeInv, FairInv, [Next]_vars
             PROVE  FairInv' /\ NewFillsInsideBook
  OBVIOUS
<1>1. ASSUME NEW i \in Instruments, NEW ts, NEW p \in Payloads, OnEvent(i, ts, p)
      PROVE  FairInv' /\ NewFillsInsideBook
  BY <1>1, EventIsFair DEF OnEvent
<1>2. ASSUME NEW order \in OrderSpecs, OnSubmit(order)
      PROVE  FairInv' /\ NewFillsInsideBook
  <2>1. order \in Order
    BY EngineAssumption
  <2> QED BY <1>2, <2>1, SubmitIsFair DEF OnSubmit
<1>3. ASSUME NEW ts, OnClock(ts)
      PROVE  FairInv' /\ NewFillsInsideBook
  BY <1>3, QuietRecords DEF OnClock, orderVars, runVars
<1>4. ASSUME NEW i \in Instruments, OnSettle(i)
      PROVE  FairInv' /\ NewFillsInsideBook
  BY <1>4, SettleIsFair DEF OnSettle
<1>5. CASE UNCHANGED vars
  BY <1>5, QuietRecords DEF vars, orderVars, runVars
<1> QED BY <1>1, <1>2, <1>3, <1>4, <1>5 DEF Next

-----------------------------------------------------------------------------
(* The rates of the moment *)

(* The fee is that of compute_fee, as the fee state stands before the step. *)
UpToDate(fill, o, via) ==
    fill.fee = fill.notional *
        FeeBps(o.type = "Limit" /\ via # "book", FeeSchedule[o.instrument],
               EffectiveTaker(o.instrument))

NewFeesUpToDate ==
    \A n \in NewFills :
        LET r == log'[n][Len(log'[n])] IN UpToDate(r, orders'[n], r.via)

(* The two rates a fill of an order may be made at. *)
LEMMA WholeIsUpToDate ==
    ASSUME NEW o, NEW price, NEW via, via # "book"
    PROVE  UpToDate(FillWhole(o.instrument, o, price), o, via)
<1>1. (o.type = "Limit" /\ via # "book") = (o.type = "Limit")
  OBVIOUS
<1> QED BY <1>1 DEF UpToDate, FillWhole, FillAtPrice, MakeFill

LEMMA TakenIsUpToDate ==
    ASSUME NEW o, NEW via, o.type # "Limit" \/ via = "book", NEW qty, NEW notional, NEW partial
    PROVE  UpToDate(MakeFill(qty, notional,
                             FeeBps(FALSE, FeeSchedule[o.instrument],
                                    EffectiveTaker(o.instrument)), partial), o, via)
<1>1. (o.type = "Limit" /\ via # "book") = FALSE
  OBVIOUS
<1> QED BY <1>1 DEF UpToDate, MakeFill

(* First records of fills at the rate of the moment. *)
LEMMA RecordsUpToDate ==
    ASSUME Inv, NEW fills, NEW rejects, NEW ts, NEW via,
           Record(fills, rejects, ts, via),
           DOMAIN fills \subseteq OrderIds, rejects \subseteq OrderIds,
           \A n \in DOMAIN fills \union rejects : log[n] = <<>>,
           \A n \in DOMAIN fills : UpToDate(fills[n], orders'[n], via)
    PROVE  NewFeesUpToDate
<1>1. /\ \A n \in DOMAIN fills : log'[n] = <<FillRecord(ts, fills[n], via)>>
      /\ NewFills = DOMAIN fills
  BY FirstRecords DEF Inv, TypeOK
<1> SUFFICES ASSUME NEW n \in DOMAIN fills
             PROVE  LET r == log'[n][Len(log'[n])] IN UpToDate(r, orders'[n], r.via)
  BY <1>1 DEF NewFeesUpToDate
<1> DEFINE r == FillRecord(ts, fills[n], via)
<1>2. log'[n] = <<r>>
  BY <1>1
<1>3. r.notional = fills[n].notional /\ r.fee = fills[n].fee /\ r.via = via
  BY DEF FillRecord
<1> HIDE DEF r
<1>4. log'[n][Len(log'[n])] = r
  BY <1>2
<1>5. UpToDate(r, orders'[n], via)
  BY <1>3 DEF UpToDate
<1> QED BY <1>3, <1>4, <1>5

(* The same of a handler, which fills orders that its engine holds. *)
LEMMA HandlerUpToDate ==
    ASSUME Inv, NEW i \in Instruments, NEW fills, NEW rejects, NEW ts, NEW via,
           Record(fills, rejects, ts, via), UNCHANGED orders,
           DOMAIN fills \union rejects \subseteq pending[i] \union resting[i],
           \A n \in DOMAIN fills : UpToDate(fills[n], orders[n], via)
    PROVE  NewFeesUpToDate
<1>1. \A n \in DOMAIN fills \union rejects : n \in OrderIds /\ log[n] = <<>>
  BY HeldIsUnrecorded
<1> QED BY <1>1, RecordsUpToDate

(* A step that writes no record fills nothing. *)
LEMMA QuietFees ==
    ASSUME UNCHANGED log
    PROVE  NewFeesUpToDate
BY DEF NewFeesUpToDate, NewFills

(* Bars and trades fill whole orders, quotes take from the book. *)
LEMMA EventUpToDate ==
    ASSUME Inv, TimeInv, NEW i \in Instruments, NEW ts, NEW p, HandleEvent(i, ts, p)
    PROVE  NewFeesUpToDate
<1>1. CASE HandleBar(i, ts, p)
  <2> DEFINE fills == BarFills(i, ts, p)
             expired == BarExpired(i, ts, p)
  <2>1. Record(fills, expired, ts, "bar") /\ UNCHANGED orders
    BY <1>1, BarStep
  <2>2. DOMAIN fills \union expired \subseteq pending[i] \union resting[i]
    BY DEF BarFills, BarExpired, BarBought, BarReached, BarChecked, Eligible
  <2>3. ASSUME NEW n \in DOMAIN fills
        PROVE  UpToDate(fills[n], orders[n], "bar")
    <3>1. orders[n].instrument = i
      BY <2>2, HeldTerms
    <3>2. \E price : fills[n] = FillWhole(orders[n].instrument, orders[n], price)
      BY <3>1 DEF BarFills
    <3> QED BY <3>2, WholeIsUpToDate
  <2> HIDE DEF fills, expired
  <2> QED BY <2>1, <2>2, <2>3, HandlerUpToDate
<1>2. CASE HandleQuote(i, ts, p)
  <2> DEFINE fills == QuoteFills(i, ts, p)
  <2>1. Record(fills, {}, ts, "quote") /\ UNCHANGED orders
    BY <1>2, QuoteStep
  <2>2. DOMAIN fills \subseteq pending[i]
    BY DEF QuoteFills, Eligible
  <2>3. ASSUME NEW n \in DOMAIN fills
        PROVE  UpToDate(fills[n], orders[n], "quote")
    <3>1. orders[n].instrument = i /\ orders[n].type = "Market"
      BY <2>2, HeldTerms
    <3>2. fills[n] # None /\ fills[n] = QuoteFill(i, p, n)
      BY DEF QuoteFills
    <3>3. \E qty, notional, partial :
             fills[n] = MakeFill(qty, notional,
                                 FeeBps(FALSE, FeeSchedule[orders[n].instrument],
                                        EffectiveTaker(orders[n].instrument)), partial)
      BY <3>1, <3>2 DEF QuoteFill, FillL1
    <3> QED BY <3>1, <3>3, TakenIsUpToDate
  <2> HIDE DEF fills
  <2> QED BY <2>1, <2>2, <2>3, HandlerUpToDate
<1>3. CASE HandleTrade(i, ts, p.price)
  <2> DEFINE fills == TradeFills(i, ts, p.price)
  <2>1. Record(fills, {}, ts, "trade") /\ UNCHANGED orders
    BY <1>3, TradeStep
  <2>2. DOMAIN fills \subseteq resting[i]
    BY DEF TradeFills, TradeReached, Eligible
  <2>3. ASSUME NEW n \in DOMAIN fills
        PROVE  UpToDate(fills[n], orders[n], "trade")
    <3>1. orders[n].instrument = i
      BY <2>2, HeldTerms
    <3>2. \E price : fills[n] = FillWhole(orders[n].instrument, orders[n], price)
      BY <3>1 DEF TradeFills
    <3> QED BY <3>2, WholeIsUpToDate
  <2> HIDE DEF fills
  <2> QED BY <2>1, <2>2, <2>3, HandlerUpToDate
<1>4. CASE UNCHANGED log
  BY <1>4, QuietFees
<1> QED BY <1>1, <1>2, <1>3, <1>4
        DEF HandleEvent, HandleBook, HandleMark, HandleStatus, HandleFees, HandleSignal,
            orderVars

(* An execution on arrival takes from the book, a limit order included. *)
LEMMA SubmitUpToDate ==
    ASSUME Inv, NEW order \in Order, SubmitOrder(order)
    PROVE  NewFeesUpToDate
<1> DEFINE n == count + 1
           i == order.instrument
           fill == ImmediateFill(i, order)
           one == [m \in {n} |-> fill]
<1>1. n \in OrderIds /\ log[n] = <<>>
  BY SubmitKeepsFilled
<1>2. orders'[n].instrument = order.instrument /\ orders'[n].type = order.type
  BY <1>1 DEF SubmitOrder, Inv, TypeOK
<1>3. \/ log' = log
      \/ \E via : Record(<<>>, {n}, now, via)
      \/ fill # None /\ Record(one, {}, now + Latency, "book")
  BY DEF SubmitOrder, Conclude, Buffer, Rest
<1>4. DOMAIN one = {n} /\ DOMAIN <<>> = {} /\ one[n] = fill
  OBVIOUS
<1>5. fill # None =>
        \E qty, notional, partial :
           fill = MakeFill(qty, notional,
                           FeeBps(FALSE, FeeSchedule[orders'[n].instrument],
                                  EffectiveTaker(orders'[n].instrument)), partial)
  BY <1>2 DEF ImmediateFill, FillL1, FillL2, TryFillLimit
<1>6. fill # None => UpToDate(fill, orders'[n], "book")
  BY <1>5, TakenIsUpToDate
<1> HIDE DEF n, i, fill, one
<1>7. CASE log' = log
  BY <1>7, QuietFees
<1>8. CASE \E via : Record(<<>>, {n}, now, via)
  BY <1>1, <1>4, <1>8, RecordsUpToDate
<1>9. CASE fill # None /\ Record(one, {}, now + Latency, "book")
  BY <1>1, <1>4, <1>6, <1>9, RecordsUpToDate
<1> QED BY <1>3, <1>7, <1>8, <1>9

(* Settlement fills whole orders. *)
LEMMA SettleUpToDate ==
    ASSUME Inv, TimeInv, NEW i \in Instruments, SettleEngine(i)
    PROVE  NewFeesUpToDate
<1>1. CASE UNCHANGED orderVars
  BY <1>1, QuietFees DEF orderVars
<1>2. CASE Record(SettleFills(i), resting[i], now, "settle")
  <2>1. DOMAIN SettleFills(i) = pending[i] /\ UNCHANGED orders
    BY DEF SettleFills, SettleEngine
  <2>2. ASSUME NEW n \in pending[i]
        PROVE  UpToDate(SettleFills(i)[n], orders[n], "settle")
    <3>1. orders[n].instrument = i
      BY HeldTerms
    <3>2. SettleFills(i)[n] = FillWhole(orders[n].instrument, orders[n], SettlePrice(i))
      BY <3>1 DEF SettleFills
    <3> QED BY <3>2, WholeIsUpToDate
  <2> QED BY <1>2, <2>1, <2>2, HandlerUpToDate
<1> QED BY <1>1, <1>2 DEF SettleEngine

(* No step charges an old rate. *)
LEMMA NextUpToDate ==
    ASSUME Inv, TimeInv, [Next]_vars
    PROVE  NewFeesUpToDate
<1>1. ASSUME NEW i \in Instruments, NEW ts, NEW p, OnEvent(i, ts, p)
      PROVE  NewFeesUpToDate
  BY <1>1, EventUpToDate DEF OnEvent
<1>2. ASSUME NEW order \in OrderSpecs, OnSubmit(order)
      PROVE  NewFeesUpToDate
  <2>1. order \in Order
    BY EngineAssumption
  <2> QED BY <1>2, <2>1, SubmitUpToDate DEF OnSubmit
<1>3. ASSUME NEW ts, OnClock(ts)
      PROVE  NewFeesUpToDate
  BY <1>3, QuietFees DEF OnClock, orderVars
<1>4. ASSUME NEW i \in Instruments, OnSettle(i)
      PROVE  NewFeesUpToDate
  BY <1>4, SettleUpToDate DEF OnSettle
<1>5. CASE UNCHANGED vars
  BY <1>5, QuietFees DEF vars, orderVars
<1> QED BY <1>1, <1>2, <1>3, <1>4, <1>5 DEF Next

-----------------------------------------------------------------------------
(* The theorems *)

(* Times are sane in every reachable state. *)
LEMMA TimesSane == Spec => []TimeInv
<1>1. Init => LatencyInv
  BY EngineAssumption DEF Init, LatencyInv, TimeInv, Submitted, DataFillsRespectLatency, Fills
<1>2. Spec => []LatencyInv
  BY <1>1, NextLatency, InvInvariant, PTL DEF Spec
<1> QED BY <1>2, PTL DEF LatencyInv

(* Every recorded fill is fair. *)
THEOREM FillsAreFair == Spec => []FairInv
<1>1. Init => FairInv
  BY DEF Init, FairInv, Fills
<1> QED BY <1>1, NextFair, InvInvariant, TimesSane, PTL DEF Spec

(***************************************************************************)
(* No limit order trades beyond its limit, whatever the book, the bars and *)
(* the trades are.                                                         *)
(***************************************************************************)
THEOREM LimitsRespected == Spec => []LimitPriceRespected
<1>1. FairInv => LimitPriceRespected
  BY DEF FairInv, FairFill, LimitKept, LimitPriceRespected
<1> QED BY <1>1, FillsAreFair, PTL

(***************************************************************************)
(* No plain stop order ever gets a better price than its stop, gaps        *)
(* included.                                                               *)
(***************************************************************************)
THEOREM StopsPessimistic == Spec => []StopNeverImproved
<1>1. FairInv => StopNeverImproved
  BY DEF FairInv, FairFill, StopKept, StopNeverImproved
<1> QED BY <1>1, FillsAreFair, PTL

(***************************************************************************)
(* Under a fee schedule the maker rate is paid by the limit orders that    *)
(* had to rest, and by no others, at any rates.                            *)
(***************************************************************************)
THEOREM MakersRested == Spec => []MakerOnlyIfRested
<1>1. FairInv => MakerOnlyIfRested
  BY DEF FairInv, FairFill, RateFollows, MakerOnlyIfRested
<1> QED BY <1>1, FillsAreFair, PTL

(***************************************************************************)
(* Whoever takes liquidity pays the taker rate in force at that moment, as *)
(* long as there is no fee schedule: whatever updates the data brings and  *)
(* whenever, between a submission and its execution too.                   *)
(* (effective_taker_bps, engine_a/mod.rs; compute_fee, engine_a/fill.rs)   *)
(***************************************************************************)
THEOREM LatestRatePaid == Spec => TakersPayTheLatestRate
<1> DEFINE Charged ==
        \A n \in NewFills :
          LET i == orders'[n].instrument
              r == log'[n][Len(log'[n])]
              rested == orders'[n].type = "Limit" /\ r.via # "book"
              rate ==
                  CASE dynamicTaker[i] # None -> dynamicTaker[i]
                    [] dynamicTaker[i] = None /\ TakerOverride # None -> TakerOverride
                    [] OTHER -> DefaultTakerBps
          IN  FeeSchedule[i] = None /\ ~rested => r.fee = r.notional * rate
<1>1. NewFeesUpToDate => Charged
  BY DEF NewFeesUpToDate, UpToDate, FeeBps, EffectiveTaker
<1> HIDE DEF Charged
<1>2. Spec => [][Charged]_vars
  BY <1>1, NextUpToDate, InvInvariant, TimesSane, PTL DEF Spec
<1> QED BY <1>2 DEF TakersPayTheLatestRate, Charged

(***************************************************************************)
(* A market order that executes against the book gets no more than the     *)
(* book displays, between its best and its worst price: of any book, also  *)
(* one that a walk exhausts.                                               *)
(***************************************************************************)
THEOREM FillsInsideBook == Spec => MarketFillsInsideBook
<1>1. NewFillsInsideBook <=>
        \A n \in NewFills :
          LET o == orders'[n]
              r == log'[n][Len(log'[n])]
          IN  r.via \in {"book", "quote"} /\ o.type = "Market" =>
                  InsideBook(Opposing(book'[o.instrument], o.side), r)
  BY DEF NewFillsInsideBook
<1>2. Spec => [][NewFillsInsideBook]_vars
  BY NextFair, FillsAreFair, InvInvariant, TimesSane, PTL DEF Spec
<1> QED BY <1>1, <1>2, PTL DEF MarketFillsInsideBook
=============================================================================
