------------------------ MODULE OrderBookEngine_proofs ------------------------
(***************************************************************************)
(* Machine-checked proofs about OrderBookEngine, for every value of its    *)
(* constants: any number of instruments and orders, any latency, fees,     *)
(* payloads and orders.                                                    *)
(*                                                                         *)
(* The inductive invariant is Inv == TypeOK /\ OrderConservation: neither  *)
(* conjunct is inductive alone, because an appended record is well typed   *)
(* only if the log it is appended to was empty, and that is what           *)
(* conservation says of an order the engine still holds.                   *)
(* LatencyInv adds the decision times: a record's stamp is compared with   *)
(* the time stored with the order, so that must never be in the future.    *)
(* Then come the refinement of OrderLifecycle, and the conclusions that an *)
(* order is sure of: at settlement, and at a bar that finds it active.     *)
(***************************************************************************)
EXTENDS OrderBookEngine, FiniteSetTheorems, TLAPS

Inv == TypeOK /\ OrderConservation

(***************************************************************************)
(* The form of every step that only lets orders go: engine i drops the     *)
(* buffered orders B and the resting orders R, and each of them, and no    *)
(* other order, gets one record stamped ts.                                *)
(***************************************************************************)
Stamped(r, ts) ==
    /\ r.ts = ts
    /\ \/ r.kind = "fill" /\ r.via \in FillVias
       \/ r.kind = "reject" /\ r.via \in RejectVias

Retires(i, B, R, ts) ==
    /\ B \subseteq pending[i]
    /\ R \subseteq resting[i]
    /\ pending' = [pending EXCEPT ![i] = @ \ B]
    /\ resting' = [resting EXCEPT ![i] = @ \ R]
    /\ DOMAIN log' = OrderIds
    /\ \A n \in OrderIds \ (B \union R) : log'[n] = log[n]
    /\ \A n \in B \union R : \E r : Stamped(r, ts) /\ log'[n] = Append(log[n], r)

(* A first record makes a log of length one. *)
LEMMA FirstRecord ==
    ASSUME NEW r
    PROVE  /\ Append(<<>>, r) = <<r>>
           /\ <<r>> # <<>>
           /\ DOMAIN <<r>> = {1}
           /\ <<r>>[1] = r
OBVIOUS

(* What a handler writes with Record is a stamped record for each order. *)
LEMMA RecordStamps ==
    ASSUME NEW fills, NEW rejects, NEW ts, NEW via,
           Record(fills, rejects, ts, via),
           DOMAIN fills # {} => via \in FillVias,
           rejects # {} => via \in RejectVias
    PROVE  /\ DOMAIN log' = OrderIds
           /\ \A n \in OrderIds \ (DOMAIN fills \union rejects) : log'[n] = log[n]
           /\ \A n \in OrderIds \intersect (DOMAIN fills \union rejects) :
                 \E r : Stamped(r, ts) /\ log'[n] = Append(log[n], r)
<1>1. DOMAIN log' = OrderIds
  BY DEF Record
<1>2. \A n \in OrderIds \ (DOMAIN fills \union rejects) : log'[n] = log[n]
  BY DEF Record
<1>3. ASSUME NEW n \in OrderIds, n \in DOMAIN fills
      PROVE  \E r : Stamped(r, ts) /\ log'[n] = Append(log[n], r)
  <2>1. Stamped(FillRecord(ts, fills[n], via), ts)
    BY <1>3 DEF Stamped, FillRecord
  <2>2. log'[n] = Append(log[n], FillRecord(ts, fills[n], via))
    BY <1>3 DEF Record
  <2> QED BY <2>1, <2>2
<1>4. ASSUME NEW n \in OrderIds, n \notin DOMAIN fills, n \in rejects
      PROVE  \E r : Stamped(r, ts) /\ log'[n] = Append(log[n], r)
  <2>1. Stamped(RejectRecord(ts, via), ts)
    BY <1>4 DEF Stamped, RejectRecord
  <2>2. log'[n] = Append(log[n], RejectRecord(ts, via))
    BY <1>4 DEF Record
  <2> QED BY <2>1, <2>2
<1> QED BY <1>1, <1>2, <1>3, <1>4

(***************************************************************************)
(* A retiring step keeps every order accounted for.                        *)
(***************************************************************************)
LEMMA RetiringConserves ==
    ASSUME Inv, NEW i \in Instruments, NEW B, NEW R, NEW ts \in Timestamp,
           Retires(i, B, R, ts), UNCHANGED <<count, orders>>
    PROVE  /\ pending' \in [Instruments -> SUBSET OrderIds]
           /\ resting' \in [Instruments -> SUBSET OrderIds]
           /\ DOMAIN log' = OrderIds
           /\ \A n \in OrderIds : \A k \in DOMAIN log'[n] : RecordOK(log'[n][k])
           /\ OrderConservation'
<1> USE DEF Inv
<1>1. B \subseteq OrderIds /\ R \subseteq OrderIds
  BY DEF TypeOK, Retires
<1>2. pending' \in [Instruments -> SUBSET OrderIds]
  BY DEF TypeOK, Retires
<1>3. resting' \in [Instruments -> SUBSET OrderIds]
  BY DEF TypeOK, Retires
<1>4. ASSUME NEW n \in B \union R
      PROVE  \E r : Stamped(r, ts) /\ log'[n] = <<r>>
  <2>1. Working(n)
    BY <1>4 DEF Working, Retires
  <2>2. log[n] = <<>>
    BY <2>1, <1>1, <1>4 DEF OrderConservation, Concluded
  <2>3. PICK r : Stamped(r, ts) /\ log'[n] = Append(log[n], r)
    BY <1>4 DEF Retires
  <2> QED BY <2>2, <2>3, FirstRecord
<1>5. \A n \in OrderIds : n \notin B \union R => log'[n] = log[n]
  BY DEF Retires
<1>6. \A n \in OrderIds : \A k \in DOMAIN log'[n] : RecordOK(log'[n][k])
  <2> SUFFICES ASSUME NEW n \in OrderIds, NEW k \in DOMAIN log'[n]
               PROVE  RecordOK(log'[n][k])
    OBVIOUS
  <2>1. CASE n \in B \union R
    <3>1. PICK r : Stamped(r, ts) /\ log'[n] = <<r>>
      BY <2>1, <1>4
    <3>2. log'[n][k] = r
      BY <3>1, FirstRecord
    <3> QED BY <3>1, <3>2 DEF Stamped, RecordOK
  <2>2. CASE n \notin B \union R
    BY <2>2, <1>5 DEF TypeOK
  <2> QED BY <2>1, <2>2
<1>7. \A n \in OrderIds : log'[n] = <<>> \/ log'[n] = <<log'[n][1]>>
  <2> SUFFICES ASSUME NEW n \in OrderIds
               PROVE  log'[n] = <<>> \/ log'[n] = <<log'[n][1]>>
    OBVIOUS
  <2>1. CASE n \in B \union R
    BY <2>1, <1>4, FirstRecord
  <2>2. CASE n \notin B \union R
    BY <2>2, <1>5 DEF OrderConservation
  <2> QED BY <2>1, <2>2
<1>8. \A n \in OrderIds : Concluded(n)' <=> (Concluded(n) \/ n \in B \union R)
  BY <1>4, <1>5, FirstRecord DEF Concluded
<1>9. \A n \in OrderIds : Working(n)' <=> (Working(n) /\ n \notin B \union R)
  <2>1. \A j \in Instruments : \A n \in pending[j] \union resting[j] :
           n \in B \union R => j = i
    BY DEF OrderConservation, Retires
  <2>2. \A n \in B : n \notin resting[i]
    BY DEF OrderConservation, Retires
  <2>3. \A n \in R : n \notin pending[i]
    BY DEF OrderConservation, Retires
  <2>4. pending'[i] = pending[i] \ B /\ resting'[i] = resting[i] \ R
    BY DEF Retires, TypeOK
  <2>5. \A j \in Instruments \ {i} : pending'[j] = pending[j] /\ resting'[j] = resting[j]
    BY DEF Retires, TypeOK
  <2> QED BY <2>1, <2>2, <2>3, <2>4, <2>5 DEF Working
<1>10. \A n \in OrderIds : n \in B \union R => Working(n)
  BY DEF Working, Retires
<1>11. \A j \in Instruments :
          /\ \A n \in pending'[j] : orders'[n].instrument = j /\ orders'[n].type = "Market"
          /\ \A n \in resting'[j] : orders'[n].instrument = j /\ orders'[n].type # "Market"
  BY DEF Retires, TypeOK, OrderConservation
<1>12. \A n \in OrderIds : n \in Submitted' <=> (Working(n)' \/ Concluded(n)')
  BY <1>8, <1>9, <1>10 DEF OrderConservation, Submitted
<1>13. \A n \in OrderIds : ~(Working(n)' /\ Concluded(n)')
  BY <1>8, <1>9 DEF OrderConservation
<1> QED BY <1>2, <1>3, <1>6, <1>7, <1>11, <1>12, <1>13 DEF OrderConservation, Retires

-----------------------------------------------------------------------------
(* Each handler that fills or cancels retires orders *)

(* Only held orders are eligible. *)
LEMMA EligibleSubset ==
    ASSUME NEW S, NEW ts
    PROVE  Eligible(S, ts) \subseteq S
BY DEF Eligible

(* A bar retires buffered orders, and resting ones that fill or expire. *)
LEMMA BarRetires ==
    ASSUME Inv, NEW i \in Instruments, NEW ts, NEW bar, HandleBar(i, ts, bar)
    PROVE  \E B, R : Retires(i, B, R, ts)
<1> DEFINE bought  == Eligible(pending[i], ts)
           checked == {n \in Eligible(resting[i], ts) : Checkable(orders[n])}
           reached == {n \in checked : CrossedByBar(orders[n], bar)}
           expired == {n \in checked \ reached : orders[n].tif # "Gtc"}
           fills   == [n \in bought \union reached |->
                         FillWhole(i, orders[n],
                                   IF n \in bought THEN bar.open
                                   ELSE BarFillPrice(orders[n], bar))]
<1>1. /\ pending' = [pending EXCEPT ![i] = @ \ bought]
      /\ resting' = [resting EXCEPT ![i] = @ \ (reached \union expired)]
      /\ Record(fills, expired, ts, "bar")
  BY DEF HandleBar
<1>2. bought \subseteq pending[i] /\ reached \union expired \subseteq resting[i]
  BY EligibleSubset
<1>3. bought \union (reached \union expired) \subseteq OrderIds
  BY <1>2 DEF Inv, TypeOK
<1>4. DOMAIN fills = bought \union reached
  OBVIOUS
<1> HIDE DEF bought, checked, reached, expired, fills
<1>5. /\ DOMAIN log' = OrderIds
      /\ \A n \in OrderIds \ (DOMAIN fills \union expired) : log'[n] = log[n]
      /\ \A n \in OrderIds \intersect (DOMAIN fills \union expired) :
            \E r : Stamped(r, ts) /\ log'[n] = Append(log[n], r)
  BY <1>1, RecordStamps DEF FillVias, RejectVias
<1>6. Retires(i, bought, reached \union expired, ts)
  BY <1>1, <1>2, <1>3, <1>4, <1>5 DEF Retires
<1> QED BY <1>6

(* A quote retires buffered orders only. *)
LEMMA QuoteRetires ==
    ASSUME Inv, NEW i \in Instruments, NEW ts, NEW q, HandleQuote(i, ts, q)
    PROVE  \E B, R : Retires(i, B, R, ts)
<1> DEFINE quoted == ApplyDelta(ApplyDelta(book[i], "Buy", q.bid, q.bidSize, "Modify"),
                                "Sell", q.ask, q.askSize, "Modify")
           Fill(n) == FillL1(orders[n], quoted, FeeSchedule[i], EffectiveTaker(i))
           filled  == {m \in Eligible(pending[i], ts) : Fill(m) # None}
           fills   == [n \in filled |-> Fill(n)]
<1>1. /\ pending' = [pending EXCEPT ![i] = @ \ DOMAIN fills]
      /\ resting' = resting
      /\ Record(fills, {}, ts, "quote")
  BY DEF HandleQuote
<1>2. DOMAIN fills = filled
  OBVIOUS
<1>3. filled \subseteq pending[i]
  BY EligibleSubset
<1> HIDE DEF quoted, Fill, filled, fills
<1>4. filled \subseteq OrderIds
  BY <1>3 DEF Inv, TypeOK
<1>5. /\ DOMAIN log' = OrderIds
      /\ \A n \in OrderIds \ (DOMAIN fills \union {}) : log'[n] = log[n]
      /\ \A n \in OrderIds \intersect (DOMAIN fills \union {}) :
            \E r : Stamped(r, ts) /\ log'[n] = Append(log[n], r)
  BY <1>1, RecordStamps DEF FillVias
<1>6. resting' = [resting EXCEPT ![i] = @ \ {}]
  BY <1>1 DEF Inv, TypeOK
<1>7. Retires(i, filled, {}, ts)
  BY <1>1, <1>2, <1>3, <1>4, <1>5, <1>6 DEF Retires
<1> QED BY <1>7

(* A trade retires resting orders only. *)
LEMMA TradeRetires ==
    ASSUME Inv, NEW i \in Instruments, NEW ts, NEW price, HandleTrade(i, ts, price)
    PROVE  \E B, R : Retires(i, B, R, ts)
<1> DEFINE reached == {n \in Eligible(resting[i], ts) :
                         Checkable(orders[n]) /\ CrossedByTrade(orders[n], price)}
           fills   == [n \in reached |->
                         FillWhole(i, orders[n], TradeFillPrice(orders[n]))]
<1>1. /\ resting' = [resting EXCEPT ![i] = @ \ reached]
      /\ pending' = pending
      /\ Record(fills, {}, ts, "trade")
  BY DEF HandleTrade
<1>2. DOMAIN fills = reached
  OBVIOUS
<1>3. reached \subseteq resting[i]
  BY EligibleSubset
<1> HIDE DEF reached, fills
<1>4. reached \subseteq OrderIds
  BY <1>3 DEF Inv, TypeOK
<1>5. /\ DOMAIN log' = OrderIds
      /\ \A n \in OrderIds \ (DOMAIN fills \union {}) : log'[n] = log[n]
      /\ \A n \in OrderIds \intersect (DOMAIN fills \union {}) :
            \E r : Stamped(r, ts) /\ log'[n] = Append(log[n], r)
  BY <1>1, RecordStamps DEF FillVias
<1>6. pending' = [pending EXCEPT ![i] = @ \ {}]
  BY <1>1 DEF Inv, TypeOK
<1>7. Retires(i, {}, reached, ts)
  BY <1>1, <1>2, <1>3, <1>4, <1>5, <1>6 DEF Retires
<1> QED BY <1>7

(* Settlement at a price retires everything the engine holds. *)
LEMMA SettlementRetires ==
    ASSUME Inv, NEW i \in Instruments, SettleEngine(i), SettlePrice(i) # None
    PROVE  \E B, R : Retires(i, B, R, now)
<1> DEFINE fills == SettleFills(i)
<1>1. /\ pending' = [pending EXCEPT ![i] = {}]
      /\ resting' = [resting EXCEPT ![i] = {}]
      /\ Record(fills, resting[i], now, "settle")
  BY DEF SettleEngine
<1>2. DOMAIN fills = pending[i]
  BY DEF SettleFills
<1> HIDE DEF fills
<1>3. pending[i] \union resting[i] \subseteq OrderIds
  BY DEF Inv, TypeOK
<1>4. /\ DOMAIN log' = OrderIds
      /\ \A n \in OrderIds \ (DOMAIN fills \union resting[i]) : log'[n] = log[n]
      /\ \A n \in OrderIds \intersect (DOMAIN fills \union resting[i]) :
            \E r : Stamped(r, now) /\ log'[n] = Append(log[n], r)
  BY <1>1, RecordStamps DEF FillVias, RejectVias
<1>5. Retires(i, pending[i], resting[i], now)
  BY <1>1, <1>2, <1>3, <1>4 DEF Retires, Inv, TypeOK
<1> QED BY <1>5

-----------------------------------------------------------------------------
(* Submission *)

(* The order is stored under a fresh number and nothing else is renumbered. *)
LEMMA SubmitStores ==
    ASSUME Inv, NEW order \in Order, SubmitOrder(order)
    PROVE  /\ count + 1 \in OrderIds
           /\ count' = count + 1 /\ count' \in 0..MaxOrders
           /\ orders' \in [OrderIds -> SubmittedOrder \union {None}]
           /\ orders'[count + 1].instrument = order.instrument
           /\ orders'[count + 1].type = order.type
           /\ \A m \in OrderIds \ {count + 1} : orders'[m] = orders[m]
           /\ Submitted' = Submitted \union {count + 1}
           /\ ~Working(count + 1) /\ log[count + 1] = <<>>
<1> DEFINE n == count + 1
           stored == [ instrument |-> order.instrument, side |-> order.side,
                       type |-> order.type, qty |-> order.qty,
                       limit |-> order.limit, stop |-> order.stop,
                       tif |-> order.tif, ts |-> now ]
<1>1. count \in Nat /\ MaxOrders \in Nat /\ count < MaxOrders
  BY EngineAssumption DEF Inv, TypeOK, SubmitOrder
<1>2. n \in OrderIds /\ n \in 0..MaxOrders
  BY <1>1 DEF OrderIds
<1>3. count' = n /\ orders' = [orders EXCEPT ![n] = stored]
  BY DEF SubmitOrder
<1>4. stored \in SubmittedOrder
  BY DEF Inv, TypeOK, Order, SubmittedOrder
<1>5. orders' \in [OrderIds -> SubmittedOrder \union {None}]
  BY <1>2, <1>3, <1>4 DEF Inv, TypeOK
<1>6. orders'[n] = stored /\ \A m \in OrderIds \ {n} : orders'[m] = orders[m]
  BY <1>2, <1>3 DEF Inv, TypeOK
<1>7. Submitted' = Submitted \union {n} /\ n \notin Submitted
  BY <1>1, <1>3 DEF Submitted
<1>8. ~Working(n) /\ log[n] = <<>>
  BY <1>2, <1>7 DEF Inv, OrderConservation, Concluded
<1> QED BY <1>2, <1>3, <1>5, <1>6, <1>7, <1>8

Accounted ==
    /\ pending \in [Instruments -> SUBSET OrderIds]
    /\ resting \in [Instruments -> SUBSET OrderIds]
    /\ DOMAIN log = OrderIds
    /\ \A n \in OrderIds : \A k \in DOMAIN log[n] : RecordOK(log[n][k])
    /\ OrderConservation

(* An order concluded on arrival: one record, and nothing kept. *)
LEMMA ConcludeAccounts ==
    ASSUME Inv, NEW order \in Order, SubmitOrder(order),
           NEW fills, NEW rejects, NEW ts \in Timestamp, NEW via,
           Conclude(fills, rejects, ts, via),
           DOMAIN fills \union rejects = {count + 1},
           DOMAIN fills # {} => via \in FillVias,
           rejects # {} => via \in RejectVias
    PROVE  Accounted'
<1> DEFINE n == count + 1
<1>0. n \in OrderIds
  BY SubmitStores
<1>1. /\ DOMAIN log' = OrderIds
      /\ \A m \in OrderIds \ {n} : log'[m] = log[m]
      /\ \E r : Stamped(r, ts) /\ log'[n] = Append(log[n], r)
  BY <1>0, RecordStamps DEF Conclude
<1>2. PICK r : Stamped(r, ts) /\ log'[n] = <<r>>
  <2>1. PICK r : Stamped(r, ts) /\ log'[n] = Append(log[n], r)
    BY <1>1
  <2>2. log[n] = <<>>
    BY SubmitStores
  <2> QED BY <2>1, <2>2, FirstRecord
<1>3. pending' = pending /\ resting' = resting
  BY DEF Conclude
<1>4. log'[n] # <<>> /\ DOMAIN log'[n] = {1} /\ log'[n][1] = r
  BY <1>2, FirstRecord
<1> HIDE DEF n
<1>5. \A m \in OrderIds : \A k \in DOMAIN log'[m] : RecordOK(log'[m][k])
  BY <1>1, <1>2, <1>4 DEF Inv, TypeOK, Stamped, RecordOK
<1>6. \A m \in OrderIds : log'[m] = <<>> \/ log'[m] = <<log'[m][1]>>
  BY <1>1, <1>2, <1>4 DEF Inv, OrderConservation
<1>7. \A m \in OrderIds : Working(m)' <=> Working(m)
  BY <1>3 DEF Working
<1>8. \A m \in OrderIds : Concluded(m)' <=> (Concluded(m) \/ m = n)
  BY <1>1, <1>4 DEF Concluded
<1>9. ~Working(n) /\ Submitted' = Submitted \union {n}
  BY SubmitStores DEF n
<1>10. \A m \in OrderIds : m \in Submitted' <=> (Working(m)' \/ Concluded(m)')
  BY <1>7, <1>8, <1>9 DEF Inv, OrderConservation
<1>11. \A m \in OrderIds : ~(Working(m)' /\ Concluded(m)')
  BY <1>7, <1>8, <1>9 DEF Inv, OrderConservation
<1>12. \A j \in Instruments : \A m \in pending[j] \union resting[j] :
          m \in OrderIds \ {n} /\ orders'[m] = orders[m]
  <2>1. \A j \in Instruments : \A m \in pending[j] \union resting[j] :
           m \in OrderIds /\ Working(m)
    BY DEF Inv, TypeOK, Working
  <2> QED BY <2>1, <1>9, SubmitStores DEF n
<1>13. \A j \in Instruments :
          /\ \A m \in pending'[j] : orders'[m].instrument = j /\ orders'[m].type = "Market"
          /\ \A m \in resting'[j] : orders'[m].instrument = j /\ orders'[m].type # "Market"
  BY <1>3, <1>12 DEF Inv, OrderConservation
<1> QED BY <1>1, <1>3, <1>5, <1>6, <1>10, <1>11, <1>13
        DEF Accounted, OrderConservation, Inv, TypeOK

(* An order kept by its engine: buffered if a market order, else resting. *)
LEMMA KeepAccounts ==
    ASSUME Inv, NEW order \in Order, SubmitOrder(order), log' = log,
           \/ /\ order.type = "Market" /\ Buffer(order.instrument, count + 1)
              /\ resting' = resting
           \/ /\ order.type # "Market" /\ Rest(order.instrument, count + 1)
              /\ pending' = pending
    PROVE  Accounted'
<1> DEFINE n == count + 1
           i == order.instrument
<1>0. n \in OrderIds /\ i \in Instruments
  BY SubmitStores DEF Order
<1>1. \/ /\ order.type = "Market" /\ resting' = resting
         /\ pending' = [pending EXCEPT ![i] = @ \union {n}]
      \/ /\ order.type # "Market" /\ pending' = pending
         /\ resting' = [resting EXCEPT ![i] = @ \union {n}]
  BY DEF Buffer, Rest
<1>2. /\ ~Working(n) /\ log[n] = <<>>
      /\ Submitted' = Submitted \union {n}
      /\ orders'[n].instrument = i /\ orders'[n].type = order.type
      /\ \A m \in OrderIds \ {n} : orders'[m] = orders[m]
  BY SubmitStores
<1> HIDE DEF n, i
<1>3. /\ pending' \in [Instruments -> SUBSET OrderIds]
      /\ resting' \in [Instruments -> SUBSET OrderIds]
  BY <1>0, <1>1 DEF Inv, TypeOK
<1>4. \A j \in Instruments :
         /\ \A m \in pending'[j] : (m \in pending[j]) \/ (m = n /\ j = i /\ order.type = "Market")
         /\ \A m \in resting'[j] : (m \in resting[j]) \/ (m = n /\ j = i /\ order.type # "Market")
         /\ pending[j] \subseteq pending'[j] /\ resting[j] \subseteq resting'[j]
  BY <1>0, <1>1 DEF Inv, TypeOK
<1>5. n \in pending'[i] \union resting'[i]
  BY <1>0, <1>1 DEF Inv, TypeOK
<1>6. \A m \in OrderIds : Working(m)' <=> (Working(m) \/ m = n)
  BY <1>0, <1>4, <1>5 DEF Working
<1>7. \A m \in OrderIds : Concluded(m)' <=> Concluded(m)
  BY DEF Concluded
<1>8. \A m \in OrderIds : m \in Submitted' <=> (Working(m)' \/ Concluded(m)')
  BY <1>2, <1>6, <1>7 DEF Inv, OrderConservation
<1>9. \A m \in OrderIds : ~(Working(m)' /\ Concluded(m)')
  BY <1>2, <1>6, <1>7 DEF Inv, OrderConservation, Concluded
<1>10. \A j \in Instruments : \A m \in pending[j] \union resting[j] :
          m \in OrderIds \ {n} /\ orders'[m] = orders[m]
  <2>1. \A j \in Instruments : \A m \in pending[j] \union resting[j] :
           m \in OrderIds /\ Working(m)
    BY DEF Inv, TypeOK, Working
  <2> QED BY <2>1, <1>2
<1>11. \A j \in Instruments :
          /\ \A m \in pending'[j] : orders'[m].instrument = j /\ orders'[m].type = "Market"
          /\ \A m \in resting'[j] : orders'[m].instrument = j /\ orders'[m].type # "Market"
  BY <1>2, <1>4, <1>10 DEF Inv, OrderConservation
<1> QED BY <1>3, <1>8, <1>9, <1>11 DEF Accounted, OrderConservation, Inv, TypeOK

(* submit_order puts the new order in one place, whichever way it takes. *)
LEMMA SubmitAccounts ==
    ASSUME Inv, NEW order \in Order, SubmitOrder(order)
    PROVE  Accounted'
<1> DEFINE i == order.instrument
           fill == ImmediateFill(i, order)
           one == [m \in {count + 1} |-> fill]
<1>1. \/ Conclude(<<>>, {count + 1}, now, "halted")
      \/ Conclude(one, {}, now + Latency, "book")
      \/ order.type = "Market" /\ Buffer(i, count + 1) /\ resting' = resting /\ log' = log
      \/ Conclude(<<>>, {count + 1}, now, "unfillable")
      \/ order.type # "Market" /\ Rest(i, count + 1) /\ pending' = pending /\ log' = log
  BY DEF SubmitOrder
<1>2. now \in Timestamp /\ now + Latency \in Timestamp
  BY EngineAssumption DEF Inv, TypeOK, Timestamp
<1>3. DOMAIN <<>> = {} /\ DOMAIN one = {count + 1}
  OBVIOUS
<1> HIDE DEF one, fill
<1>4. CASE Conclude(<<>>, {count + 1}, now, "halted")
  BY <1>2, <1>3, <1>4, ConcludeAccounts DEF RejectVias
<1>5. CASE Conclude(one, {}, now + Latency, "book")
  BY <1>2, <1>3, <1>5, ConcludeAccounts DEF FillVias
<1>6. CASE order.type = "Market" /\ Buffer(i, count + 1) /\ resting' = resting /\ log' = log
  BY <1>6, KeepAccounts
<1>7. CASE Conclude(<<>>, {count + 1}, now, "unfillable")
  BY <1>2, <1>3, <1>7, ConcludeAccounts DEF RejectVias
<1>8. CASE order.type # "Market" /\ Rest(i, count + 1) /\ pending' = pending /\ log' = log
  BY <1>8, KeepAccounts
<1> QED BY <1>1, <1>4, <1>5, <1>6, <1>7, <1>8

-----------------------------------------------------------------------------
(* The market side of the type invariant *)

MarketOK ==
    /\ now \in Timestamp
    /\ DOMAIN book = Instruments /\ \A i \in Instruments : IsBook(book[i])
    /\ fidelity \in [Instruments -> Fidelity]
    /\ lastBar \in [Instruments -> Optional([close : Price, ts : Timestamp])]
    /\ lastTrade \in [Instruments -> Optional(Price)]
    /\ markPrice \in [Instruments -> Optional(Price)]
    /\ halted \in [Instruments -> BOOLEAN]
    /\ dynamicTaker \in [Instruments -> Optional(Bps)]
    /\ settled \in [Instruments -> BOOLEAN]

(* The invariant, put together from its market and its order side. *)
LEMMA InvParts ==
    ASSUME MarketOK, Accounted, count \in 0..MaxOrders,
           orders \in [OrderIds -> SubmittedOrder \union {None}]
    PROVE  Inv
BY DEF MarketOK, Accounted, Inv, TypeOK

(* The values that the handlers store come typed with the payload. *)
LEMMA PayloadTypes ==
    ASSUME NEW p \in Payloads
    PROVE  /\ p.type \in {"Bar", "DerivedBar"} => p.open \in Price /\ p.close \in Price
           /\ p.type = "Quote" => /\ p.bid \in Price /\ p.bidSize \in Nat
                                 /\ p.ask \in Price /\ p.askSize \in Nat
           /\ p.type = "Trade" => p.price \in Price
           /\ p.type = "BookDelta" => /\ p.price \in Price /\ p.size \in Nat
                                     /\ p.action \in {"Add", "Modify", "Delete", "Clear"}
           /\ p.type = "BookSnapshot" => IsLevels(p.bids, Nat) /\ IsLevels(p.asks, Nat)
           /\ p.type \in {"MarkUpdate", "Funding"} => p.markPrice \in Price
           /\ p.type = "FeeScheduleUpdate" => p.takerBps \in Bps
BY EngineAssumption DEF BarPayload, QuotePayload, TradePayload, DeltaPayload,
   MarkPayload, StatusPayload, FeePayload, SignalPayload, ViewMarkPayload, IsSnapshot

(* Whatever is done to a side of a book, it stays a list of levels. *)
LEMMA ChangedLevels ==
    ASSUME NEW levels, IsLevels(levels, Quantity),
           NEW price \in Price, NEW size \in Nat,
           NEW action \in {"Add", "Modify", "Delete", "Clear"}
    PROVE  IsLevels(ChangeLevels(levels, price, size, action), Quantity)
<1> USE DEF IsLevels
<1>1. IsLevels(RemoveLevel(levels, price), Quantity)
  BY FS_RemoveElement DEF RemoveLevel, Restrict
<1>2. IsLevels(SetLevel(levels, price, size), Quantity)
  <2>1. CASE size <= 0
    BY <1>1, <2>1 DEF SetLevel
  <2>2. CASE ~(size <= 0)
    <3> DEFINE set == [q \in DOMAIN levels \union {price} |->
                         IF q = price THEN size ELSE levels[q]]
    <3>1. size \in Quantity
      BY <2>2 DEF Quantity
    <3>2. IsFiniteSet(DOMAIN levels \union {price})
      BY FS_AddElement
    <3>3. IsLevels(set, Quantity)
      BY <3>1, <3>2
    <3> QED BY <2>2, <3>3 DEF SetLevel
  <2> QED BY <2>1, <2>2
<1>3. IsLevels(<<>>, Quantity)
  BY FS_EmptySet
<1>4. CASE action \in {"Add", "Modify"}
  BY <1>2, <1>4 DEF ChangeLevels
<1>5. CASE action = "Delete"
  BY <1>1, <1>5 DEF ChangeLevels
<1>6. CASE action = "Clear"
  BY <1>3, <1>6 DEF ChangeLevels
<1> QED BY <1>4, <1>5, <1>6

(* A level update makes a book of a book. *)
LEMMA DeltaIsBook ==
    ASSUME NEW b, IsBook(b), NEW side, NEW price \in Price, NEW size \in Nat,
           NEW action \in {"Add", "Modify", "Delete", "Clear"}
    PROVE  IsBook(ApplyDelta(b, side, price, size, action))
<1> USE DEF IsBook
<1>1. CASE side = "Buy"
  <2> DEFINE bids == ChangeLevels(b.bids, price, size, action)
  <2>1. IsLevels(bids, Quantity)
    BY ChangedLevels
  <2>2. ApplyDelta(b, side, price, size, action) = [b EXCEPT !.bids = bids]
    BY <1>1 DEF ApplyDelta
  <2> HIDE DEF bids
  <2> QED BY <2>1, <2>2
<1>2. CASE side = "Sell"
  <2> DEFINE asks == ChangeLevels(b.asks, price, size, action)
  <2>1. IsLevels(asks, Quantity)
    BY ChangedLevels
  <2>2. ApplyDelta(b, side, price, size, action) = [b EXCEPT !.asks = asks]
    BY <1>2 DEF ApplyDelta
  <2> HIDE DEF asks
  <2> QED BY <2>1, <2>2
<1>3. CASE side \notin {"Buy", "Sell"}
  BY <1>3 DEF ApplyDelta
<1> QED BY <1>1, <1>2, <1>3

(* A snapshot makes a book: its empty levels are dropped. *)
LEMMA SnapshotIsBook ==
    ASSUME NEW bids, NEW asks, IsLevels(bids, Nat), IsLevels(asks, Nat)
    PROVE  IsBook(ApplySnapshot(bids, asks))
<1>1. ASSUME NEW levels, IsLevels(levels, Nat)
      PROVE  IsLevels(NonZero(levels), Quantity)
  <2> DEFINE kept == {q \in DOMAIN levels : levels[q] > 0}
  <2>1. IsFiniteSet(kept)
    BY <1>1, FS_Subset DEF IsLevels
  <2> QED BY <1>1, <2>1 DEF IsLevels, NonZero, Restrict, Quantity
<1> QED BY <1>1 DEF IsBook, ApplySnapshot

(* A step that retires orders and keeps the market side keeps the whole. *)
LEMMA RetiringInv ==
    ASSUME Inv, MarketOK', NEW i \in Instruments, NEW ts \in Timestamp,
           \E B, R : Retires(i, B, R, ts), UNCHANGED <<count, orders>>
    PROVE  Inv'
<1>1. PICK B, R : Retires(i, B, R, ts)
  OBVIOUS
<1>2. Accounted'
  BY <1>1, RetiringConserves DEF Accounted
<1>3. count' \in 0..MaxOrders /\ orders' \in [OrderIds -> SubmittedOrder \union {None}]
  BY DEF Inv, TypeOK
<1> QED BY <1>2, <1>3 DEF MarketOK, Accounted, Inv, TypeOK

(* A step that touches no order keeps all of them accounted for. *)
LEMMA QuietInv ==
    ASSUME Inv, MarketOK', UNCHANGED <<orderVars, count, orders>>
    PROVE  Inv'
<1>1. Accounted
  BY DEF Inv, TypeOK, Accounted
<1>2. Accounted'
  BY <1>1 DEF Accounted, OrderConservation, RecordOK, Submitted, Working, Concluded,
     orderVars
<1> QED BY <1>2 DEF MarketOK, Accounted, Inv, TypeOK

(* on_event keeps the invariant, handler by handler. *)
LEMMA EventInv ==
    ASSUME Inv, NEW i \in Instruments, NEW ts \in Timestamp, NEW p \in Payloads,
           now' \in Timestamp, HandleEvent(i, ts, p)
    PROVE  Inv'
<1> USE DEF Inv, runVars, orderVars
<1>1. CASE p.type \in {"Bar", "DerivedBar"} /\ HandleBar(i, ts, p)
  <2>1. p.close \in Price
    BY <1>1, PayloadTypes
  <2>2. lastBar' \in [Instruments -> Optional([close : Price, ts : Timestamp])]
    BY <1>1, <2>1 DEF HandleBar, TypeOK, Optional
  <2>3. MarketOK'
    BY <1>1, <2>1, <2>2 DEF HandleBar, TypeOK, MarketOK, Fidelity, Optional
  <2> QED BY <1>1, <2>3, BarRetires, RetiringInv DEF HandleBar
<1>2. CASE p.type = "Quote" /\ HandleQuote(i, ts, p)
  <2>1. IsBook(ApplyDelta(ApplyDelta(book[i], "Buy", p.bid, p.bidSize, "Modify"),
                          "Sell", p.ask, p.askSize, "Modify"))
    BY <1>2, PayloadTypes, DeltaIsBook DEF TypeOK
  <2>2. DOMAIN book' = Instruments /\ \A j \in Instruments : IsBook(book'[j])
    BY <1>2, <2>1 DEF HandleQuote, TypeOK
  <2>3. MarketOK'
    BY <1>2, <2>2 DEF HandleQuote, TypeOK, MarketOK, Fidelity
  <2> QED BY <1>2, <2>3, QuoteRetires, RetiringInv DEF HandleQuote
<1>3. CASE p.type = "Trade" /\ HandleTrade(i, ts, p.price)
  <2>1. MarketOK'
    BY <1>3, PayloadTypes DEF HandleTrade, TypeOK, MarketOK, Fidelity, Optional
  <2> QED BY <1>3, <2>1, TradeRetires, RetiringInv DEF HandleTrade
<1>4. ASSUME NEW newBook, IsBook(newBook), HandleBook(i, newBook)
      PROVE  Inv'
  <2>1. DOMAIN book' = Instruments /\ \A j \in Instruments : IsBook(book'[j])
    BY <1>4 DEF HandleBook, TypeOK
  <2>2. MarketOK'
    BY <1>4, <2>1 DEF HandleBook, TypeOK, MarketOK, Fidelity
  <2> QED BY <1>4, <2>2, QuietInv DEF HandleBook
<1>9. CASE p.type = "BookDelta" /\
             HandleBook(i, ApplyDelta(book[i], p.side, p.price, p.size, p.action))
  BY <1>4, <1>9, PayloadTypes, DeltaIsBook DEF TypeOK
<1>10. CASE p.type = "BookSnapshot" /\ HandleBook(i, ApplySnapshot(p.bids, p.asks))
  BY <1>4, <1>10, PayloadTypes, SnapshotIsBook
<1>5. CASE p.type \in {"MarkUpdate", "Funding"} /\ HandleMark(i, p)
  <2>1. MarketOK'
    BY <1>5, PayloadTypes DEF HandleMark, TypeOK, MarketOK, Optional
  <2> QED BY <1>5, <2>1, QuietInv DEF HandleMark
<1>6. CASE p.type = "TradingStatus" /\ HandleStatus(i, p.status)
  <2>1. halted' \in [Instruments -> BOOLEAN]
    <3> DEFINE flag == p.status \in {"Halted", "Suspended"}
    <3>1. flag \in BOOLEAN
      OBVIOUS
    <3>2. halted' = [halted EXCEPT ![i] = flag]
      BY <1>6 DEF HandleStatus
    <3> HIDE DEF flag
    <3> QED BY <3>1, <3>2, Zenon DEF TypeOK
  <2>2. MarketOK'
    BY <1>6, <2>1 DEF HandleStatus, TypeOK, MarketOK
  <2> QED BY <1>6, <2>2, QuietInv DEF HandleStatus
<1>7. CASE p.type = "FeeScheduleUpdate" /\ HandleFees(i, p)
  <2>1. MarketOK'
    BY <1>7, PayloadTypes DEF HandleFees, TypeOK, MarketOK, Optional
  <2> QED BY <1>7, <2>1, QuietInv DEF HandleFees
<1>8. CASE HandleSignal(i, p.type)
  <2>1. MarketOK'
    BY <1>8 DEF HandleSignal, TypeOK, MarketOK, Fidelity
  <2> QED BY <1>8, <2>1, QuietInv DEF HandleSignal
<1> QED BY <1>1, <1>2, <1>3, <1>5, <1>6, <1>7, <1>8, <1>9, <1>10 DEF HandleEvent

(* submit_order keeps the invariant. *)
LEMMA SubmitInv ==
    ASSUME Inv, NEW order \in OrderSpecs, OnSubmit(order)
    PROVE  Inv'
<1>1. order \in Order /\ SubmitOrder(order) /\ now' = now
  BY EngineAssumption DEF OnSubmit
<1>2. Accounted'
  BY <1>1, SubmitAccounts
<1>3. count' \in 0..MaxOrders /\ orders' \in [OrderIds -> SubmittedOrder \union {None}]
  BY <1>1, SubmitStores
<1>4. UNCHANGED <<marketVars, settled>>
  BY <1>1 DEF SubmitOrder
<1>5. MarketOK'
  BY <1>1, <1>4 DEF marketVars, MarketOK, Inv, TypeOK
<1> QED BY <1>2, <1>3, <1>5 DEF MarketOK, Accounted, Inv, TypeOK

(* settle keeps the invariant, with a price and without one. *)
LEMMA SettleInv ==
    ASSUME Inv, NEW i \in Instruments, OnSettle(i)
    PROVE  Inv'
<1>1. now' = now /\ SettleEngine(i)
  BY DEF OnSettle
<1>2. MarketOK'
  BY <1>1 DEF SettleEngine, marketVars, MarketOK, Inv, TypeOK
<1>3. UNCHANGED <<count, orders>> /\ now \in Timestamp
  BY <1>1 DEF SettleEngine, Inv, TypeOK
<1>4. CASE SettlePrice(i) = None /\ UNCHANGED orderVars
  BY <1>2, <1>3, <1>4, QuietInv
<1>5. CASE SettlePrice(i) # None
  BY <1>1, <1>2, <1>3, <1>5, SettlementRetires, RetiringInv
<1> QED BY <1>1, <1>4, <1>5 DEF SettleEngine, orderVars

-----------------------------------------------------------------------------
(* The theorems *)

(* A fresh engine holds no order and has no record. *)
LEMMA InitInv == Init => Inv
<1> SUFFICES ASSUME Init PROVE Inv
  OBVIOUS
<1>1. MarketOK
  <2>1. IsBook(EmptyBook)
    BY FS_EmptySet DEF IsBook, IsLevels, EmptyBook
  <2> QED BY <2>1, EngineAssumption DEF Init, MarketOK, Timestamp, Fidelity, Optional
<1>2. count = 0 /\ MaxOrders \in Nat /\ Submitted = {}
  BY EngineAssumption DEF Init, Submitted
<1>3. orders \in [OrderIds -> SubmittedOrder \union {None}]
  BY DEF Init
<1>4. Accounted
  BY <1>2 DEF Init, Accounted, OrderConservation, Working, Concluded
<1> QED BY <1>1, <1>2, <1>3, <1>4, InvParts

(* Every step keeps the invariant. *)
LEMMA NextInv == Inv /\ [Next]_vars => Inv'
<1> SUFFICES ASSUME Inv, [Next]_vars PROVE Inv'
  OBVIOUS
<1>1. ASSUME NEW i \in Instruments, NEW ts \in now..MaxTime, NEW p \in Payloads,
             OnEvent(i, ts, p)
      PROVE  Inv'
  <2>1. ts \in Timestamp
    BY EngineAssumption DEF Inv, TypeOK, Timestamp
  <2> QED BY <1>1, <2>1, EventInv DEF OnEvent
<1>2. ASSUME NEW order \in OrderSpecs, OnSubmit(order)
      PROVE  Inv'
  BY <1>2, SubmitInv
<1>3. ASSUME NEW i \in Instruments, OnSettle(i)
      PROVE  Inv'
  BY <1>3, SettleInv
<1>4. ASSUME NEW ts \in (now + 1)..MaxTime, OnClock(ts)
      PROVE  Inv'
  <2>1. ts \in Timestamp
    BY EngineAssumption DEF Inv, TypeOK, Timestamp
  <2>2. MarketOK'
    BY <1>4, <2>1 DEF OnClock, marketVars, runVars, MarketOK, Inv, TypeOK
  <2> QED BY <1>4, <2>2, QuietInv DEF OnClock, runVars
<1>5. CASE UNCHANGED vars
  <2>1. MarketOK'
    BY <1>5 DEF vars, marketVars, runVars, MarketOK, Inv, TypeOK
  <2> QED BY <1>5, <2>1, QuietInv DEF vars, runVars
<1> QED BY <1>1, <1>2, <1>3, <1>4, <1>5 DEF Next

(* Types and conservation hold together in every reachable state. *)
THEOREM InvInvariant == Spec => []Inv
BY InitInv, NextInv, PTL DEF Spec

(***************************************************************************)
(* The engine's state is well typed in every reachable state.              *)
(***************************************************************************)
THEOREM TypeCorrect == Spec => []TypeOK
BY InvInvariant, PTL DEF Inv

(***************************************************************************)
(* No order is ever lost, duplicated or concluded twice, whatever the data *)
(* and the orders are.                                                     *)
(***************************************************************************)
THEOREM OrdersConserved == Spec => []OrderConservation
BY InvInvariant, PTL DEF Inv

-----------------------------------------------------------------------------
(* Latency *)

(***************************************************************************)
(* What the latency rule rests on: a submitted order is stored with its    *)
(* decision time, which is not in the future.                              *)
(***************************************************************************)
TimeInv == \A n \in Submitted : orders[n] \in SubmittedOrder /\ orders[n].ts <= now

LatencyInv == TimeInv /\ DataFillsRespectLatency

LatencyOK(r, ts) ==
    r.kind = "fill" =>
        /\ r.via \in {"bar", "quote", "trade"} => r.ts >= ts + Latency
        /\ r.ts >= ts

(* The latency rule, record by record, in a state and in its successor. *)
LEMMA LatencyByRecord ==
    /\ DataFillsRespectLatency <=>
          \A n \in OrderIds : log[n] # <<>> => LatencyOK(log[n][1], orders[n].ts)
    /\ DataFillsRespectLatency' <=>
          \A n \in OrderIds : log'[n] # <<>> => LatencyOK(log'[n][1], orders'[n].ts)
BY DEF DataFillsRespectLatency, LatencyOK, Fills, ActiveTs

(* An order that the engine holds or has concluded is a submitted one. *)
LEMMA HeldIsSubmitted ==
    ASSUME Inv
    PROVE  /\ \A i \in Instruments : pending[i] \union resting[i] \subseteq Submitted
           /\ \A n \in OrderIds : log[n] # <<>> => n \in Submitted
BY DEF Inv, TypeOK, OrderConservation, Working, Concluded

(***************************************************************************)
(* A handler that records fills and rejections of orders it holds keeps    *)
(* the latency rule if it fills only orders that are active.               *)
(***************************************************************************)
LEMMA RecordKeepsLatency ==
    ASSUME Inv, LatencyInv, NEW i \in Instruments,
           NEW fills, NEW rejects, NEW ts \in Timestamp, NEW via,
           Record(fills, rejects, ts, via),
           DOMAIN fills \union rejects \subseteq pending[i] \union resting[i],
           \/ /\ via \in {"bar", "quote", "trade"}
              /\ \A n \in DOMAIN fills : ActiveTs(n) <= ts
           \/ via = "settle" /\ ts = now,
           UNCHANGED orders
    PROVE  DataFillsRespectLatency'
<1> SUFFICES ASSUME NEW n \in OrderIds, log'[n] # <<>>
             PROVE  LatencyOK(log'[n][1], orders[n].ts)
  BY LatencyByRecord
<1>1. CASE n \in DOMAIN fills
  <2>1. log'[n] = Append(log[n], FillRecord(ts, fills[n], via))
    BY <1>1 DEF Record
  <2>2. log[n] = <<>> /\ n \in Submitted
    <3>1. Working(n)
      BY <1>1 DEF Working
    <3> QED BY <3>1 DEF Inv, OrderConservation, Concluded
  <2>3. log'[n][1] = FillRecord(ts, fills[n], via)
    BY <2>1, <2>2, FirstRecord
  <2>4. orders[n].ts \in Nat /\ orders[n].ts <= now /\ now \in Nat /\ ts \in Nat
    BY <2>2 DEF LatencyInv, TimeInv, SubmittedOrder, Inv, TypeOK, Timestamp
  <2>5. ActiveTs(n) = orders[n].ts + Latency
    BY DEF ActiveTs
  <2>6. Latency \in Nat
    BY EngineAssumption
  <2>7. CASE via \in {"bar", "quote", "trade"}
    <3>1. ActiveTs(n) <= ts
      BY <1>1, <2>7
    <3> QED BY <2>3, <2>4, <2>5, <2>6, <2>7, <3>1 DEF LatencyOK, FillRecord
  <2>8. CASE via = "settle" /\ ts = now
    BY <2>3, <2>4, <2>8 DEF LatencyOK, FillRecord
  <2> QED BY <2>7, <2>8
<1>2. CASE n \notin DOMAIN fills /\ n \in rejects
  <2>1. log'[n] = Append(log[n], RejectRecord(ts, via))
    BY <1>2 DEF Record
  <2>2. log[n] = <<>>
    <3>1. Working(n)
      BY <1>2 DEF Working
    <3> QED BY <3>1 DEF Inv, OrderConservation, Concluded
  <2>3. log'[n][1] = RejectRecord(ts, via)
    BY <2>1, <2>2, FirstRecord
  <2> QED BY <2>3 DEF LatencyOK, RejectRecord
<1>3. CASE n \notin DOMAIN fills /\ n \notin rejects
  <2>1. log'[n] = log[n]
    BY <1>3 DEF Record
  <2> QED BY <2>1, LatencyByRecord DEF LatencyInv
<1> QED BY <1>1, <1>2, <1>3

(* A step that leaves orders and records alone keeps the latency rule. *)
LEMMA QuietKeepsLatency ==
    ASSUME LatencyInv, UNCHANGED <<log, orders>>
    PROVE  DataFillsRespectLatency'
BY DEF LatencyInv, DataFillsRespectLatency, Fills, ActiveTs

(* The orders an engine considers are active. *)
LEMMA EligibleIsActive ==
    ASSUME NEW S, NEW ts, NEW n \in Eligible(S, ts)
    PROVE  n \in S /\ ActiveTs(n) <= ts
BY DEF Eligible

(* on_event fills active orders only. *)
LEMMA EventKeepsLatency ==
    ASSUME Inv, LatencyInv, NEW i \in Instruments, NEW ts \in Timestamp,
           NEW p \in Payloads, HandleEvent(i, ts, p)
    PROVE  DataFillsRespectLatency' /\ UNCHANGED <<count, orders>>
<1> USE DEF orderVars, runVars
<1>1. CASE p.type \in {"Bar", "DerivedBar"} /\ HandleBar(i, ts, p)
  <2> DEFINE bought  == Eligible(pending[i], ts)
             checked == {n \in Eligible(resting[i], ts) : Checkable(orders[n])}
             reached == {n \in checked : CrossedByBar(orders[n], p)}
             expired == {n \in checked \ reached : orders[n].tif # "Gtc"}
             fills   == [n \in bought \union reached |->
                           FillWhole(i, orders[n],
                                     IF n \in bought THEN p.open
                                     ELSE BarFillPrice(orders[n], p))]
  <2>1. Record(fills, expired, ts, "bar") /\ UNCHANGED <<count, orders>>
    BY <1>1 DEF HandleBar
  <2>2. DOMAIN fills = bought \union reached
    OBVIOUS
  <2>3. bought \union reached \union expired \subseteq pending[i] \union resting[i]
    BY EligibleIsActive
  <2>4. \A n \in bought \union reached : ActiveTs(n) <= ts
    BY EligibleIsActive
  <2> HIDE DEF bought, checked, reached, expired, fills
  <2> QED BY <2>1, <2>2, <2>3, <2>4, RecordKeepsLatency
<1>2. CASE p.type = "Quote" /\ HandleQuote(i, ts, p)
  <2> DEFINE quoted == ApplyDelta(ApplyDelta(book[i], "Buy", p.bid, p.bidSize, "Modify"),
                                  "Sell", p.ask, p.askSize, "Modify")
             Fill(n) == FillL1(orders[n], quoted, FeeSchedule[i], EffectiveTaker(i))
             filled  == {m \in Eligible(pending[i], ts) : Fill(m) # None}
             fills   == [n \in filled |-> Fill(n)]
  <2>1. Record(fills, {}, ts, "quote") /\ UNCHANGED <<count, orders>>
    BY <1>2 DEF HandleQuote
  <2>2. DOMAIN fills = filled
    OBVIOUS
  <2>3. filled \subseteq pending[i] \union resting[i]
    BY EligibleIsActive
  <2>4. \A n \in filled : ActiveTs(n) <= ts
    BY EligibleIsActive
  <2> HIDE DEF quoted, Fill, filled, fills
  <2> QED BY <2>1, <2>2, <2>3, <2>4, RecordKeepsLatency
<1>3. CASE p.type = "Trade" /\ HandleTrade(i, ts, p.price)
  <2> DEFINE reached == {n \in Eligible(resting[i], ts) :
                           Checkable(orders[n]) /\ CrossedByTrade(orders[n], p.price)}
             fills   == [n \in reached |->
                           FillWhole(i, orders[n], TradeFillPrice(orders[n]))]
  <2>1. Record(fills, {}, ts, "trade") /\ UNCHANGED <<count, orders>>
    BY <1>3 DEF HandleTrade
  <2>2. DOMAIN fills = reached
    OBVIOUS
  <2>3. reached \subseteq pending[i] \union resting[i]
    BY EligibleIsActive
  <2>4. \A n \in reached : ActiveTs(n) <= ts
    BY EligibleIsActive
  <2> HIDE DEF reached, fills
  <2> QED BY <2>1, <2>2, <2>3, <2>4, RecordKeepsLatency
<1>4. ASSUME NEW newBook, HandleBook(i, newBook)
      PROVE  DataFillsRespectLatency' /\ UNCHANGED <<count, orders>>
  BY <1>4, QuietKeepsLatency DEF HandleBook
<1>5. CASE HandleMark(i, p)
  BY <1>5, QuietKeepsLatency DEF HandleMark
<1>6. CASE HandleStatus(i, p.status)
  BY <1>6, QuietKeepsLatency DEF HandleStatus
<1>7. CASE HandleFees(i, p)
  BY <1>7, QuietKeepsLatency DEF HandleFees
<1>8. CASE HandleSignal(i, p.type)
  BY <1>8, QuietKeepsLatency DEF HandleSignal
<1> QED BY <1>1, <1>2, <1>3, <1>4, <1>5, <1>6, <1>7, <1>8 DEF HandleEvent

(* Orders do not change and time does not go back: TimeInv is kept. *)
LEMMA QuietKeepsTime ==
    ASSUME Inv, LatencyInv, UNCHANGED <<count, orders>>, now' \in Nat, now' >= now
    PROVE  TimeInv'
<1> SUFFICES ASSUME NEW n \in Submitted
             PROVE  orders[n] \in SubmittedOrder /\ orders[n].ts <= now'
  BY DEF TimeInv, Submitted
<1>1. orders[n] \in SubmittedOrder /\ orders[n].ts <= now
  BY DEF LatencyInv, TimeInv
<1>2. orders[n].ts \in Nat /\ now \in Nat
  BY <1>1 DEF SubmittedOrder, Timestamp, Inv, TypeOK
<1> QED BY <1>1, <1>2

(* A new order enters with the clock's time and fills at its active time. *)
LEMMA SubmitKeepsLatency ==
    ASSUME Inv, LatencyInv, NEW order \in Order, SubmitOrder(order), now' = now
    PROVE  LatencyInv'
<1> DEFINE n == count + 1
           i == order.instrument
           fill == ImmediateFill(i, order)
           one == [m \in {n} |-> fill]
           stored == [ instrument |-> i, side |-> order.side, type |-> order.type,
                       qty |-> order.qty, limit |-> order.limit, stop |-> order.stop,
                       tif |-> order.tif, ts |-> now ]
<1>1. n \in OrderIds /\ log[n] = <<>> /\ Submitted' = Submitted \union {n}
  BY SubmitStores
<1>2. orders'[n] = stored
  BY <1>1 DEF SubmitOrder, Inv, TypeOK
<1>3. stored \in SubmittedOrder /\ stored.ts = now
  BY DEF Inv, TypeOK, Order, SubmittedOrder
<1>4. \A m \in Submitted : m # n /\ m \in OrderIds /\ orders'[m] = orders[m]
  <2>1. count \in Nat /\ MaxOrders \in Nat /\ count <= MaxOrders
    BY EngineAssumption DEF Inv, TypeOK
  <2>2. \A m \in Submitted : m # n /\ m \in OrderIds
    BY <2>1 DEF Submitted, OrderIds
  <2> QED BY <2>2, SubmitStores
<1>5. \/ log' = log
      \/ \E via : Record(<<>>, {n}, now, via)
      \/ Record(one, {}, now + Latency, "book")
  BY DEF SubmitOrder, Conclude, Buffer, Rest
<1>6. DOMAIN one = {n} /\ DOMAIN <<>> = {}
  OBVIOUS
<1>7. now \in Nat /\ Latency \in Nat
  BY EngineAssumption DEF Inv, TypeOK, Timestamp
<1> HIDE DEF n, i, fill, one, stored
<1>8. TimeInv'
  BY <1>1, <1>2, <1>3, <1>4, <1>7 DEF TimeInv, LatencyInv
<1>9. \A m \in OrderIds : m # n /\ log[m] # <<>> =>
         LatencyOK(log[m][1], orders[m].ts) /\ orders'[m] = orders[m]
  BY <1>4, HeldIsSubmitted, LatencyByRecord DEF LatencyInv
<1>10. ASSUME NEW m \in OrderIds, m # n, log'[m] = log[m], log'[m] # <<>>
       PROVE  LatencyOK(log'[m][1], orders'[m].ts)
  BY <1>9, <1>10
<1>11. CASE log' = log
  <2>1. \A m \in OrderIds : log'[m] # <<>> => LatencyOK(log'[m][1], orders'[m].ts)
    BY <1>1, <1>10, <1>11
  <2> QED BY <1>8, <2>1, LatencyByRecord DEF LatencyInv
<1>12. ASSUME NEW via, Record(<<>>, {n}, now, via)
       PROVE  LatencyInv'
  <2>1. log'[n] = Append(log[n], RejectRecord(now, via))
    BY <1>1, <1>6, <1>12 DEF Record
  <2>2. LatencyOK(log'[n][1], orders'[n].ts)
    BY <1>1, <2>1, FirstRecord DEF LatencyOK, RejectRecord
  <2>3. \A m \in OrderIds \ {n} : log'[m] = log[m]
    BY <1>6, <1>12 DEF Record
  <2>4. \A m \in OrderIds : log'[m] # <<>> => LatencyOK(log'[m][1], orders'[m].ts)
    BY <1>10, <2>2, <2>3
  <2> QED BY <1>8, <2>4, LatencyByRecord DEF LatencyInv
<1>13. CASE Record(one, {}, now + Latency, "book")
  <2>1. log'[n] = Append(log[n], FillRecord(now + Latency, one[n], "book"))
    BY <1>1, <1>6, <1>13 DEF Record
  <2>2. log'[n][1] = FillRecord(now + Latency, one[n], "book")
    BY <1>1, <2>1, FirstRecord
  <2>3. LatencyOK(log'[n][1], orders'[n].ts)
    BY <1>2, <1>3, <1>7, <2>2 DEF LatencyOK, FillRecord
  <2>4. \A m \in OrderIds \ {n} : log'[m] = log[m]
    BY <1>6, <1>13 DEF Record
  <2>5. \A m \in OrderIds : log'[m] # <<>> => LatencyOK(log'[m][1], orders'[m].ts)
    BY <1>10, <2>3, <2>4
  <2> QED BY <1>8, <2>5, LatencyByRecord DEF LatencyInv
<1> QED BY <1>5, <1>11, <1>12, <1>13

(* Settlement fills at the clock's time, latency or not. *)
LEMMA SettleKeepsLatency ==
    ASSUME Inv, LatencyInv, NEW i \in Instruments, SettleEngine(i)
    PROVE  DataFillsRespectLatency' /\ UNCHANGED <<count, orders>>
<1>1. UNCHANGED <<count, orders>> /\ now \in Timestamp
  BY DEF SettleEngine, Inv, TypeOK
<1>2. CASE UNCHANGED orderVars
  BY <1>1, <1>2, QuietKeepsLatency DEF orderVars
<1>3. CASE Record(SettleFills(i), resting[i], now, "settle")
  <2>1. DOMAIN SettleFills(i) = pending[i]
    BY DEF SettleFills
  <2> QED BY <1>1, <1>3, <2>1, RecordKeepsLatency
<1> QED BY <1>2, <1>3 DEF SettleEngine

(* Every step keeps the latency rule and what it rests on. *)
LEMMA NextLatency == Inv /\ LatencyInv /\ [Next]_vars => LatencyInv'
<1> SUFFICES ASSUME Inv, LatencyInv, [Next]_vars PROVE LatencyInv'
  OBVIOUS
<1> USE DEF LatencyInv
<1>0. now \in Nat /\ MaxTime \in Nat
  BY EngineAssumption DEF Inv, TypeOK, Timestamp
<1>1. ASSUME NEW i \in Instruments, NEW ts \in now..MaxTime, NEW p \in Payloads,
             OnEvent(i, ts, p)
      PROVE  LatencyInv'
  <2>1. ts \in Timestamp /\ ts \in Nat /\ ts >= now /\ now' = ts
    BY <1>0, <1>1 DEF OnEvent, Timestamp
  <2>2. DataFillsRespectLatency' /\ UNCHANGED <<count, orders>>
    BY <1>1, <2>1, EventKeepsLatency DEF OnEvent
  <2> QED BY <2>1, <2>2, QuietKeepsTime
<1>2. ASSUME NEW order \in OrderSpecs, OnSubmit(order)
      PROVE  LatencyInv'
  <2>1. order \in Order
    BY EngineAssumption
  <2> QED BY <1>2, <2>1, SubmitKeepsLatency DEF OnSubmit
<1>3. ASSUME NEW ts \in (now + 1)..MaxTime, OnClock(ts)
      PROVE  LatencyInv'
  <2>1. UNCHANGED <<log, count, orders>> /\ now' \in Nat /\ now' >= now
    BY <1>0, <1>3 DEF OnClock, orderVars, runVars
  <2> QED BY <2>1, QuietKeepsTime, QuietKeepsLatency
<1>4. ASSUME NEW i \in Instruments, OnSettle(i)
      PROVE  LatencyInv'
  <2>1. SettleEngine(i) /\ now' = now
    BY <1>4 DEF OnSettle
  <2> QED BY <1>0, <2>1, SettleKeepsLatency, QuietKeepsTime
<1>5. CASE UNCHANGED vars
  BY <1>0, <1>5, QuietKeepsTime, QuietKeepsLatency DEF vars, orderVars, runVars
<1> QED BY <1>1, <1>2, <1>3, <1>4, <1>5 DEF Next

(***************************************************************************)
(* The latency rule holds in every run of the engine, whatever the data,   *)
(* the orders and the latency are: data that arrives fills an order at its *)
(* submission time plus latency_ns or later, and no fill is dated before   *)
(* the order.                                                              *)
(***************************************************************************)
THEOREM LatencyRespected == Spec => []DataFillsRespectLatency
<1>1. Init => LatencyInv
  BY EngineAssumption DEF Init, LatencyInv, TimeInv, Submitted, DataFillsRespectLatency, Fills
<1>2. Spec => []LatencyInv
  BY <1>1, NextLatency, InvInvariant, PTL DEF Spec
<1> QED BY <1>2, PTL DEF LatencyInv

-----------------------------------------------------------------------------
(***************************************************************************)
(* OrderBookEngine implements OrderLifecycle.  By the invariant the        *)
(* abstract state of an order is a function of whether it was submitted    *)
(* and of its record, so each step need only be asked which records it     *)
(* writes.                                                                 *)
(***************************************************************************)
AbstractState == [n \in OrderIds |-> OrderState(n)]

Verdict(r) == IF r.kind = "fill" THEN "filled" ELSE "rejected"

(* The abstract state of an order, read off its submission and its record. *)
LEMMA StateFromLog ==
    ASSUME Inv, NEW n \in OrderIds
    PROVE  OrderState(n) = IF n \notin Submitted THEN "new"
                           ELSE IF log[n] = <<>> THEN "working"
                           ELSE Verdict(log[n][1])
BY DEF Inv, OrderConservation, OrderState, Concluded, Verdict

(* The same in the successor state. *)
LEMMA StateFromLogNext ==
    ASSUME Inv', NEW n \in OrderIds
    PROVE  OrderState(n)' = IF n \notin Submitted' THEN "new"
                            ELSE IF log'[n] = <<>> THEN "working"
                            ELSE Verdict(log'[n][1])
BY DEF Inv, OrderConservation, OrderState, Concluded, Verdict

(* A market event retires orders of its engine, or touches none at all. *)
LEMMA EventRetires ==
    ASSUME Inv, NEW i \in Instruments, NEW ts, NEW p, HandleEvent(i, ts, p)
    PROVE  /\ UNCHANGED <<count, orders>>
           /\ UNCHANGED orderVars \/ \E B, R : Retires(i, B, R, ts)
<1> USE DEF runVars, orderVars
<1>1. CASE HandleBar(i, ts, p)
  BY <1>1, BarRetires DEF HandleBar
<1>2. CASE HandleQuote(i, ts, p)
  BY <1>2, QuoteRetires DEF HandleQuote
<1>3. CASE HandleTrade(i, ts, p.price)
  BY <1>3, TradeRetires DEF HandleTrade
<1>4. ASSUME NEW newBook, HandleBook(i, newBook)
      PROVE  UNCHANGED <<count, orders, orderVars>>
  BY <1>4 DEF HandleBook
<1>5. CASE HandleMark(i, p)
  BY <1>5 DEF HandleMark
<1>6. CASE HandleStatus(i, p.status)
  BY <1>6 DEF HandleStatus
<1>7. CASE HandleFees(i, p)
  BY <1>7 DEF HandleFees
<1>8. CASE HandleSignal(i, p.type)
  BY <1>8 DEF HandleSignal
<1> QED BY <1>1, <1>2, <1>3, <1>4, <1>5, <1>6, <1>7, <1>8 DEF HandleEvent

(* A step that touches no order is a stutter of the lifecycle. *)
LEMMA QuietStutters ==
    ASSUME UNCHANGED orderVars
    PROVE  AbstractState' = AbstractState
BY DEF orderVars, AbstractState, OrderState, Concluded, Working

(* Retiring orders concludes working orders, and no others. *)
LEMMA RetiringConcludes ==
    ASSUME Inv, Inv', NEW i \in Instruments, NEW ts, NEW B, NEW R,
           Retires(i, B, R, ts), UNCHANGED count
    PROVE  Lifecycle!Conclude
<1>1. Submitted' = Submitted
  BY DEF Submitted
<1>2. ASSUME NEW n \in OrderIds, n \notin B \union R
      PROVE  OrderState(n)' = OrderState(n)
  <2>1. log'[n] = log[n]
    BY <1>2 DEF Retires
  <2> QED BY <1>1, <2>1, StateFromLog, StateFromLogNext
<1>3. ASSUME NEW n \in OrderIds, n \in B \union R
      PROVE  OrderState(n) = "working" /\ OrderState(n)' \in {"filled", "rejected"}
  <2>1. Working(n)
    BY <1>3 DEF Retires, Working
  <2>2. n \in Submitted /\ log[n] = <<>>
    BY <2>1 DEF Inv, OrderConservation, Concluded
  <2>3. \E r : log'[n] = Append(log[n], r)
    BY <1>3 DEF Retires
  <2>4. log'[n] # <<>>
    BY <2>2, <2>3, FirstRecord
  <2> QED BY <1>1, <2>2, <2>4, StateFromLog, StateFromLogNext DEF Verdict
<1>4. \A n \in OrderIds :
         /\ OrderState(n)' \in {"new", "working", "filled", "rejected"}
         /\ \/ OrderState(n)' = OrderState(n)
            \/ OrderState(n) = "working" /\ OrderState(n)' \in {"filled", "rejected"}
  BY <1>2, <1>3, StateFromLogNext DEF Verdict
<1> QED BY <1>4 DEF Lifecycle!Conclude, Lifecycle!States, Lifecycle!Done

(* Submission is the abstract Submit of the next order number. *)
LEMMA SubmissionSubmits ==
    ASSUME Inv, Inv', NEW order \in Order, SubmitOrder(order)
    PROVE  Lifecycle!Submit(count + 1)
<1>0. PICK n \in OrderIds : n = count + 1
  BY SubmitStores
<1> DEFINE one == [m \in {n} |-> ImmediateFill(order.instrument, order)]
<1>1. /\ log[n] = <<>> /\ ~Working(n)
      /\ Submitted' = Submitted \union {n}
  BY <1>0, SubmitStores
<1>2. n \notin Submitted /\ \A m \in OrderIds : m < n => m \in Submitted
  <2>1. count \in Nat /\ MaxOrders \in Nat
    BY EngineAssumption DEF Inv, TypeOK
  <2> QED BY <2>1, <1>0 DEF Submitted, OrderIds
<1>3. \A m \in OrderIds \ {n} : log'[m] = log[m]
  <2>1. \/ log' = log
        \/ \E via : Record(<<>>, {n}, now, via)
        \/ Record(one, {}, now + Latency, "book")
    BY <1>0 DEF SubmitOrder, Conclude, Buffer, Rest
  <2>2. DOMAIN one = {n} /\ DOMAIN <<>> = {}
    OBVIOUS
  <2> HIDE DEF one
  <2> QED BY <2>1, <2>2 DEF Record
<1>4. \A m \in OrderIds \ {n} : OrderState(m)' = OrderState(m)
  BY <1>1, <1>3, StateFromLog, StateFromLogNext
<1>5. OrderState(n) = "new" /\ OrderState(n)' \in {"working", "filled", "rejected"}
  BY <1>1, <1>2, StateFromLog, StateFromLogNext DEF Verdict
<1>6. \A m \in OrderIds : m < n => OrderState(m) # "new"
  BY <1>2, StateFromLog DEF Verdict
<1>7. AbstractState' = [AbstractState EXCEPT ![n] = OrderState(n)']
  BY <1>1, <1>4 DEF AbstractState
<1> QED BY <1>0, <1>5, <1>6, <1>7 DEF Lifecycle!Submit, Lifecycle!Done, AbstractState

(* Every step of the engine is a step of the lifecycle, or a stutter. *)
LEMMA StepSimulates ==
    Inv /\ Inv' /\ [Next]_vars => [Lifecycle!Next]_AbstractState
<1> SUFFICES ASSUME Inv, Inv', [Next]_vars
             PROVE  Lifecycle!Next \/ AbstractState' = AbstractState
  BY DEF AbstractState
<1>1. ASSUME NEW i \in Instruments, NEW ts, NEW p, OnEvent(i, ts, p)
      PROVE  Lifecycle!Conclude \/ AbstractState' = AbstractState
  <2>1. /\ UNCHANGED <<count, orders>>
        /\ UNCHANGED orderVars \/ \E B, R : Retires(i, B, R, ts)
    BY <1>1, EventRetires DEF OnEvent
  <2> QED BY <2>1, QuietStutters, RetiringConcludes
<1>2. ASSUME NEW order \in OrderSpecs, OnSubmit(order)
      PROVE  \E n \in OrderIds : Lifecycle!Submit(n)
  <2>1. order \in Order /\ SubmitOrder(order)
    BY <1>2, EngineAssumption DEF OnSubmit
  <2> QED BY <2>1, SubmissionSubmits, SubmitStores
<1>3. ASSUME NEW ts, OnClock(ts)
      PROVE  AbstractState' = AbstractState
  BY <1>3, QuietStutters DEF OnClock
<1>4. ASSUME NEW i \in Instruments, OnSettle(i)
      PROVE  Lifecycle!Conclude \/ AbstractState' = AbstractState
  <2>1. SettleEngine(i) /\ UNCHANGED count
    BY <1>4 DEF OnSettle, SettleEngine
  <2>2. CASE SettlePrice(i) = None
    BY <2>1, <2>2, QuietStutters DEF SettleEngine
  <2>3. CASE SettlePrice(i) # None
    BY <2>1, <2>3, SettlementRetires, RetiringConcludes
  <2> QED BY <2>2, <2>3
<1>5. CASE UNCHANGED vars
  BY <1>5, QuietStutters DEF vars
<1> QED BY <1>1, <1>2, <1>3, <1>4, <1>5 DEF Next, Lifecycle!Next

(***************************************************************************)
(* Engine A implements the promise of OrderLifecycle: orders are taken one *)
(* at a time, each is concluded at once or kept working, a conclusion is   *)
(* final, and no order is forgotten.                                       *)
(***************************************************************************)
THEOREM LifecycleImplemented == Spec => ImplementsLifecycle
<1>1. Init => Lifecycle!Init
  <2> SUFFICES ASSUME Init PROVE Lifecycle!Init
    OBVIOUS
  <2>1. count = 0 /\ Submitted = {}
    BY DEF Init, Submitted
  <2>2. \A n \in OrderIds : OrderState(n) = "new"
    BY <2>1, InitInv, StateFromLog
  <2> QED BY <2>2 DEF Lifecycle!Init
<1> QED BY <1>1, StepSimulates, InvInvariant, PTL
        DEF Spec, ImplementsLifecycle, Lifecycle!Spec, AbstractState
-----------------------------------------------------------------------------
(* Finality of records *)

(* Retiring orders leaves every existing record, and every order, alone. *)
LEMMA RetiringKeepsRecords ==
    ASSUME Inv, NEW i \in Instruments, NEW ts, NEW B, NEW R, Retires(i, B, R, ts),
           NEW n \in OrderIds, log[n] # <<>>
    PROVE  log'[n] = log[n]
<1>1. n \notin B \union R
  BY DEF Retires, Inv, OrderConservation, Working, Concluded
<1> QED BY <1>1 DEF Retires

(* No step changes an order that has a record, or the record. *)
LEMMA StepKeepsRecords ==
    ASSUME Inv, [Next]_vars, NEW n \in OrderIds, log[n] # <<>>
    PROVE  log'[n] = log[n] /\ orders'[n] = orders[n]
<1>1. ASSUME NEW i \in Instruments, NEW ts, NEW p, OnEvent(i, ts, p)
      PROVE  log'[n] = log[n] /\ orders'[n] = orders[n]
  BY <1>1, EventRetires, RetiringKeepsRecords DEF OnEvent, orderVars
<1>2. ASSUME NEW order \in OrderSpecs, OnSubmit(order)
      PROVE  log'[n] = log[n] /\ orders'[n] = orders[n]
  <2>1. order \in Order /\ SubmitOrder(order)
    BY <1>2, EngineAssumption DEF OnSubmit
  <2>2. PICK k \in OrderIds : k = count + 1
    BY <2>1, SubmitStores
  <2> DEFINE one == [m \in {k} |-> ImmediateFill(order.instrument, order)]
  <2>3. n # k /\ orders'[n] = orders[n]
    BY <2>1, <2>2, SubmitStores
  <2>4. \/ log' = log
        \/ \E via : Record(<<>>, {k}, now, via)
        \/ Record(one, {}, now + Latency, "book")
    BY <2>1, <2>2 DEF SubmitOrder, Conclude, Buffer, Rest
  <2>5. DOMAIN one = {k} /\ DOMAIN <<>> = {}
    OBVIOUS
  <2> HIDE DEF one
  <2> QED BY <2>3, <2>4, <2>5 DEF Record
<1>3. ASSUME NEW ts, OnClock(ts)
      PROVE  log'[n] = log[n] /\ orders'[n] = orders[n]
  BY <1>3 DEF OnClock, orderVars, runVars
<1>4. ASSUME NEW i \in Instruments, OnSettle(i)
      PROVE  log'[n] = log[n] /\ orders'[n] = orders[n]
  <2>1. SettleEngine(i) /\ UNCHANGED orders
    BY <1>4 DEF OnSettle, SettleEngine
  <2>2. CASE SettlePrice(i) = None
    BY <2>1, <2>2 DEF SettleEngine, orderVars
  <2>3. CASE SettlePrice(i) # None
    BY <2>1, <2>3, SettlementRetires, RetiringKeepsRecords
  <2> QED BY <2>2, <2>3
<1>5. CASE UNCHANGED vars
  BY <1>5 DEF vars, orderVars, runVars
<1> QED BY <1>1, <1>2, <1>3, <1>4, <1>5 DEF Next

(***************************************************************************)
(* A trade record is final: no event, submission or settlement changes it, *)
(* adds a second one, or touches the order it is about.                    *)
(***************************************************************************)
THEOREM RecordsFinal == Spec => RecordsAreFinal
<1>1. ASSUME Inv, [Next]_vars
      PROVE  [ \A n \in OrderIds : log[n] # <<>> =>
                  log'[n] = log[n] /\ orders'[n] = orders[n] ]_vars
  BY <1>1, StepKeepsRecords
<1> QED BY <1>1, InvInvariant, PTL DEF Spec, RecordsAreFinal

-----------------------------------------------------------------------------
(* Settlement *)

(* A priced engine holds nothing any more once it has been settled. *)
SettledEmpty ==
    \A i \in Instruments : settled[i] /\ SettlePrice(i) # None =>
        pending[i] = {} /\ resting[i] = {}

(* While the run goes on no engine has been settled. *)
LEMMA RunningIsUnsettled ==
    ASSUME Running, UNCHANGED settled
    PROVE  SettledEmpty'
BY DEF Running, SettledEmpty

(* Every step keeps the engines that have been settled empty. *)
LEMMA NextSettled == Inv /\ SettledEmpty /\ [Next]_vars => SettledEmpty'
<1> SUFFICES ASSUME Inv, SettledEmpty, [Next]_vars PROVE SettledEmpty'
  OBVIOUS
<1>1. ASSUME NEW i \in Instruments, NEW ts, NEW p, OnEvent(i, ts, p)
      PROVE  SettledEmpty'
  <2>1. UNCHANGED settled
    BY <1>1 DEF OnEvent, HandleEvent, HandleBar, HandleQuote, HandleTrade, HandleBook,
       HandleMark, HandleStatus, HandleFees, HandleSignal, runVars
  <2> QED BY <1>1, <2>1, RunningIsUnsettled DEF OnEvent
<1>2. ASSUME NEW order, OnSubmit(order)
      PROVE  SettledEmpty'
  BY <1>2, RunningIsUnsettled DEF OnSubmit, SubmitOrder
<1>3. ASSUME NEW ts, OnClock(ts)
      PROVE  SettledEmpty'
  BY <1>3, RunningIsUnsettled DEF OnClock, runVars
<1>4. ASSUME NEW i \in Instruments, OnSettle(i)
      PROVE  SettledEmpty'
  <2> SUFFICES ASSUME NEW j \in Instruments, settled'[j], SettlePrice(j)' # None
               PROVE  pending'[j] = {} /\ resting'[j] = {}
    BY DEF SettledEmpty
  <2>1. SettlePrice(j)' = SettlePrice(j)
    BY <1>4 DEF OnSettle, SettleEngine, marketVars, SettlePrice
  <2>2. SettleEngine(i) /\ (j # i => settled[j])
    BY <1>4 DEF OnSettle, SettleEngine, Inv, TypeOK
  <2>3. CASE j = i
    BY <2>1, <2>2, <2>3 DEF SettleEngine, Inv, TypeOK
  <2>4. CASE j # i
    <3>1. pending[j] = {} /\ resting[j] = {}
      BY <2>1, <2>2, <2>4 DEF SettledEmpty
    <3>2. pending'[j] = pending[j] /\ resting'[j] = resting[j]
      BY <2>2, <2>4 DEF SettleEngine, orderVars, Inv, TypeOK
    <3> QED BY <3>1, <3>2
  <2> QED BY <2>3, <2>4
<1>5. CASE UNCHANGED vars
  BY <1>5 DEF vars, marketVars, orderVars, runVars, SettledEmpty, SettlePrice
<1> QED BY <1>1, <1>2, <1>3, <1>4, <1>5 DEF Next

(* What an engine does not hold any more is concluded. *)
LEMMA EmptyIsConcluded == Inv /\ SettledEmpty => SettlementConcludes
<1> SUFFICES ASSUME Inv, SettledEmpty, NEW i \in Instruments,
                    settled[i], SettlePrice(i) # None,
                    NEW n \in Submitted, orders[n].instrument = i
             PROVE  Concluded(n)
  BY DEF SettlementConcludes
<1>1. n \in OrderIds
  BY EngineAssumption DEF Submitted, OrderIds, Inv, TypeOK
<1>2. ~Working(n)
  BY DEF SettledEmpty, Working, Inv, OrderConservation
<1> QED BY <1>1, <1>2 DEF Inv, OrderConservation

(***************************************************************************)
(* Settling an engine that has a price concludes each of its orders,       *)
(* whatever it was waiting for.                                            *)
(***************************************************************************)
THEOREM SettlementIsConclusive == Spec => []SettlementConcludes
<1>1. Init => SettledEmpty
  BY DEF Init, SettledEmpty
<1> QED BY <1>1, EmptyIsConcluded, NextSettled, InvInvariant, PTL DEF Spec

-----------------------------------------------------------------------------
(* Bars *)

(* What an engine holds and a bar takes care of. *)
Immediate == {"Ioc", "Fok"}
Due(i) == pending[i] \union {m \in resting[i] :
                                Checkable(orders[m]) /\ orders[m].tif \in Immediate}

(* The last bar is not in the future, and nothing immediate outlives it. *)
BarInv ==
    /\ \A i \in Instruments : lastBar[i] # None => lastBar[i].ts <= now
    /\ ImmediateOrdersEndAtABar

(* Letting orders go, and no bar, keeps the rule. *)
LEMMA DroppingKeepsBars ==
    ASSUME BarInv, UNCHANGED <<lastBar, orders>>, now' \in Nat, now' >= now,
           Inv,
           \A i \in Instruments :
              pending'[i] \subseteq pending[i] /\ resting'[i] \subseteq resting[i]
    PROVE  BarInv'
<1>1. ASSUME NEW i \in Instruments, lastBar[i] # None
      PROVE  lastBar[i].ts <= now'
  <2>1. lastBar[i].ts \in Nat /\ now \in Nat
    BY <1>1 DEF Inv, TypeOK, Optional, Timestamp
  <2> QED BY <1>1, <2>1 DEF BarInv
<1>2. ImmediateOrdersEndAtABar'
  BY DEF BarInv, ImmediateOrdersEndAtABar, ActiveTs
<1> QED BY <1>1, <1>2 DEF BarInv

(* What a bar leaves behind was not active when it came. *)
LEMMA BarKeepsBars ==
    ASSUME Inv, TimeInv, BarInv, NEW i \in Instruments, NEW ts \in Nat, NEW bar,
           HandleBar(i, ts, bar), now' \in Nat, now <= now', ts <= now'
    PROVE  BarInv'
<1> DEFINE bought  == Eligible(pending[i], ts)
           checked == {n \in Eligible(resting[i], ts) : Checkable(orders[n])}
           reached == {n \in checked : CrossedByBar(orders[n], bar)}
           expired == {n \in checked \ reached : orders[n].tif # "Gtc"}
           taken   == [close |-> bar.close, ts |-> ts]
<1>1. /\ pending' = [pending EXCEPT ![i] = @ \ bought]
      /\ resting' = [resting EXCEPT ![i] = @ \ (reached \union expired)]
      /\ lastBar' = [lastBar EXCEPT ![i] = taken]
      /\ orders' = orders
  BY DEF HandleBar, runVars
<1>2. taken.ts = ts
  OBVIOUS
<1>3. \A n \in pending[i] \union resting[i] : ActiveTs(n) \in Nat
  <2>1. \A n \in pending[i] \union resting[i] : orders[n].ts \in Nat
    BY HeldIsSubmitted DEF TimeInv, SubmittedOrder, Timestamp
  <2> QED BY <2>1, EngineAssumption DEF ActiveTs
<1>4. \A n \in pending[i] \ bought : ActiveTs(n) > ts
  BY <1>3 DEF Eligible
<1>5. ASSUME NEW n \in resting[i] \ (reached \union expired),
             Checkable(orders[n]), orders[n].tif \in Immediate
      PROVE  ActiveTs(n) > ts
  <2>1. n \notin checked
    BY <1>5 DEF Immediate
  <2>2. ~(ActiveTs(n) <= ts)
    BY <1>5, <2>1 DEF Eligible
  <2> QED BY <1>3, <2>2
<1> HIDE DEF bought, checked, reached, expired, taken
<1>6. \A j \in Instruments : lastBar'[j] # None => lastBar'[j].ts <= now'
  <2> SUFFICES ASSUME NEW j \in Instruments, lastBar'[j] # None
               PROVE  lastBar'[j].ts <= now'
    OBVIOUS
  <2>1. CASE j = i
    BY <1>1, <1>2, <2>1 DEF Inv, TypeOK
  <2>2. CASE j # i
    <3>1. lastBar'[j] = lastBar[j]
      BY <1>1, <2>2 DEF Inv, TypeOK
    <3>2. lastBar[j].ts \in Nat /\ now \in Nat
      BY <3>1 DEF Inv, TypeOK, Optional, Timestamp
    <3> QED BY <3>1, <3>2 DEF BarInv
  <2> QED BY <2>1, <2>2
<1>7. ASSUME NEW j \in Instruments, lastBar'[j] # None, NEW n \in Due(j)'
      PROVE  orders'[n].ts >= lastBar'[j].ts \/ ActiveTs(n)' > lastBar'[j].ts
  <2>1. CASE j = i
    <3>1. lastBar'[i].ts = ts /\ ActiveTs(n)' = ActiveTs(n)
      BY <1>1, <1>2 DEF Inv, TypeOK, ActiveTs
    <3>2. n \in pending[i] \ bought \/ ( /\ n \in resting[i] \ (reached \union expired)
                                         /\ Checkable(orders[n])
                                         /\ orders[n].tif \in Immediate )
      BY <1>1, <1>7, <2>1 DEF Due, Inv, TypeOK
    <3> QED BY <1>4, <1>5, <2>1, <3>1, <3>2
  <2>2. CASE j # i
    <3>1. lastBar'[j] = lastBar[j] /\ n \in Due(j)
      BY <1>1, <1>7, <2>2 DEF Due, Inv, TypeOK
    <3> QED BY <1>1, <1>7, <3>1 DEF BarInv, ImmediateOrdersEndAtABar, Immediate, Due, ActiveTs
  <2> QED BY <2>1, <2>2
<1> QED BY <1>6, <1>7 DEF BarInv, ImmediateOrdersEndAtABar, Immediate, Due

(* A new order is not older than the last bar. *)
LEMMA SubmitKeepsBars ==
    ASSUME Inv, BarInv, NEW order \in Order, SubmitOrder(order), now' = now
    PROVE  BarInv'
<1> DEFINE new == count + 1
<1>1. UNCHANGED lastBar
  BY DEF SubmitOrder, marketVars
<1>2. /\ new \in OrderIds
      /\ orders'[new].ts = now
      /\ \A n \in OrderIds \ {new} : orders'[n] = orders[n]
  <2>1. new \in OrderIds /\ \A n \in OrderIds \ {new} : orders'[n] = orders[n]
    BY SubmitStores
  <2>2. orders'[new].ts = now
    <3> DEFINE stored == [ instrument |-> order.instrument, side |-> order.side,
                           type |-> order.type, qty |-> order.qty,
                           limit |-> order.limit, stop |-> order.stop,
                           tif |-> order.tif, ts |-> now ]
    <3>1. orders' = [orders EXCEPT ![new] = stored] /\ stored.ts = now
      BY DEF SubmitOrder
    <3> HIDE DEF stored, new
    <3> QED BY <2>1, <3>1 DEF Inv, TypeOK
  <2> QED BY <2>1, <2>2
<1>3. \A j \in Instruments : /\ pending'[j] \ {new} \subseteq pending[j]
                             /\ resting'[j] \ {new} \subseteq resting[j]
  BY DEF SubmitOrder, Conclude, Buffer, Rest, Inv, TypeOK
<1> HIDE DEF new
<1>4. ASSUME NEW j \in Instruments, lastBar'[j] # None, NEW n \in Due(j)'
      PROVE  orders'[n].ts >= lastBar'[j].ts \/ ActiveTs(n)' > lastBar'[j].ts
  <2>1. CASE n = new
    <3>1. lastBar[j].ts \in Nat /\ now \in Nat /\ lastBar[j].ts <= now
      BY <1>1, <1>4 DEF BarInv, Inv, TypeOK, Optional, Timestamp
    <3> QED BY <1>1, <1>2, <2>1, <3>1
  <2>2. CASE n # new
    <3>1. n \in OrderIds
      BY <1>3, <1>4, <2>2 DEF Due, Inv, TypeOK
    <3>2. orders'[n] = orders[n]
      BY <1>2, <2>2, <3>1
    <3>3. n \in Due(j)
      BY <1>3, <1>4, <2>2, <3>2 DEF Due
    <3> QED BY <1>1, <1>4, <3>2, <3>3 DEF BarInv, ImmediateOrdersEndAtABar, Immediate, Due, ActiveTs
  <2> QED BY <2>1, <2>2
<1> QED BY <1>1, <1>4 DEF BarInv, ImmediateOrdersEndAtABar, Immediate, Due

(* An event keeps the rule about bars, also one dated before the clock. *)
LEMMA EventKeepsBars ==
    ASSUME Inv, TimeInv, BarInv, NEW i \in Instruments, NEW ts \in Nat, NEW p,
           HandleEvent(i, ts, p), now' \in Nat, now <= now', ts <= now'
    PROVE  BarInv'
<1>1. now \in Nat /\ now' >= now
  BY DEF Inv, TypeOK, Timestamp
<1>2. CASE HandleBar(i, ts, p)
  BY <1>2, BarKeepsBars
<1>3. CASE HandleQuote(i, ts, p)
  BY <1>1, <1>3, DroppingKeepsBars DEF HandleQuote, runVars, Inv, TypeOK
<1>4. CASE HandleTrade(i, ts, p.price)
  BY <1>1, <1>4, DroppingKeepsBars DEF HandleTrade, runVars, Inv, TypeOK
<1>5. ASSUME UNCHANGED <<lastBar, orderVars, orders>>
      PROVE  BarInv'
  BY <1>1, <1>5, DroppingKeepsBars DEF orderVars
<1> QED BY <1>2, <1>3, <1>4, <1>5 DEF HandleEvent, HandleBook, HandleMark,
           HandleStatus, HandleFees, HandleSignal, runVars

(* Every step keeps the rule about bars. *)
LEMMA NextBars == Inv /\ TimeInv /\ BarInv /\ [Next]_vars => BarInv'
<1> SUFFICES ASSUME Inv, TimeInv, BarInv, [Next]_vars PROVE BarInv'
  OBVIOUS
<1>0. now \in Nat /\ MaxTime \in Nat
  BY EngineAssumption DEF Inv, TypeOK, Timestamp
<1>1. ASSUME NEW i \in Instruments, NEW ts \in now..MaxTime, NEW p \in Payloads,
             OnEvent(i, ts, p)
      PROVE  BarInv'
  <2>1. ts \in Nat /\ now' = ts /\ now <= now' /\ HandleEvent(i, ts, p)
    BY <1>0, <1>1 DEF OnEvent
  <2> QED BY <2>1, EventKeepsBars
<1>2. ASSUME NEW order \in OrderSpecs, OnSubmit(order)
      PROVE  BarInv'
  BY <1>2, SubmitKeepsBars, EngineAssumption DEF OnSubmit
<1>3. ASSUME NEW ts \in (now + 1)..MaxTime, OnClock(ts)
      PROVE  BarInv'
  <2>1. now' \in Nat /\ now' >= now
    BY <1>0, <1>3 DEF OnClock
  <2> QED BY <1>3, <2>1, DroppingKeepsBars DEF OnClock, marketVars, orderVars, runVars
<1>4. ASSUME NEW i \in Instruments, OnSettle(i)
      PROVE  BarInv'
  <2>1. UNCHANGED <<lastBar, orders, now>>
    BY <1>4 DEF OnSettle, SettleEngine, marketVars
  <2>2. \A j \in Instruments :
           pending'[j] \subseteq pending[j] /\ resting'[j] \subseteq resting[j]
    BY <1>4 DEF OnSettle, SettleEngine, orderVars, Inv, TypeOK
  <2> QED BY <1>0, <2>1, <2>2, DroppingKeepsBars
<1>5. CASE UNCHANGED vars
  BY <1>0, <1>5, DroppingKeepsBars DEF vars, marketVars, orderVars, runVars
<1> QED BY <1>1, <1>2, <1>3, <1>4, <1>5 DEF Next

(***************************************************************************)
(* No market, Ioc or Fok order outlives a bar it was active for, whatever  *)
(* the latency and the order of events: market orders have been filled,    *)
(* the others have been filled or have expired.                            *)
(***************************************************************************)
THEOREM BarsLeaveNothingImmediate == Spec => []ImmediateOrdersEndAtABar
<1>1. Init => LatencyInv /\ BarInv
  BY EngineAssumption
  DEF Init, LatencyInv, TimeInv, Submitted, DataFillsRespectLatency, Fills, BarInv,
      ImmediateOrdersEndAtABar
<1>2. LatencyInv => TimeInv
  BY DEF LatencyInv
<1>3. BarInv => ImmediateOrdersEndAtABar
  BY DEF BarInv
<1> QED BY <1>1, <1>2, <1>3, NextLatency, NextBars, InvInvariant, PTL DEF Spec
=============================================================================
