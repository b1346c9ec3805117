-------------------------- MODULE EmaStrategy_proofs --------------------------
(***************************************************************************)
(* Machine-checked proofs about the crossover strategy in a run, for all   *)
(* periods, prices, requests and latencies: it is long only while its fast *)
(* average is above the slow one; its orders are executed at the open of   *)
(* the bar they can first be executed at; the account holds what the flag  *)
(* claims, but for what is on its way or was refused; and its averages are *)
(* those of the bars of the run.                                           *)
(*                                                                         *)
(* The first rests on the strategy having been ready when it bought: a bar *)
(* that is not judged would leave the flag as it is.  The second relates   *)
(* each order to the bar it was decided on and to the bars that have       *)
(* passed it by.  The third joins two chains: purchases and sales take     *)
(* turns, so that what was ordered sums to what the flag claims, and an    *)
(* order is executed whole, after the earlier ones of its instrument, so   *)
(* that what was executed sums to what the account holds.  The fourth      *)
(* unrolls the definition of the averages into powers and weights.         *)
(***************************************************************************)
EXTENDS EmaStrategy, SingleRun_proofs

-----------------------------------------------------------------------------
(* The flag and the averages *)

(* The inductive invariant: who is long has seen enough bars to judge. *)
LongInv ==
    /\ barsSeen \in Nat
    /\ isLong => /\ barsSeen > 0
                 /\ barsSeen >= SlowPeriod
                 /\ Above(fastEma, slowEma)

(* The strategy starts flat. *)
LEMMA LongInit == EmaInit => LongInv
BY DEF EmaInit, LongInv

(* A bar keeps the invariant, whichever of the three decisions it leads to. *)
LEMMA OnBarLong ==
    ASSUME LongInv, NEW i, NEW close, OnBar(i, close)
    PROVE  LongInv'
<1> USE EmaAssumption
<1>1. barsSeen' \in Nat /\ barsSeen' > 0
  BY DEF LongInv, OnBar
<1>2. CASE GoldenCross /\ isLong' = TRUE
  <2>1. barsSeen' >= SlowPeriod /\ Above(fastEma', slowEma')
    BY <1>2 DEF GoldenCross, Ready, OnBar, LongInv
  <2> QED BY <1>1, <2>1 DEF LongInv, Above
<1>3. CASE DeathCross /\ isLong' = FALSE
  BY <1>1, <1>3 DEF LongInv
<1>4. CASE ~DeathCross /\ isLong' = isLong
  <2>1. ASSUME isLong
        PROVE  barsSeen' >= SlowPeriod /\ Above(fastEma', slowEma')
    <3>1. Ready /\ Above(fastEma, slowEma)
      BY <2>1 DEF LongInv, Ready
    <3>2. Above(fastEma', slowEma')
      BY <2>1, <3>1, <1>4 DEF DeathCross
    <3>3. barsSeen' >= SlowPeriod
      BY <2>1 DEF LongInv, OnBar
    <3> QED BY <3>2, <3>3
  <2> QED BY <1>1, <1>4, <2>1 DEF LongInv, Above
<1> QED BY <1>2, <1>3, <1>4 DEF OnBar

(* Only a bar that reaches the strategy touches what the invariant speaks of. *)
LEMMA LongNext == LongInv /\ [EmaNext]_emaRunVars => LongInv'
<1> SUFFICES ASSUME LongInv, [EmaNext]_emaRunVars PROVE LongInv'
  OBVIOUS
<1>1. ASSUME UNCHANGED emaVars
      PROVE  LongInv'
  BY <1>1 DEF emaVars, LongInv, Above
<1>2. CASE EmaProcessEvent
  <2>1. CASE UNCHANGED emaVars
    BY <2>1, <1>1
  <2>2. ASSUME NEW i, NEW close, OnBar(i, close)
        PROVE  LongInv'
    BY <2>2, OnBarLong
  <2> QED BY <1>2, <2>1, <2>2 DEF EmaProcessEvent
<1>3. CASE OtherStep /\ UNCHANGED emaVars
  BY <1>1, <1>3
<1>4. CASE UNCHANGED emaRunVars
  BY <1>1, <1>4 DEF emaRunVars
<1> QED BY <1>2, <1>3, <1>4 DEF EmaNext

(***************************************************************************)
(* The flag on_bar keeps is set only while the fast average is above the   *)
(* slow one.                                                               *)
(***************************************************************************)
THEOREM NeverLongBelow == EmaSpec => []LongOnlyAbove
<1>1. LongInv => LongOnlyAbove
  BY DEF LongInv, LongOnlyAbove, Above
<1> QED BY <1>1, LongInit, LongNext, PTL DEF EmaSpec

-----------------------------------------------------------------------------
(* The run of the strategy *)

(* The strategy is one of those SingleRun allows for, step by step. *)
LEMMA EmaIsRunStep == [EmaNext]_emaRunVars => [RunNext]_simVars
BY DEF EmaNext, EmaProcessEvent, OtherStep, RunNext, emaRunVars

(***************************************************************************)
(* A run of the crossover strategy is a run as SingleRun has it, so that   *)
(* all that is proved of every run is true of it, its orders and averages  *)
(* being a refinement of the arbitrary batches of SingleRun.               *)
(***************************************************************************)
THEOREM EmaIsARun == EmaSpec => RunSpec
<1>1. EmaInit => RunInit
  BY DEF EmaInit
<1> QED BY <1>1, EmaIsRunStep, PTL DEF EmaSpec, RunSpec

(* So its engines keep what they promise. *)
LEMMA EmaEngines == EmaSpec => [](Inv /\ LoopInv /\ EngineInv)
BY EmaIsARun, LoopInvariant, EnginesInTheRun, PTL

(***************************************************************************)
(* The k-th event is a bar of instrument i, stamped or derived; one of     *)
(* those already read is dated ts; and none of those already read could    *)
(* have executed order o.                                                  *)
(***************************************************************************)
IsBar(s, k, i) == s[k].instrument = i /\ s[k].payload.type \in {"Bar", "DerivedBar"}

DecidedOn(s, p, i, ts) == \E k \in DOMAIN s : k < p /\ IsBar(s, k, i) /\ s[k].ts = ts

Executable(s, k, o) == IsBar(s, k, o.instrument) /\ s[k].ts > o.ts /\ s[k].ts >= o.ts + Latency

Waiting(s, p, o) == \A k \in DOMAIN s : k < p => ~Executable(s, k, o)

(* The orders of the strategy: one lot, at the market. *)
IsLot(o) ==
    /\ o.type = "Market" /\ o.qty = Units /\ o.side \in {"Buy", "Sell"}
    /\ o.instrument \in Instruments

(***************************************************************************)
(* The invariant: orders are lots that were decided on a bar of their own  *)
(* instrument and dated like it; those that are buffered have seen no bar  *)
(* yet that could have executed them.                                      *)
(***************************************************************************)
LotInv ==
    /\ \A k \in DOMAIN stream : k < pos => stream[k].ts <= now
    /\ \/ queue = <<>>
       \/ \E o : queue = <<o>> /\ IsLot(o) /\ DecidedOn(stream, pos, o.instrument, now)
    /\ \A n \in Submitted :
          IsLot(orders[n]) /\ DecidedOn(stream, pos, orders[n].instrument, orders[n].ts)
    /\ \A i \in Instruments : \A n \in pending[i] : Waiting(stream, pos, orders[n])

(* Nothing was ordered before the first event. *)
LEMMA LotInit == EmaInit => LotInv
<1> SUFFICES ASSUME EmaInit PROVE LotInv
  OBVIOUS
<1>1. /\ stream = <<>> /\ queue = <<>> /\ count = 0
      /\ pending = [i \in Instruments |-> {}]
  BY DEF EmaInit, RunInit, Init
<1>2. DOMAIN stream = {} /\ Submitted = {}
  BY <1>1 DEF Submitted
<1> QED BY <1>1, <1>2 DEF LotInv

(***************************************************************************)
(* Of the buffered orders a handler only lets some go, at a bar all that   *)
(* are active.                                                             *)
(***************************************************************************)
LEMMA EventLetsGo ==
    ASSUME Inv, NEW i \in Instruments, NEW ts, NEW p, HandleEvent(i, ts, p)
    PROVE  /\ UNCHANGED <<count, orders>>
           /\ \A j \in Instruments : pending'[j] \subseteq pending[j]
           /\ p.type \in {"Bar", "DerivedBar"} =>
                 \A n \in pending'[i] : ~(ActiveTs(n) <= ts)
<1>1. pending \in [Instruments -> SUBSET OrderIds]
  BY DEF Inv, TypeOK
<1>2. ASSUME NEW B, pending' = [pending EXCEPT ![i] = @ \ B]
      PROVE  /\ \A j \in Instruments : pending'[j] \subseteq pending[j]
             /\ pending'[i] = pending[i] \ B
  BY <1>1, <1>2
<1>3. ASSUME UNCHANGED pending
      PROVE  \A j \in Instruments : pending'[j] \subseteq pending[j]
  BY <1>3
<1>4. CASE p.type \in {"Bar", "DerivedBar"} /\ HandleBar(i, ts, p)
  <2>1. pending' = [pending EXCEPT ![i] = @ \ Eligible(pending[i], ts)]
        /\ UNCHANGED <<count, orders>>
    BY <1>4 DEF HandleBar, runVars
  <2>2. pending'[i] = pending[i] \ Eligible(pending[i], ts)
    BY <1>2, <2>1
  <2>3. \A n \in pending'[i] : ~(ActiveTs(n) <= ts)
    BY <2>2 DEF Eligible
  <2> QED BY <1>2, <2>1, <2>3
<1>5. CASE p.type = "Quote" /\ HandleQuote(i, ts, p)
  <2>1. pending' = [pending EXCEPT ![i] = @ \ DOMAIN QuoteFills(i, ts, p)]
        /\ UNCHANGED <<count, orders>>
    BY <1>5 DEF HandleQuote, QuoteFills, QuoteFill, QuotedBook, runVars
  <2> QED BY <1>2, <1>5, <2>1
<1>6. CASE p.type \notin {"Bar", "DerivedBar"} /\ UNCHANGED <<pending, count, orders>>
  BY <1>6
<1> QED BY <1>4, <1>5, <1>6 DEF HandleEvent, HandleTrade, HandleBook, HandleMark,
       HandleStatus, HandleFees, HandleSignal, orderVars, runVars


(* A bar that has been read stays one. *)
LEMMA DecisionsStay ==
    ASSUME NEW s, DOMAIN s \subseteq Nat, NEW p \in Nat, NEW i, NEW ts, DecidedOn(s, p, i, ts)
    PROVE  DecidedOn(s, p + 1, i, ts)
BY DEF DecidedOn

(* What the strategy is sure of when an event is taken. *)
LEMMA EmaTakes ==
    ASSUME EventsFromStart, Inv, LoopInv, LotInv, TakeEvent
    PROVE  /\ pos \in DOMAIN stream /\ pos' = pos + 1 /\ stream' = stream /\ queue = <<>>
           /\ pos \in Nat /\ DOMAIN stream \subseteq Nat
           /\ stream[pos].payload \in Payloads
           /\ now' = stream[pos].ts
           /\ \A k \in DOMAIN stream' : k < pos' => stream'[k].ts <= now'
<1>1. /\ pos \in 1..Len(stream) /\ pos' = pos + 1 /\ stream' = stream
      /\ stream[pos].ts \in 0..MaxTime /\ now <= now' /\ stream[pos].ts <= now'
      /\ now' = now \/ now' = stream[pos].ts
      /\ now' \in Nat
  BY TakenEvent DEF TakeEvent
<1>2. /\ DOMAIN stream = 1..Len(stream) /\ Len(stream) \in Nat /\ pos \in Nat
      /\ stream[pos].payload \in Payloads
      /\ \A k \in 1..Len(stream) : stream[k].ts \in Nat
      /\ \E m \in DOMAIN request.events : stream[pos] = request.events[m]
  BY <1>1, StreamIsSorted DEF LoopInv
<1>3. now \in Nat /\ ClockStart \in Nat
  BY EngineAssumption DEF Inv, TypeOK, Timestamp
<1>4. stream[pos].ts >= ClockStart
  BY <1>2 DEF LoopInv, RequestInv, EventsFromStart
<1>5. now <= ClockStart \/ now <= stream[pos].ts
  <2>1. pos \in pos..Len(stream)
    BY <1>1
  <2> QED BY <2>1 DEF LoopInv, ClockInv
<1>6. now' = stream[pos].ts
  BY <1>1, <1>2, <1>3, <1>4, <1>5
<1>7. \A k \in DOMAIN stream : k < pos + 1 => stream[k].ts <= now'
  <2> SUFFICES ASSUME NEW k \in DOMAIN stream, k < pos + 1
               PROVE  stream[k].ts <= now'
    OBVIOUS
  <2>1. CASE k = pos
    BY <1>1, <2>1
  <2>2. CASE k # pos
    <3>1. k < pos
      BY <1>2, <2>2
    <3>2. stream[k].ts <= now
      BY <3>1 DEF LotInv
    <3> QED BY <1>1, <1>2, <1>3, <3>2
  <2> QED BY <2>1, <2>2
<1>8. queue = <<>>
  BY DEF TakeEvent
<1> QED BY <1>1, <1>2, <1>6, <1>7, <1>8

(***************************************************************************)
(* An event that is taken keeps what is known of the orders, if it is no   *)
(* bar that an order still buffered is active for.                         *)
(***************************************************************************)
LEMMA TakenLots ==
    ASSUME EventsFromStart, Inv, LoopInv, LotInv, TakeEvent, UNCHANGED <<count, orders>>,
           \A i \in Instruments : pending'[i] \subseteq pending[i],
           \A i \in Instruments : \A n \in pending'[i] :
                IsBar(stream, pos, i) => ~(ActiveTs(n) <= stream[pos].ts),
           \/ queue' = <<>>
           \/ \E o : queue' = <<o>> /\ IsLot(o) /\ IsBar(stream, pos, o.instrument)
    PROVE  LotInv'
<1>1. /\ pos \in DOMAIN stream /\ pos' = pos + 1 /\ stream' = stream
      /\ pos \in Nat /\ DOMAIN stream \subseteq Nat /\ now' = stream[pos].ts
      /\ \A k \in DOMAIN stream' : k < pos' => stream'[k].ts <= now'
  BY EmaTakes
<1>2. \/ queue' = <<>>
      \/ \E o : queue' = <<o>> /\ IsLot(o) /\ DecidedOn(stream', pos', o.instrument, now')
  BY <1>1 DEF DecidedOn
<1>3. Submitted' = Submitted
  BY DEF Submitted
<1>4. ASSUME NEW n \in Submitted
      PROVE  IsLot(orders'[n]) /\ DecidedOn(stream', pos', orders'[n].instrument, orders'[n].ts)
  <2>1. IsLot(orders[n]) /\ DecidedOn(stream, pos, orders[n].instrument, orders[n].ts)
    BY DEF LotInv
  <2>2. DecidedOn(stream, pos + 1, orders[n].instrument, orders[n].ts)
    BY <1>1, <2>1, DecisionsStay
  <2> QED BY <1>1, <2>1, <2>2
<1>5. ASSUME NEW i \in Instruments, NEW n \in pending'[i]
      PROVE  Waiting(stream', pos', orders'[n])
  <2>1. n \in pending[i] /\ Waiting(stream, pos, orders[n])
    BY DEF LotInv
  <2>2. orders[n].instrument = i
    BY <2>1 DEF Inv, OrderConservation
  <2>3. ~Executable(stream, pos, orders[n])
    <3>1. SUFFICES ASSUME Executable(stream, pos, orders[n])
                   PROVE  FALSE
      OBVIOUS
    <3>2. IsBar(stream, pos, i) /\ stream[pos].ts >= ActiveTs(n)
      BY <2>2, <3>1 DEF Executable, ActiveTs
    <3> QED BY <3>2
  <2>4. ASSUME NEW k \in DOMAIN stream, k < pos + 1
        PROVE  ~Executable(stream, k, orders[n])
    <3>1. k < pos \/ k = pos
      BY <1>1, <2>4
    <3> QED BY <2>1, <2>3, <3>1 DEF Waiting
  <2> QED BY <1>1, <2>4 DEF Waiting
<1> QED BY <1>1, <1>2, <1>3, <1>4, <1>5 DEF LotInv

(* What the strategy decides on a bar: nothing, or one lot of its instrument. *)
LEMMA EmaDecides ==
    ASSUME EmaProcessEvent
    PROVE  /\ TakeEvent /\ stream[pos].instrument \in Instruments
           /\ HandleEvent(stream[pos].instrument, stream[pos].ts, stream[pos].payload)
           /\ \/ queue' = <<>>
              \/ \E o : queue' = <<o>> /\ IsLot(o) /\ IsBar(stream, pos, o.instrument)
<1> DEFINE ev == stream[pos]
<1>1. /\ TakeEvent /\ ev.instrument \in Instruments
      /\ HandleEvent(ev.instrument, ev.ts, ev.payload)
      /\ queue' \in (IF gateOpen' /\ ev.payload.type = "Bar" THEN Batches ELSE {<<>>})
  BY DEF EmaProcessEvent, ProcessEvent
<1>2. CASE gateOpen' /\ ev.payload.type = "Bar"
  <2>1. OnBar(ev.instrument, ev.payload.close)
    BY <1>2 DEF EmaProcessEvent
  <2>2. \/ queue' = <<>>
        \/ \E side \in {"Buy", "Sell"} : queue' = <<MarketOrder(ev.instrument, side)>>
    BY <2>1 DEF OnBar
  <2>3. ASSUME NEW side \in {"Buy", "Sell"}
        PROVE  /\ IsLot(MarketOrder(ev.instrument, side))
               /\ IsBar(stream, pos, MarketOrder(ev.instrument, side).instrument)
    BY <1>1, <1>2 DEF MarketOrder, IsLot, IsBar
  <2> QED BY <1>1, <2>2, <2>3
<1>3. CASE ~(gateOpen' /\ ev.payload.type = "Bar")
  BY <1>1, <1>3
<1> QED BY <1>1, <1>2, <1>3

(* The order that is submitted is the only one that waits for it. *)
LEMMA LotSubmitted ==
    ASSUME Inv, LoopInv, LotInv, SubmitNext
    PROVE  \E o : /\ queue = <<o>> /\ o \in Order /\ IsLot(o) /\ SubmitOrder(o) /\ queue' = <<>>
                  /\ DecidedOn(stream, pos, o.instrument, now)
                  /\ UNCHANGED <<now, stream, pos>>
<1>1. PICK o : queue = <<o>> /\ IsLot(o) /\ DecidedOn(stream, pos, o.instrument, now)
  BY DEF SubmitNext, LotInv
<1>2. Head(queue) = o /\ Tail(queue) = <<>>
  BY <1>1
<1>3. o \in Order
  <2>1. queue \in Seq(OrderSpecs \union StrayOrders) /\ queue # <<>>
    BY <1>1 DEF LoopInv, BatchInv
  <2>2. o \in OrderSpecs \union StrayOrders
    BY <1>2, <2>1
  <2> QED BY <1>1, <2>2, EngineAssumption, RunAssumption DEF IsLot
<1> QED BY <1>1, <1>2, <1>3 DEF SubmitNext

(* What submit_order stores of it. *)
LEMMA LotIsStored ==
    ASSUME Inv, NEW o \in Order, IsLot(o), SubmitOrder(o)
    PROVE  /\ IsLot(orders'[count + 1])
           /\ orders'[count + 1].instrument = o.instrument
           /\ orders'[count + 1].side = o.side
           /\ orders'[count + 1].ts = now
           /\ \A n \in Submitted : n \in OrderIds /\ n # count + 1 /\ orders'[n] = orders[n]
           /\ \A i \in Instruments : pending'[i] \subseteq pending[i] \union {count + 1}
<1>1. /\ count + 1 \in OrderIds
      /\ \A m \in OrderIds \ {count + 1} : orders'[m] = orders[m]
  BY SubmitStores
<1>2. /\ orders'[count + 1].instrument = o.instrument /\ orders'[count + 1].side = o.side
      /\ orders'[count + 1].type = o.type /\ orders'[count + 1].qty = o.qty
      /\ orders'[count + 1].ts = now
  BY <1>1 DEF SubmitOrder, Inv, TypeOK
<1>3. \A n \in Submitted : n \in OrderIds /\ n # count + 1
  BY EngineAssumption DEF Submitted, OrderIds, Inv, TypeOK
<1>4. pending' = pending \/ pending' = [pending EXCEPT ![o.instrument] = @ \union {count + 1}]
  BY DEF SubmitOrder, Conclude, Buffer, Rest
<1>5. \A i \in Instruments : pending'[i] \subseteq pending[i] \union {count + 1}
  BY <1>4 DEF Inv, TypeOK
<1> QED BY <1>1, <1>2, <1>3, <1>5 DEF IsLot

(* Every step of the run keeps the invariant. *)
LEMMA LotNext ==
    ASSUME EventsFromStart, Inv, LoopInv, LotInv, [EmaNext]_emaRunVars
    PROVE  LotInv'
<1>1. CASE EmaProcessEvent
  <2> DEFINE ev == stream[pos]
  <2>1. /\ TakeEvent /\ ev.instrument \in Instruments
        /\ HandleEvent(ev.instrument, ev.ts, ev.payload)
        /\ \/ queue' = <<>>
           \/ \E o : queue' = <<o>> /\ IsLot(o) /\ IsBar(stream, pos, o.instrument)
    BY <1>1, EmaDecides
  <2>2. /\ UNCHANGED <<count, orders>>
        /\ \A j \in Instruments : pending'[j] \subseteq pending[j]
        /\ ev.payload.type \in {"Bar", "DerivedBar"} =>
              \A n \in pending'[ev.instrument] : ~(ActiveTs(n) <= ev.ts)
    BY <2>1, EventLetsGo
  <2>3. \A i \in Instruments : \A n \in pending'[i] :
           IsBar(stream, pos, i) => ~(ActiveTs(n) <= ev.ts)
    BY <2>2 DEF IsBar
  <2> QED BY <2>1, <2>2, <2>3, TakenLots
<1>2. CASE SkipEvent
  <2>1. /\ TakeEvent /\ stream[pos].instrument \notin Instruments
        /\ UNCHANGED <<count, orders, pending>> /\ queue' = <<>>
    BY <1>2 DEF SkipEvent, TakeEvent, orderVars, runVars
  <2>2. \A i \in Instruments : ~IsBar(stream, pos, i)
    BY <2>1 DEF IsBar
  <2> QED BY <2>1, <2>2, TakenLots
<1>3. CASE Execute
  <2>1. /\ pos = 1 /\ stream = <<>> /\ UNCHANGED <<now, pos, queue, count, orders, pending>>
    BY <1>3 DEF Execute, LoopInv, StreamInv, Started, vars, orderVars, runVars
  <2>2. \A i, ts : ~DecidedOn(stream, pos, i, ts)
    BY <2>1 DEF DecidedOn
  <2>3. queue = <<>> /\ Submitted = {}
    BY <2>2 DEF LotInv
  <2>4. \A i \in Instruments : pending'[i] = {}
    BY <2>1, <2>3, HeldIsSubmitted
  <2>5. \A k \in DOMAIN stream' : ~(k < pos')
    <3>1. request.events \in Seq(Events)
      BY RunAssumption DEF LoopInv, RequestInv, Events
    <3>2. stream' \in Seq(Events)
      BY <1>3, <3>1, StreamIsAStableSort DEF Execute
    <3>3. \A k \in DOMAIN stream' : k \in Nat /\ k >= 1
      BY <3>2
    <3> QED BY <2>1, <3>3
  <2>6. Submitted' = {}
    BY <2>1, <2>3 DEF Submitted
  <2> QED BY <2>1, <2>3, <2>4, <2>5, <2>6 DEF LotInv
<1>4. CASE SubmitNext
  <2>1. PICK o : /\ o \in Order /\ IsLot(o) /\ SubmitOrder(o) /\ queue' = <<>>
                 /\ DecidedOn(stream, pos, o.instrument, now)
                 /\ UNCHANGED <<now, stream, pos>>
    BY <1>4, LotSubmitted
  <2> DEFINE n == count + 1
  <2>2. /\ IsLot(orders'[n]) /\ orders'[n].instrument = o.instrument /\ orders'[n].ts = now
        /\ \A m \in Submitted : orders'[m] = orders[m]
        /\ \A i \in Instruments : pending'[i] \subseteq pending[i] \union {n}
    BY <2>1, LotIsStored
  <2>3. Submitted' = Submitted \union {n}
    BY <2>1, SubmitStores
  <2>4. \A i \in Instruments : pending[i] \subseteq Submitted
    BY HeldIsSubmitted
  <2>5. Waiting(stream, pos, orders'[n])
    <3> SUFFICES ASSUME NEW k \in DOMAIN stream, k < pos, stream[k].ts > now
                 PROVE  FALSE
      BY <2>2 DEF Waiting, Executable
    <3>1. stream[k].ts <= now
      BY DEF LotInv
    <3>2. now \in Nat /\ stream[k].ts \in Nat
      BY StreamIsSorted DEF LoopInv, Inv, TypeOK, Timestamp
    <3> QED BY <3>1, <3>2
  <2> HIDE DEF n
  <2>6. \A m \in Submitted' :
           IsLot(orders'[m]) /\ DecidedOn(stream', pos', orders'[m].instrument, orders'[m].ts)
    BY <2>1, <2>2, <2>3 DEF LotInv
  <2>7. \A i \in Instruments : \A m \in pending'[i] : Waiting(stream', pos', orders'[m])
    BY <2>1, <2>2, <2>4, <2>5 DEF LotInv
  <2>8. \A k \in DOMAIN stream' : k < pos' => stream'[k].ts <= now'
    BY <2>1 DEF LotInv
  <2> QED BY <2>1, <2>6, <2>7, <2>8 DEF LotInv
<1>5. CASE EndEvents
  <2>1. /\ queue = <<>> /\ UNCHANGED <<stream, pos, queue, count, orders, pending>>
        /\ now' = Max({now, MaxTime})
    BY <1>5 DEF EndEvents, AdvanceClock, orderVars, runVars
  <2>2. now \in Int /\ now <= now' /\ now' \in Int
    <3>1. now \in Int /\ MaxTime \in Int
      BY EngineAssumption DEF Inv, TypeOK, Timestamp
    <3>2. Max({now, MaxTime}) \in {now, MaxTime} /\ now <= Max({now, MaxTime})
      BY <3>1, PairExtrema
    <3> QED BY <2>1, <3>1, <3>2
  <2>3. \A k \in DOMAIN stream' : k < pos' => stream'[k].ts <= now'
    <3> SUFFICES ASSUME NEW k \in DOMAIN stream, k < pos
                 PROVE  stream[k].ts <= now'
      BY <2>1
    <3>1. stream[k].ts <= now
      BY DEF LotInv
    <3>2. stream[k].ts \in Nat
      BY StreamIsSorted DEF LoopInv
    <3> QED BY <2>2, <3>1, <3>2
  <2> QED BY <2>1, <2>3 DEF LotInv, Submitted
<1>6. ASSUME NEW i \in Instruments, SettleNext(i)
      PROVE  LotInv'
  <2>1. UNCHANGED <<now, stream, pos, queue, count, orders>>
    BY <1>6 DEF SettleNext, SettleEngine, loopVars
  <2>2. pending' = pending \/ pending' = [pending EXCEPT ![i] = {}]
    BY <1>6 DEF SettleNext, SettleEngine, orderVars
  <2>3. \A j \in Instruments : pending'[j] \subseteq pending[j]
    BY <2>2 DEF Inv, TypeOK
  <2> QED BY <2>1, <2>3 DEF LotInv, Submitted
<1>7. CASE New \/ Finish \/ UNCHANGED emaRunVars
  <2>1. UNCHANGED <<now, stream, pos, queue, count, orders, pending>>
    BY <1>7 DEF New, Finish, emaRunVars, simVars, vars, orderVars, runVars, loopVars
  <2> QED BY <2>1 DEF LotInv, Submitted
<1> QED BY <1>1, <1>2, <1>3, <1>4, <1>5, <1>6, <1>7 DEF EmaNext, OtherStep

(* The invariant, along the steps of the run, for every strategy of lots. *)
LEMMA LotInvariant == EventsFromStart => (EmaSpec => []LotInv)
<1> SUFFICES ASSUME EventsFromStart PROVE EmaSpec => []LotInv
  OBVIOUS
<1>1. Inv /\ LoopInv /\ LotInv /\ [EmaNext]_emaRunVars => LotInv'
  BY LotNext
<1> QED BY <1>1, LotInit, EmaEngines, PTL DEF EmaSpec

-----------------------------------------------------------------------------
(* Executed at the next open *)

(* The record r shows that o was executed at the open of the first bar of  *)
(* its instrument that could execute it.                                   *)
AtFirstChance(s, o, r) ==
    LET bars == {k \in DOMAIN s : Executable(s, k, o)}
    IN  bars # {} /\ r.ts = s[Min(bars)].ts /\ r.notional = Units * s[Min(bars)].payload.open

NextOpenInv ==
    OneBarAtATime =>
        \A n \in Fills :
            log[n][1].via = "bar" => AtFirstChance(stream, orders[n], log[n][1])

(* The property in these words. *)
LEMMA NextOpenIs == ExecutedAtTheNextOpen <=> NextOpenInv
<1>1. ASSUME NEW n
      PROVE  {k \in BarsOf(orders[n].instrument) :
                 stream[k].ts > orders[n].ts /\ stream[k].ts >= ActiveTs(n)}
               = {k \in DOMAIN stream : Executable(stream, k, orders[n])}
  BY DEF BarsOf, Executable, IsBar, ActiveTs
<1> QED BY <1>1 DEF ExecutedAtTheNextOpen, NextOpenInv, AtFirstChance

(***************************************************************************)
(* A buffered order that a bar executes is executed at its first chance:   *)
(* the bar comes after the one it was decided on, as there is but one bar  *)
(* at a time, and none before it could have executed the order.            *)
(***************************************************************************)
LEMMA BarIsFirstChance ==
    ASSUME EventsFromStart, Inv, LoopInv, TimeInv, LotInv, OneBarAtATime, TakeEvent,
           NEW i \in Instruments, IsBar(stream, pos, i),
           NEW n \in BarBought(i, stream[pos].ts)
    PROVE  AtFirstChance(stream, orders[n],
              FillRecord(stream[pos].ts,
                         BarFills(i, stream[pos].ts, stream[pos].payload)[n], "bar"))
<1> DEFINE ev == stream[pos]
           o == orders[n]
           bars == {k \in DOMAIN stream : Executable(stream, k, o)}
           fill == BarFills(i, ev.ts, ev.payload)[n]
<1>1. n \in pending[i] /\ o.ts + Latency <= ev.ts
  BY DEF BarBought, Eligible, ActiveTs
<1>2. n \in Submitted /\ Waiting(stream, pos, o)
  BY <1>1, HeldIsSubmitted DEF LotInv
<1>3. IsLot(o) /\ DecidedOn(stream, pos, o.instrument, o.ts) /\ o.instrument = i
  BY <1>1, <1>2 DEF LotInv, Inv, OrderConservation
<1>4. /\ pos \in DOMAIN stream /\ DOMAIN stream = 1..Len(stream) /\ Len(stream) \in Nat
      /\ \A k \in 1..Len(stream) : stream[k].ts \in Nat
      /\ \A j, k \in 1..Len(stream) : j < k => stream[j].ts <= stream[k].ts
  BY EmaTakes, StreamIsSorted DEF LoopInv
<1>5. ev.ts > o.ts
  <2>1. PICK j \in DOMAIN stream : j < pos /\ IsBar(stream, j, i) /\ stream[j].ts = o.ts
    BY <1>3 DEF DecidedOn
  <2>2. j \in BarsOf(i) /\ pos \in BarsOf(i) /\ j # pos
    BY <1>4, <2>1 DEF BarsOf, IsBar
  <2>3. ev.ts # stream[j].ts
    BY <2>2 DEF OneBarAtATime
  <2> QED BY <1>4, <2>1, <2>3
<1>6. o.ts \in Nat /\ Latency \in Nat
  BY <1>2, EngineAssumption DEF TimeInv, SubmittedOrder, Timestamp
<1>7. pos \in bars
  BY <1>1, <1>3, <1>4, <1>5, <1>6 DEF Executable
<1>8. Min(bars) = pos
  <2>1. bars \in SUBSET Nat
    BY <1>4
  <2> HIDE DEF bars
  <2>2. Min(bars) \in bars /\ Min(bars) <= pos
    BY <1>7, <2>1, MinIsLeast
  <2>3. ~(Min(bars) < pos)
    BY <1>2, <2>2 DEF Waiting, bars
  <2> QED BY <1>4, <2>1, <2>2, <2>3
<1>9. fill = FillWhole(i, o, ev.payload.open)
  BY DEF BarFills
<1>10. fill.notional = Units * ev.payload.open
  BY <1>3, <1>9 DEF FillWhole, FillAtPrice, MakeFill, IsLot
<1> DEFINE r == FillRecord(ev.ts, fill, "bar")
<1>11. r.ts = ev.ts /\ r.notional = fill.notional
  BY DEF FillRecord
<1> HIDE DEF fill, r
<1>12. AtFirstChance(stream, o, r)
  <2> HIDE DEF o, ev
  <2>1. bars # {} /\ r.ts = stream[Min(bars)].ts
        /\ r.notional = Units * stream[Min(bars)].payload.open
    BY <1>7, <1>8, <1>10, <1>11 DEF ev
  <2> QED BY <2>1 DEF AtFirstChance
<1> QED BY <1>12 DEF r, fill

(* Records that no bar made are none of the property's business. *)
LEMMA OtherRecords ==
    ASSUME NEW fills, NEW rejects, NEW ts, NEW via,
           Record(fills, rejects, ts, via), via # "bar",
           \A n \in DOMAIN fills \union rejects : log[n] = <<>>
    PROVE  \A n \in Fills' : log'[n][1].via = "bar" => n \in Fills /\ log'[n] = log[n]
<1> SUFFICES ASSUME NEW n \in Fills', log'[n][1].via = "bar"
             PROVE  n \in Fills /\ log'[n] = log[n]
  OBVIOUS
<1>1. n \in OrderIds /\ log'[n] # <<>> /\ log'[n][1].kind = "fill"
  BY DEF Fills
<1>2. CASE n \in DOMAIN fills \union rejects
  <2>1. PICK r : log'[n] = Append(log[n], r) /\ r.via = via
    BY <1>1, <1>2 DEF Record, FillRecord, RejectRecord
  <2>2. log'[n][1] = r
    BY <1>2, <2>1, FirstRecord
  <2> QED BY <2>1, <2>2
<1>3. CASE n \notin DOMAIN fills \union rejects
  <2>1. log'[n] = log[n]
    BY <1>1, <1>3 DEF Record
  <2> QED BY <1>1, <2>1 DEF Fills
<1> QED BY <1>2, <1>3

(* What makes no record by a bar keeps the invariant. *)
LEMMA NextOpenKept ==
    ASSUME Inv, NextOpenInv, UNCHANGED stream, \A n \in Submitted : orders'[n] = orders[n],
           \A n \in Fills' : log'[n][1].via = "bar" => n \in Fills /\ log'[n] = log[n]
    PROVE  NextOpenInv'
<1>1. OneBarAtATime' => OneBarAtATime
  BY DEF OneBarAtATime, BarsOf
<1>2. Fills \subseteq Submitted
  BY HeldIsSubmitted DEF Fills
<1> QED BY <1>1, <1>2 DEF NextOpenInv

(* A step keeps the invariant: what a bar executes has its first chance. *)
LEMMA NextOpenEvent ==
    ASSUME EventsFromStart, Inv, LoopInv, TimeInv, LotInv, NextOpenInv, EmaProcessEvent
    PROVE  NextOpenInv'
<1> DEFINE ev == stream[pos]
           i == stream[pos].instrument
           p == stream[pos].payload
<1>1. TakeEvent /\ i \in Instruments /\ HandleEvent(i, ev.ts, p) /\ UNCHANGED stream
  BY EmaDecides DEF TakeEvent
<1>2. UNCHANGED <<count, orders>>
  BY <1>1, EventLetsGo
<1>3. resting[i] = {}
  <2> SUFFICES ASSUME NEW n \in resting[i] PROVE FALSE
    OBVIOUS
  <2>1. n \in Submitted /\ orders[n].type # "Market"
    BY <1>1, HeldIsSubmitted DEF Inv, OrderConservation
  <2> QED BY <2>1 DEF LotInv, IsLot
<1>4. CASE p.type \in {"Bar", "DerivedBar"} /\ HandleBar(i, ev.ts, p)
  <2> DEFINE fills == BarFills(i, ev.ts, p)
             bought == BarBought(i, ev.ts)
  <2>1. Record(fills, BarExpired(i, ev.ts, p), ev.ts, "bar")
    BY <1>4, BarStep
  <2>2. BarExpired(i, ev.ts, p) = {} /\ BarReached(i, ev.ts, p) = {}
    BY <1>3 DEF BarExpired, BarReached, BarChecked, Eligible
  <2>3. DOMAIN fills = bought
    BY <2>2 DEF BarFills
  <2>4. \A n \in bought : n \in OrderIds /\ log[n] = <<>>
    BY <1>1, HeldIsUnrecorded DEF BarBought, Eligible
  <2>5. ASSUME NEW n \in OrderIds
        PROVE  log'[n] = IF n \in bought THEN Append(log[n], FillRecord(ev.ts, fills[n], "bar"))
                         ELSE log[n]
    <3> HIDE DEF fills, bought
    <3> QED BY <2>1, <2>2, <2>3 DEF Record
  <2>6. IsBar(stream, pos, i)
    BY <1>4 DEF IsBar
  <2>7. ASSUME OneBarAtATime, NEW n \in bought
        PROVE  AtFirstChance(stream, orders[n], FillRecord(ev.ts, fills[n], "bar"))
    BY <1>1, <2>6, <2>7, BarIsFirstChance
  <2>8. ASSUME OneBarAtATime, NEW n \in Fills', log'[n][1].via = "bar"
        PROVE  AtFirstChance(stream, orders[n], log'[n][1])
    <3> DEFINE r == FillRecord(ev.ts, fills[n], "bar")
    <3>1. n \in OrderIds /\ log'[n] # <<>> /\ log'[n][1].kind = "fill"
      BY <2>8 DEF Fills
    <3>2. CASE n \in bought
      <4>1. log'[n] = Append(<<>>, r)
        BY <2>4, <2>5, <3>1, <3>2
      <4> HIDE DEF r, bought
      <4>2. log'[n][1] = r
        BY <4>1, FirstRecord
      <4> QED BY <2>7, <2>8, <3>2, <4>2 DEF r
    <3>3. CASE n \notin bought
      <4>1. log'[n] = log[n] /\ n \in Fills
        BY <2>5, <3>1, <3>3 DEF Fills
      <4> QED BY <2>8, <4>1 DEF NextOpenInv
    <3> QED BY <3>2, <3>3
  <2>9. OneBarAtATime' => OneBarAtATime
    BY <1>1 DEF OneBarAtATime, BarsOf
  <2> QED BY <1>1, <1>2, <2>8, <2>9 DEF NextOpenInv
<1>5. ASSUME NEW fills, NEW via \in {"quote", "trade"}, Record(fills, {}, ev.ts, via),
             DOMAIN fills \subseteq pending[i] \union resting[i]
      PROVE  NextOpenInv'
  <2>1. \A n \in DOMAIN fills \union {} : log[n] = <<>>
    BY <1>1, <1>5, HeldIsUnrecorded
  <2>2. \A n \in Fills' : log'[n][1].via = "bar" => n \in Fills /\ log'[n] = log[n]
    BY <1>5, <2>1, OtherRecords
  <2> QED BY <1>1, <1>2, <2>2, NextOpenKept
<1>6. CASE p.type = "Quote" /\ HandleQuote(i, ev.ts, p)
  <2>1. Record(QuoteFills(i, ev.ts, p), {}, ev.ts, "quote")
    BY <1>6, QuoteStep
  <2>2. DOMAIN QuoteFills(i, ev.ts, p) \subseteq pending[i] \union resting[i]
    BY DEF QuoteFills, Eligible
  <2> HIDE DEF ev, i, p
  <2> QED BY <1>5, <2>1, <2>2
<1>7. CASE p.type = "Trade" /\ HandleTrade(i, ev.ts, p.price)
  <2>1. Record(TradeFills(i, ev.ts, p.price), {}, ev.ts, "trade")
    BY <1>7, TradeStep
  <2>2. DOMAIN TradeFills(i, ev.ts, p.price) \subseteq pending[i] \union resting[i]
    BY DEF TradeFills, TradeReached, Eligible
  <2> HIDE DEF ev, i, p
  <2> QED BY <1>5, <2>1, <2>2
<1>8. CASE UNCHANGED log
  BY <1>1, <1>2, <1>8, NextOpenKept DEF Fills
<1> HIDE DEF ev, i, p
<1> QED BY <1>1, <1>4, <1>6, <1>7, <1>8 DEF HandleEvent, HandleBook, HandleMark,
       HandleStatus, HandleFees, HandleSignal, orderVars

(* What the other steps record was made by no bar. *)
LEMMA NextOpenNext ==
    ASSUME EventsFromStart, Inv, LoopInv, TimeInv, LotInv, NextOpenInv, [EmaNext]_emaRunVars
    PROVE  NextOpenInv'
<1>1. CASE EmaProcessEvent
  BY <1>1, NextOpenEvent
<1>2. CASE Execute
  <2>1. /\ pos = 1 /\ stream = <<>> /\ UNCHANGED log
    BY <1>2 DEF Execute, LoopInv, StreamInv, Started, vars, orderVars
  <2>2. Submitted = {}
    BY <2>1 DEF LotInv, DecidedOn
  <2>3. Fills' = {}
    BY <2>1, <2>2, HeldIsSubmitted DEF Fills
  <2> QED BY <2>3 DEF NextOpenInv
<1>3. CASE SubmitNext
  <2>1. PICK o : o \in Order /\ IsLot(o) /\ SubmitOrder(o) /\ UNCHANGED stream
    BY <1>3, LotSubmitted
  <2> DEFINE n == count + 1
             one == [m \in {n} |-> ImmediateFill(o.instrument, o)]
  <2>2. /\ log[n] = <<>> /\ \A m \in Submitted : orders'[m] = orders[m]
    BY <2>1, SubmitStores, LotIsStored
  <2>3. \/ log' = log
        \/ \E via \in {"halted", "unfillable"} : Record(<<>>, {n}, now, via)
        \/ Record(one, {}, now + Latency, "book")
    BY <2>1 DEF SubmitOrder, Conclude, Buffer, Rest
  <2>4. DOMAIN one = {n} /\ DOMAIN <<>> = {}
    OBVIOUS
  <2> HIDE DEF n, one
  <2>5. \A m \in Fills' : log'[m][1].via = "bar" => m \in Fills /\ log'[m] = log[m]
    <3>1. CASE log' = log
      BY <3>1 DEF Fills
    <3>2. ASSUME NEW via \in {"halted", "unfillable"}, Record(<<>>, {n}, now, via)
          PROVE  \A m \in Fills' : log'[m][1].via = "bar" => m \in Fills /\ log'[m] = log[m]
      <4>1. \A m \in DOMAIN <<>> \union {n} : log[m] = <<>>
        BY <2>2
      <4> QED BY <3>2, <4>1, OtherRecords
    <3>3. CASE Record(one, {}, now + Latency, "book")
      BY <2>2, <2>4, <3>3, OtherRecords
    <3> QED BY <2>3, <3>1, <3>2, <3>3
  <2> QED BY <2>1, <2>2, <2>5, NextOpenKept
<1>4. ASSUME NEW i \in Instruments, SettleNext(i)
      PROVE  NextOpenInv'
  <2>1. UNCHANGED <<stream, orders>>
    BY <1>4 DEF SettleNext, SettleEngine, loopVars
  <2>2. \A n \in Fills' : log'[n][1].via = "bar" => n \in Fills /\ log'[n] = log[n]
    <3>1. CASE UNCHANGED orderVars
      BY <3>1 DEF orderVars, Fills
    <3>2. CASE Record(SettleFills(i), resting[i], now, "settle")
      <4>1. DOMAIN SettleFills(i) = pending[i]
        BY DEF SettleFills
      <4>2. \A n \in DOMAIN SettleFills(i) \union resting[i] : log[n] = <<>>
        BY <4>1, HeldIsUnrecorded
      <4> QED BY <3>2, <4>2, OtherRecords
    <3> QED BY <1>4, <3>1, <3>2 DEF SettleNext, SettleEngine
  <2> QED BY <2>1, <2>2, NextOpenKept
<1>5. CASE New \/ SkipEvent \/ EndEvents \/ Finish \/ UNCHANGED emaRunVars
  <2>1. UNCHANGED <<stream, orders, log>>
    BY <1>5 DEF New, SkipEvent, TakeEvent, EndEvents, Finish, emaRunVars, simVars, vars,
       orderVars, runVars, loopVars
  <2> QED BY <2>1, NextOpenKept DEF Fills
<1> QED BY <1>1, <1>2, <1>3, <1>4, <1>5 DEF EmaNext, OtherStep

(***************************************************************************)
(* An order of the strategy that a bar executes is executed at the open of *)
(* the first bar that comes when it is active, never by the bar it was     *)
(* decided on; for data that begin with the run's clock, as data that are  *)
(* older than the clock give a decision a later date than its bar.         *)
(***************************************************************************)
THEOREM ExecutedInTime == EventsFromStart => (EmaSpec => []ExecutedAtTheNextOpen)
<1> SUFFICES ASSUME EventsFromStart PROVE EmaSpec => []ExecutedAtTheNextOpen
  OBVIOUS
<1>1. EmaInit => NextOpenInv
  BY DEF EmaInit, RunInit, Init, NextOpenInv, Fills
<1>2. Inv /\ LoopInv /\ EngineInv /\ LotInv /\ NextOpenInv /\ [EmaNext]_emaRunVars
         => NextOpenInv'
  BY NextOpenNext DEF EngineInv, LatencyInv
<1>3. EmaSpec => []NextOpenInv
  BY <1>1, <1>2, LotInvariant, EmaEngines, PTL DEF EmaSpec
<1> QED BY <1>3, NextOpenIs, PTL

-----------------------------------------------------------------------------
(* The flag and what was ordered *)

(* The lots in S, purchases less sales, in units; and what the flag claims. *)
Traded(os, S) == SumFunctionOnSet([n \in OrderIds |-> Signed(os[n])], S)
Claimed(long) == IF long THEN Units ELSE 0

(***************************************************************************)
(* The invariant: purchases and sales take turns, so that any number of    *)
(* first orders come to nothing or one lot, and all that was submitted or  *)
(* returned comes to what the flag claims.                                 *)
(***************************************************************************)
FlagInv ==
    /\ isLong \in BOOLEAN
    /\ \A n \in Submitted : IsLot(orders[n])
    /\ \A m \in 0..count : Traded(orders, 1..m) \in {0, Units}
    /\ \/ queue = <<>> /\ Traded(orders, Submitted) = Claimed(isLong)
       \/ \E o : /\ queue = <<o>> /\ IsLot(o)
                 /\ Traded(orders, Submitted) + Signed(o) = Claimed(isLong)

(* A lot is bought or sold. *)
LEMMA LotValue ==
    ASSUME NEW o, IsLot(o)
    PROVE  /\ Signed(o) \in Int
           /\ o.side = "Buy" => Signed(o) = Units
           /\ o.side = "Sell" => Signed(o) = -Units
<1>1. Units \in Nat /\ Units # 0
  BY EmaAssumption DEF Quantity
<1>2. o.qty = Units /\ o.side \in {"Buy", "Sell"}
  BY DEF IsLot
<1>3. /\ o.side = "Buy" => Sign(o.side) = 1
      /\ o.side = "Sell" => Sign(o.side) = -1
  BY DEF Sign
<1>4. CASE o.side = "Buy"
  BY <1>1, <1>2, <1>3, <1>4 DEF Signed
<1>5. CASE o.side = "Sell"
  BY <1>1, <1>2, <1>3, <1>5 DEF Signed
<1> QED BY <1>2, <1>4, <1>5

(* What was traded is a number, whichever orders are meant. *)
LEMMA TradedType ==
    ASSUME NEW os, NEW S \in SUBSET OrderIds, \A n \in S : IsLot(os[n])
    PROVE  Traded(os, S) \in Int
<1> DEFINE f == [n \in OrderIds |-> Signed(os[n])]
<1>1. \A n \in S : f[n] \in Int
  BY LotValue
<1> HIDE DEF f
<1>2. SumFunctionOnSet(f, S) \in Int
  BY <1>1, OrderIdsFinite, SumType
<1> QED BY <1>2 DEF Traded, f

(* It depends on the orders traded only. *)
SameLots(os, new, S) == \A m \in S : IsLot(os[m]) /\ new[m] = os[m]

LEMMA TradedSame ==
    ASSUME NEW os, NEW new, NEW S \in SUBSET OrderIds, SameLots(os, new, S)
    PROVE  Traded(new, S) = Traded(os, S)
<1> DEFINE f == [m \in OrderIds |-> Signed(os[m])]
           g == [m \in OrderIds |-> Signed(new[m])]
<1>1. IsFiniteSet(S)
  BY OrderIdsFinite
<1>2. \A m \in S : f[m] \in Int /\ f[m] = g[m]
  BY LotValue DEF SameLots
<1> HIDE DEF f, g
<1>3. SumFunctionOnSet(f, S) = SumFunctionOnSet(g, S)
  BY <1>1, <1>2, SumEqual
<1> QED BY <1>3 DEF Traded, f, g

(* One more order changes it by its value. *)
LEMMA TradedAdds ==
    ASSUME NEW os, NEW S \in SUBSET OrderIds, NEW n \in OrderIds \ S,
           SameLots(os, os, S), IsLot(os[n])
    PROVE  Traded(os, S \union {n}) = Traded(os, S) + Signed(os[n])
<1> DEFINE f == [m \in OrderIds |-> Signed(os[m])]
<1>1. IsFiniteSet(S)
  BY OrderIdsFinite
<1>2. \A m \in S \union {n} : f[m] \in Int
  BY LotValue DEF SameLots
<1>3. f[n] = Signed(os[n])
  OBVIOUS
<1> HIDE DEF f
<1>4. SumFunctionOnSet(f, S \union {n}) = SumFunctionOnSet(f, S) + f[n]
  BY <1>1, <1>2, SumAdd
<1> QED BY <1>3, <1>4 DEF Traded, f

(* Nothing was ordered, and the flag claims nothing. *)
LEMMA FlagInit == EmaInit => FlagInv
<1> SUFFICES ASSUME EmaInit PROVE FlagInv
  OBVIOUS
<1>1. queue = <<>> /\ count = 0 /\ isLong = FALSE
  BY DEF EmaInit, RunInit, Init
<1>2. Submitted = {} /\ 1..0 = {}
  BY <1>1 DEF Submitted
<1>3. \A m \in 0..count : m = 0
  BY <1>1
<1>4. Traded(orders, {}) = 0
  BY SumEmpty DEF Traded
<1> QED BY <1>1, <1>2, <1>3, <1>4 DEF FlagInv, Claimed

(* What a bar makes of the flag, and orders accordingly. *)
LEMMA FlagDecides ==
    ASSUME FlagInv, EmaProcessEvent
    PROVE  /\ isLong' \in BOOLEAN
           /\ \/ queue' = <<>> /\ isLong' = isLong
              \/ \E o : /\ queue' = <<o>> /\ IsLot(o)
                        /\ Claimed(isLong) + Signed(o) = Claimed(isLong')
<1> DEFINE ev == stream[pos]
<1>1. /\ ev.instrument \in Instruments
      /\ queue' \in (IF gateOpen' /\ ev.payload.type = "Bar" THEN Batches ELSE {<<>>})
  BY DEF EmaProcessEvent, ProcessEvent
<1>2. Units \in Nat
  BY EmaAssumption DEF Quantity
<1>3. ASSUME NEW side \in {"Buy", "Sell"}
      PROVE  /\ IsLot(MarketOrder(ev.instrument, side))
             /\ MarketOrder(ev.instrument, side).side = side
  BY <1>1 DEF MarketOrder, IsLot
<1>4. isLong \in BOOLEAN
  BY DEF FlagInv
<1>5. CASE ~(gateOpen' /\ ev.payload.type = "Bar")
  BY <1>1, <1>4, <1>5 DEF EmaProcessEvent, emaVars
<1>6. CASE gateOpen' /\ ev.payload.type = "Bar"
  <2>1. OnBar(ev.instrument, ev.payload.close)
    BY <1>6 DEF EmaProcessEvent
  <2>2. CASE GoldenCross /\ isLong' = TRUE /\ queue' = <<MarketOrder(ev.instrument, "Buy")>>
    <3> DEFINE o == MarketOrder(ev.instrument, "Buy")
    <3>1. IsLot(o) /\ Signed(o) = Units
      BY <1>3, LotValue
    <3>2. Claimed(isLong) = 0 /\ Claimed(isLong') = Units
      BY <2>2 DEF GoldenCross, Claimed
    <3> HIDE DEF o
    <3>3. Claimed(isLong) + Signed(o) = Claimed(isLong')
      BY <1>2, <3>1, <3>2
    <3> QED BY <2>2, <3>1, <3>3 DEF o
  <2>3. CASE DeathCross /\ isLong' = FALSE /\ queue' = <<MarketOrder(ev.instrument, "Sell")>>
    <3> DEFINE o == MarketOrder(ev.instrument, "Sell")
    <3>1. IsLot(o) /\ Signed(o) = -Units
      BY <1>3, LotValue
    <3>2. Claimed(isLong) = Units /\ Claimed(isLong') = 0
      BY <2>3 DEF DeathCross, Claimed
    <3> HIDE DEF o
    <3>3. Claimed(isLong) + Signed(o) = Claimed(isLong')
      BY <1>2, <3>1, <3>2
    <3> QED BY <2>3, <3>1, <3>3 DEF o
  <2>4. CASE isLong' = isLong /\ queue' = <<>>
    BY <1>4, <2>4
  <2> QED BY <2>1, <2>2, <2>3, <2>4 DEF OnBar
<1> QED BY <1>5, <1>6

(* The order that is submitted is one lot and the last one returned. *)
LEMMA FlagSubmits ==
    ASSUME Inv, LoopInv, FlagInv, SubmitNext
    PROVE  \E o : /\ o \in Order /\ IsLot(o) /\ SubmitOrder(o) /\ queue' = <<>>
                  /\ Traded(orders, Submitted) + Signed(o) = Claimed(isLong)
                  /\ UNCHANGED now
<1>1. PICK o : /\ queue = <<o>> /\ IsLot(o)
               /\ Traded(orders, Submitted) + Signed(o) = Claimed(isLong)
  BY DEF SubmitNext, FlagInv
<1>2. Head(queue) = o /\ Tail(queue) = <<>>
  BY <1>1
<1>3. o \in Order
  <2>1. queue \in Seq(OrderSpecs \union StrayOrders) /\ queue # <<>>
    BY <1>1 DEF LoopInv, BatchInv
  <2>2. o \in OrderSpecs \union StrayOrders
    BY <1>2, <2>1
  <2> QED BY <1>1, <2>2, EngineAssumption, RunAssumption DEF IsLot
<1> QED BY <1>1, <1>2, <1>3 DEF SubmitNext

(* Every step of the strategy's run keeps the invariant. *)
LEMMA FlagNext ==
    ASSUME Inv, LoopInv, FlagInv, [EmaNext]_emaRunVars
    PROVE  FlagInv'
<1>1. CASE EmaProcessEvent
  <2>1. queue = <<>> /\ UNCHANGED <<count, orders>>
    <3>1. /\ TakeEvent /\ stream[pos].instrument \in Instruments
          /\ HandleEvent(stream[pos].instrument, stream[pos].ts, stream[pos].payload)
      BY <1>1, EmaDecides
    <3> QED BY <3>1, EventLetsGo DEF TakeEvent
  <2>2. Traded(orders, Submitted) = Claimed(isLong)
    BY <2>1 DEF FlagInv
  <2>3. /\ isLong' \in BOOLEAN
        /\ \/ queue' = <<>> /\ isLong' = isLong
           \/ \E o : /\ queue' = <<o>> /\ IsLot(o)
                     /\ Claimed(isLong) + Signed(o) = Claimed(isLong')
    BY <1>1, FlagDecides
  <2>4. Submitted' = Submitted
    BY <2>1 DEF Submitted
  <2>5. /\ Traded(orders', Submitted') = Claimed(isLong)
        /\ \A m \in 0..count' : Traded(orders', 1..m) \in {0, Units}
        /\ \A n \in Submitted' : IsLot(orders'[n])
    BY <2>1, <2>2, <2>4 DEF FlagInv
  <2> QED BY <2>3, <2>5 DEF FlagInv
<1>2. CASE SubmitNext
  <2>1. PICK o : /\ o \in Order /\ IsLot(o) /\ SubmitOrder(o) /\ queue' = <<>>
                 /\ Traded(orders, Submitted) + Signed(o) = Claimed(isLong)
    BY <1>2, FlagSubmits
  <2> DEFINE n == count + 1
  <2>2. /\ IsLot(orders'[n]) /\ orders'[n].side = o.side
        /\ \A m \in Submitted : m \in OrderIds /\ m # n /\ orders'[m] = orders[m]
    BY <2>1, LotIsStored
  <2>3. n \in OrderIds /\ count' = n /\ Submitted' = Submitted \union {n} /\ count \in Nat
    <3>1. count \in Nat
      BY DEF Inv, TypeOK
    <3> QED BY <2>1, <3>1, SubmitStores
  <2>4. isLong' = isLong
    <3>1. UNCHANGED emaVars \/ EmaProcessEvent
      BY DEF EmaNext, emaRunVars
    <3>2. ~EmaProcessEvent
      BY <1>2 DEF SubmitNext, EmaProcessEvent, ProcessEvent, TakeEvent
    <3> QED BY <3>1, <3>2 DEF emaVars
  <2>5. Signed(orders'[n]) = Signed(o)
    BY <2>1, <2>2 DEF Signed, IsLot
  <2> HIDE DEF n
  <2>6. Traded(orders', Submitted') = Claimed(isLong)
    <3> DEFINE S == Submitted
               U == orders'
    <3>1. S \in SUBSET OrderIds /\ n \in OrderIds \ S
      BY <2>2, <2>3
    <3>2. SameLots(orders, U, S)
      BY <2>2 DEF SameLots, FlagInv
    <3>3. SameLots(U, U, S) /\ IsLot(U[n])
      BY <2>2, <3>2 DEF SameLots
    <3> HIDE DEF S, U
    <3>4. Traded(U, S) = Traded(orders, S)
      BY <3>1, <3>2, TradedSame
    <3>5. Traded(U, S \union {n}) = Traded(U, S) + Signed(U[n])
      BY <3>1, <3>3, TradedAdds
    <3>6. Traded(orders', Submitted \union {n}) = Traded(orders, Submitted) + Signed(orders'[n])
      BY <3>4, <3>5, Zenon DEF S, U
    <3> QED BY <2>1, <2>3, <2>5, <3>6
  <2>7. ASSUME NEW m \in 0..count'
        PROVE  Traded(orders', 1..m) \in {0, Units}
    <3>1. CASE m = n
      <4>1. Submitted' = 1..m
        BY <2>3, <3>1 DEF Submitted
      <4> QED BY <2>6, <4>1 DEF Claimed
    <3>2. CASE m # n
      <4>1. m \in 0..count
        BY <2>3, <3>2 DEF n
      <4>2. 1..m \subseteq Submitted
        BY <2>3, <4>1 DEF Submitted
      <4> DEFINE S == 1..m
      <4>3. S \in SUBSET OrderIds /\ SameLots(orders, orders', S)
        BY <2>2, <4>2 DEF SameLots, FlagInv
      <4> HIDE DEF S
      <4>4. Traded(orders', S) = Traded(orders, S)
        BY <4>3, TradedSame
      <4> USE DEF S
      <4> QED BY <4>1, <4>4 DEF FlagInv
    <3> QED BY <3>1, <3>2
  <2>8. \A m \in Submitted' : IsLot(orders'[m])
    BY <2>2, <2>3 DEF FlagInv
  <2> QED BY <2>1, <2>4, <2>6, <2>7, <2>8 DEF FlagInv
<1>3. CASE UNCHANGED <<count, orders, queue, isLong>>
  <2>1. Submitted' = Submitted
    BY <1>3 DEF Submitted
  <2> QED BY <1>3, <2>1 DEF FlagInv
<1>4. ASSUME New \/ Execute \/ SkipEvent \/ EndEvents \/ (\E i \in Instruments : SettleNext(i))
                 \/ Finish \/ UNCHANGED emaRunVars
      PROVE  UNCHANGED <<count, orders, queue>>
  BY <1>4 DEF New, Execute, SkipEvent, EndEvents, SettleNext, SettleEngine, Finish, emaRunVars,
     simVars, vars, runVars, loopVars, TakeEvent
<1>5. EmaProcessEvent \/ SubmitNext \/ UNCHANGED <<count, orders, queue, isLong>>
  BY <1>4 DEF EmaNext, OtherStep, emaRunVars, emaVars
<1> QED BY <1>1, <1>2, <1>3, <1>5

(* The invariant, for every strategy with a flag and every data. *)
LEMMA FlagInvariant == EmaSpec => []FlagInv
<1>1. Inv /\ LoopInv /\ FlagInv /\ [EmaNext]_emaRunVars => FlagInv'
  BY FlagNext
<1> QED BY <1>1, FlagInit, EmaEngines, PTL DEF EmaSpec

-----------------------------------------------------------------------------
(* What is executed, and in which order *)

(* The data show no book: an order waits for a bar, and is executed whole. *)
NoBookData == \A p \in Payloads : p.type \notin {"Quote", "BookDelta", "BookSnapshot"}

(***************************************************************************)
(* The invariant: orders are executed whole; they are numbered in the      *)
(* order of their dates; and one that was executed leaves no earlier order *)
(* of its instrument behind.                                               *)
(***************************************************************************)
FlowInv ==
    /\ \A i \in Instruments : IsEmptyBook(book[i])
    /\ \A n \in Fills : log[n][1].qty = orders[n].qty
    /\ \A m, n \in Submitted : m < n => orders[m].ts <= orders[n].ts
    /\ \A n \in Fills : \A m \in Submitted :
          m < n /\ orders[m].instrument = orders[n].instrument => Concluded(m)

(* The strategy's orders do not rest. *)
LEMMA NothingRests ==
    ASSUME Inv, FlagInv, NEW i \in Instruments
    PROVE  resting[i] = {}
<1> SUFFICES ASSUME NEW n \in resting[i] PROVE FALSE
  OBVIOUS
<1>1. n \in Submitted /\ orders[n].type # "Market"
  BY HeldIsSubmitted DEF Inv, OrderConservation
<1> QED BY <1>1 DEF FlagInv, IsLot

(* Whoever was ordered before a buffered order is active no later. *)
LEMMA EarlierIsActive ==
    ASSUME Inv, TimeInv, FlagInv, FlowInv, NEW i \in Instruments, NEW n \in pending[i],
           NEW m \in Submitted, m < n, orders[m].instrument = orders[n].instrument
    PROVE  \/ Concluded(m)
           \/ /\ m \in pending[i]
              /\ ActiveTs(m) \in Nat /\ ActiveTs(n) \in Nat /\ ActiveTs(m) <= ActiveTs(n)
<1> SUFFICES ASSUME ~Concluded(m)
             PROVE  /\ m \in pending[i]
                    /\ ActiveTs(m) \in Nat /\ ActiveTs(n) \in Nat /\ ActiveTs(m) <= ActiveTs(n)
  OBVIOUS
<1>1. n \in Submitted /\ orders[n].instrument = i
  BY HeldIsSubmitted DEF Inv, OrderConservation
<1>2. m \in OrderIds
  BY EngineAssumption DEF Submitted, OrderIds, Inv, TypeOK
<1>3. PICK j \in Instruments : m \in pending[j]
  BY <1>2, NothingRests DEF Inv, OrderConservation, Working
<1>4. m \in pending[i]
  BY <1>1, <1>3 DEF Inv, OrderConservation
<1>5. orders[m].ts <= orders[n].ts
  BY <1>1 DEF FlowInv
<1>6. orders[m].ts \in Nat /\ orders[n].ts \in Nat /\ Latency \in Nat
  BY <1>1, EngineAssumption DEF TimeInv, SubmittedOrder, Timestamp
<1>7. ActiveTs(m) \in Nat /\ ActiveTs(n) \in Nat /\ ActiveTs(m) <= ActiveTs(n)
  BY <1>5, <1>6 DEF ActiveTs
<1> QED BY <1>4, <1>7

(* A record, once made, is there to stay. *)
LEMMA RecordStays ==
    ASSUME NEW fills, NEW rejects, NEW ts, NEW via, Record(fills, rejects, ts, via),
           NEW m \in OrderIds, Concluded(m) \/ m \in DOMAIN fills, log[m] = <<>> \/
              m \notin DOMAIN fills \union rejects
    PROVE  Concluded(m)'
<1>1. CASE m \in DOMAIN fills
  <2>1. log'[m] = <<FillRecord(ts, fills[m], via)>>
    BY <1>1, FirstRecord DEF Record
  <2> QED BY <2>1 DEF Concluded
<1>2. CASE m \notin DOMAIN fills
  <2>1. log'[m] = log[m] /\ log[m] # <<>>
    BY <1>2 DEF Record, Concluded
  <2> QED BY <2>1 DEF Concluded
<1> QED BY <1>1, <1>2

(***************************************************************************)
(* A step that executes orders whole, and with each the earlier orders of  *)
(* its instrument that still wait, keeps the invariant.                    *)
(***************************************************************************)
LEMMA FlowRecords ==
    ASSUME Inv, FlowInv, UNCHANGED <<count, orders, book>>,
           NEW fills, NEW rejects, NEW ts, NEW via, Record(fills, rejects, ts, via),
           DOMAIN fills \subseteq OrderIds, rejects \subseteq OrderIds,
           \A n \in DOMAIN fills \union rejects : log[n] = <<>>,
           \A n \in DOMAIN fills : fills[n].qty = orders[n].qty,
           \A n \in DOMAIN fills : \A m \in Submitted :
              m < n /\ orders[m].instrument = orders[n].instrument
                  => Concluded(m) \/ m \in DOMAIN fills
    PROVE  FlowInv'
<1>1. /\ \A n \in DOMAIN fills : log'[n] = <<FillRecord(ts, fills[n], via)>>
      /\ Fills' = Fills \union DOMAIN fills
      /\ \A n \in Fills : log'[n] = log[n]
  BY FirstRecords DEF Inv, TypeOK
<1>2. Submitted' = Submitted /\ Submitted \subseteq OrderIds
  BY EngineAssumption DEF Submitted, OrderIds, Inv, TypeOK
<1>3. ASSUME NEW n \in Fills'
      PROVE  log'[n][1].qty = orders'[n].qty
  <2>1. CASE n \in DOMAIN fills
    <3> DEFINE r == FillRecord(ts, fills[n], via)
    <3>1. r.qty = fills[n].qty
      BY DEF FillRecord
    <3>2. log'[n] = <<r>>
      BY <1>1, <2>1
    <3> HIDE DEF r
    <3>3. log'[n][1] = r
      BY <3>2
    <3> QED BY <2>1, <3>1, <3>3
  <2>2. CASE n \in Fills
    BY <1>1, <2>2 DEF FlowInv
  <2> QED BY <1>1, <2>1, <2>2
<1>4. ASSUME NEW n \in Fills', NEW m \in Submitted',
             m < n, orders'[m].instrument = orders'[n].instrument
      PROVE  Concluded(m)'
  <2>1. Concluded(m) \/ m \in DOMAIN fills
    BY <1>1, <1>2, <1>4 DEF FlowInv
  <2>2. m \in OrderIds /\ (log[m] = <<>> \/ m \notin DOMAIN fills \union rejects)
    BY <1>2, <1>4
  <2> QED BY <2>1, <2>2, RecordStays
<1> QED BY <1>2, <1>3, <1>4 DEF FlowInv

(* A step that makes no record keeps it all the more. *)
LEMMA FlowKept ==
    ASSUME FlowInv, UNCHANGED <<count, orders, book, log>>
    PROVE  FlowInv'
<1>1. Fills' = Fills /\ Submitted' = Submitted /\ \A m : Concluded(m)' <=> Concluded(m)
  BY DEF Fills, Submitted, Concluded
<1> QED BY <1>1 DEF FlowInv

(* Whole orders are filled at a price. *)
LEMMA WholeQty ==
    ASSUME NEW i, NEW o, NEW price
    PROVE  FillWhole(i, o, price).qty = o.qty
BY DEF FillWhole, FillAtPrice, MakeFill

(* Without a book, bars are the only data that execute a lot. *)
LEMMA FlowEvent ==
    ASSUME NoBookData, Inv, TimeInv, FlagInv, FlowInv,
           NEW i \in Instruments, NEW ts \in Nat, NEW p \in Payloads, HandleEvent(i, ts, p)
    PROVE  FlowInv'
<1>1. p.type \notin {"Quote", "BookDelta", "BookSnapshot"}
  BY DEF NoBookData
<1>2. resting[i] = {}
  BY NothingRests
<1>3. CASE HandleBar(i, ts, p)
  <2> DEFINE fills == BarFills(i, ts, p)
             bought == BarBought(i, ts)
  <2>1. Record(fills, BarExpired(i, ts, p), ts, "bar") /\ UNCHANGED <<book, count, orders>>
    BY <1>3, BarStep
  <2>2. BarExpired(i, ts, p) = {} /\ BarReached(i, ts, p) = {}
    BY <1>2 DEF BarExpired, BarReached, BarChecked, Eligible
  <2>3. DOMAIN fills = bought
    BY <2>2 DEF BarFills
  <2>4. \A n \in bought : fills[n].qty = orders[n].qty
    BY WholeQty DEF BarFills
  <2>5. bought \subseteq pending[i]
    BY DEF BarBought, Eligible
  <2>6. \A n \in bought : n \in OrderIds /\ log[n] = <<>>
    BY <2>5, HeldIsUnrecorded
  <2>7. ASSUME NEW n \in bought, NEW m \in Submitted, m < n,
               orders[m].instrument = orders[n].instrument
        PROVE  Concluded(m) \/ m \in bought
    <3>1. n \in pending[i] /\ ActiveTs(n) <= ts
      BY DEF BarBought, Eligible
    <3>2. CASE Concluded(m)
      BY <3>2
    <3>3. CASE /\ m \in pending[i]
               /\ ActiveTs(m) \in Nat /\ ActiveTs(n) \in Nat /\ ActiveTs(m) <= ActiveTs(n)
      <4>1. ActiveTs(m) <= ts
        BY <3>1, <3>3
      <4> QED BY <3>3, <4>1 DEF BarBought, Eligible
    <3> QED BY <2>7, <3>1, <3>2, <3>3, EarlierIsActive
  <2> HIDE DEF fills, bought
  <2> QED BY <2>1, <2>2, <2>3, <2>4, <2>6, <2>7, FlowRecords
<1>4. CASE p.type = "Trade" /\ HandleTrade(i, ts, p.price)
  <2> DEFINE fills == TradeFills(i, ts, p.price)
  <2>1. Record(fills, {}, ts, "trade") /\ UNCHANGED <<book, count, orders>>
    BY <1>4, TradeStep
  <2>2. DOMAIN fills = {}
    BY <1>2 DEF TradeFills, TradeReached, Eligible
  <2> HIDE DEF fills
  <2> QED BY <2>1, <2>2, FlowRecords
<1>5. CASE UNCHANGED <<book, log, count, orders>>
  BY <1>5, FlowKept
<1> QED BY <1>1, <1>3, <1>4, <1>5 DEF HandleEvent, HandleMark, HandleStatus, HandleFees,
       HandleSignal, orderVars, runVars

(* A lot that is submitted waits or is refused. *)
LEMMA FlowSubmit ==
    ASSUME Inv, TimeInv, FlowInv, NEW o \in Order, IsLot(o), SubmitOrder(o)
    PROVE  FlowInv'
<1> DEFINE n == count + 1
<1>1. /\ orders'[n].ts = now
      /\ \A m \in Submitted : m \in OrderIds /\ m # n /\ orders'[m] = orders[m]
  BY LotIsStored
<1>2. /\ n \in OrderIds /\ Submitted' = Submitted \union {n} /\ log[n] = <<>>
      /\ \A m \in Submitted : m < n
  <2>1. count \in Nat
    BY DEF Inv, TypeOK
  <2>2. \A m \in Submitted : m < n
    BY <2>1 DEF Submitted
  <2> QED BY <2>2, SubmitStores
<1>3. book' = book
  BY DEF SubmitOrder, marketVars
<1>4. ImmediateFill(o.instrument, o) = None
  <2>1. IsEmptyBook(book[o.instrument])
    BY DEF IsLot, FlowInv
  <2> QED BY <2>1 DEF ImmediateFill
<1>5. log' = log \/ \E via : Record(<<>>, {n}, now, via)
  BY <1>4 DEF SubmitOrder, Conclude, IsLot
<1> HIDE DEF n
<1>6. Fills' = Fills /\ \A m \in Submitted : log'[m] = log[m]
  <2>1. CASE log' = log
    BY <2>1 DEF Fills
  <2>2. ASSUME NEW via, Record(<<>>, {n}, now, via)
        PROVE  Fills' = Fills /\ \A m \in Submitted : log'[m] = log[m]
    <3> DEFINE none == <<>>
               refused == {n}
    <3>1. DOMAIN none = {} /\ Record(none, refused, now, via)
      BY <2>2
    <3>2. /\ refused \subseteq OrderIds /\ DOMAIN log = OrderIds
          /\ \A m \in refused : log[m] = <<>>
      BY <1>2 DEF Inv, TypeOK
    <3>3. \A m \in Submitted : m \in OrderIds \ refused
      BY <1>1
    <3> HIDE DEF none, refused
    <3>4. /\ DOMAIN none \subseteq OrderIds
          /\ \A m \in DOMAIN none \union refused : log[m] = <<>>
      BY <3>1, <3>2
    <3>5. /\ Fills' = Fills \union DOMAIN none
          /\ \A m \in OrderIds \ (DOMAIN none \union refused) : log'[m] = log[m]
      BY <3>1, <3>2, <3>4, FirstRecords
    <3> QED BY <3>1, <3>3, <3>5
  <2> QED BY <1>5, <2>1, <2>2
<1>7. Fills \subseteq Submitted
  BY HeldIsSubmitted DEF Fills
<1>8. ASSUME NEW k \in Submitted', NEW m \in Submitted', m < k
      PROVE  orders'[m].ts <= orders'[k].ts
  <2>1. m \in Submitted
    <3>1. ~(n < k)
      <4>1. count' = n /\ n \in Nat
        <5>1. count \in Nat
          BY DEF Inv, TypeOK
        <5> QED BY <5>1, SubmitStores DEF n
      <4>2. k \in Nat /\ k <= n
        BY <1>8, <4>1 DEF Submitted
      <4> QED BY <4>1, <4>2
    <3> QED BY <1>2, <1>8, <3>1
  <2>2. CASE k = n
    BY <1>1, <2>1, <2>2 DEF TimeInv
  <2>3. CASE k # n
    BY <1>1, <1>2, <1>8, <2>1, <2>3 DEF FlowInv
  <2> QED BY <2>2, <2>3
<1>9. ASSUME NEW k \in Fills', NEW m \in Submitted',
             m < k, orders'[m].instrument = orders'[k].instrument
      PROVE  Concluded(m)'
  <2>1. k \in Fills /\ k \in Submitted
    BY <1>6, <1>7
  <2>2. m \in Submitted
    <3>1. ~(n < k)
      <4>1. k \in Nat /\ n \in Nat /\ k < n
        BY <1>2, <2>1, EngineAssumption DEF Submitted, OrderIds, Inv, TypeOK
      <4> QED BY <4>1
    <3> QED BY <1>2, <1>9, <3>1
  <2>3. Concluded(m)
    BY <1>1, <1>9, <2>1, <2>2 DEF FlowInv
  <2> QED BY <1>6, <2>2, <2>3 DEF Concluded
<1>10. \A k \in Fills' : log'[k][1].qty = orders'[k].qty
  BY <1>1, <1>6, <1>7 DEF FlowInv
<1>11. \A i \in Instruments : IsEmptyBook(book'[i])
  BY <1>3 DEF FlowInv
<1> QED BY <1>8, <1>9, <1>10, <1>11 DEF FlowInv

(* A settlement executes all that wait for it. *)
LEMMA FlowSettle ==
    ASSUME Inv, TimeInv, FlagInv, FlowInv, NEW i \in Instruments, SettleEngine(i)
    PROVE  FlowInv'
<1>1. UNCHANGED <<count, orders, book>>
  BY DEF SettleEngine, marketVars
<1>2. CASE UNCHANGED orderVars
  BY <1>1, <1>2, FlowKept DEF orderVars
<1>3. CASE Record(SettleFills(i), resting[i], now, "settle")
  <2> DEFINE fills == SettleFills(i)
  <2>1. DOMAIN fills = pending[i] /\ resting[i] = {}
    BY NothingRests DEF SettleFills
  <2>2. \A n \in pending[i] : fills[n].qty = orders[n].qty
    BY WholeQty DEF SettleFills
  <2>3. \A n \in pending[i] : n \in OrderIds /\ log[n] = <<>>
    BY HeldIsUnrecorded
  <2>4. \A n \in pending[i] : \A m \in Submitted :
           m < n /\ orders[m].instrument = orders[n].instrument
               => Concluded(m) \/ m \in pending[i]
    BY EarlierIsActive
  <2> HIDE DEF fills
  <2> QED BY <1>1, <1>3, <2>1, <2>2, <2>3, <2>4, FlowRecords DEF fills
<1> QED BY <1>2, <1>3 DEF SettleEngine

(* Every step keeps the invariant. *)
LEMMA FlowNext ==
    ASSUME NoBookData, Inv, LoopInv, TimeInv, FlagInv, FlowInv, [EmaNext]_emaRunVars
    PROVE  FlowInv'
<1>1. CASE EmaProcessEvent
  <2>1. /\ TakeEvent /\ stream[pos].instrument \in Instruments
        /\ HandleEvent(stream[pos].instrument, stream[pos].ts, stream[pos].payload)
    BY <1>1, EmaDecides
  <2>2. pos \in 1..Len(stream)
    BY <2>1, TakenEvent
  <2>3. stream[pos].payload \in Payloads /\ stream[pos].ts \in Nat
    BY <2>2, StreamIsSorted DEF LoopInv
  <2> QED BY <2>1, <2>3, FlowEvent
<1>2. CASE SubmitNext
  BY <1>2, FlagSubmits, FlowSubmit
<1>3. ASSUME NEW i \in Instruments, SettleNext(i)
      PROVE  FlowInv'
  BY <1>3, FlowSettle DEF SettleNext
<1>4. CASE New \/ Execute \/ SkipEvent \/ EndEvents \/ Finish \/ UNCHANGED emaRunVars
  <2>1. UNCHANGED <<count, orders, book, log>>
    BY <1>4 DEF New, Execute, SkipEvent, EndEvents, Finish, emaRunVars, simVars, vars,
       runVars, orderVars, marketVars
  <2> QED BY <2>1, FlowKept
<1> QED BY <1>1, <1>2, <1>3, <1>4 DEF EmaNext, OtherStep

(* The invariant, for data without a book. *)
LEMMA FlowInvariant == NoBookData => (EmaSpec => []FlowInv)
<1> SUFFICES ASSUME NoBookData PROVE EmaSpec => []FlowInv
  OBVIOUS
<1>1. EmaInit => FlowInv
  <2> SUFFICES ASSUME EmaInit PROVE FlowInv
    OBVIOUS
  <2>1. /\ book = [i \in Instruments |-> EmptyBook] /\ count = 0
        /\ log = [n \in OrderIds |-> <<>>]
    BY DEF EmaInit, RunInit, Init
  <2>2. Submitted = {} /\ Fills = {}
    BY <2>1 DEF Submitted, Fills
  <2>3. IsEmptyBook(EmptyBook)
    BY DEF IsEmptyBook, EmptyBook
  <2> QED BY <2>1, <2>2, <2>3 DEF FlowInv
<1>2. Inv /\ LoopInv /\ EngineInv /\ FlagInv /\ FlowInv /\ [EmaNext]_emaRunVars => FlowInv'
  BY FlowNext DEF EngineInv, LatencyInv
<1> QED BY <1>1, <1>2, FlagInvariant, EmaEngines, PTL DEF EmaSpec

-----------------------------------------------------------------------------
(* The account and the flag *)

(* A sum over orders may be taken instrument by instrument. *)
LEMMA SumByInstrument ==
    ASSUME NEW q, NEW f, NEW os, NEW S \in SUBSET OrderIds, IsFiniteSet(Instruments),
           \A n \in S : f[n] \in Int /\ os[n].instrument \in Instruments,
           \A i \in Instruments : q[i] = SumFunctionOnSet(f, OfInstrument(os, S, i))
    PROVE  SumFunctionOnSet(q, Instruments) = SumFunctionOnSet(f, S)
<1> DEFINE Of(V) == {n \in S : os[n].instrument \in V}
           Q == {V \in SUBSET Instruments : SumFunctionOnSet(q, V) = SumFunctionOnSet(f, Of(V))}
<1>1. \A V \in SUBSET Instruments :
         IsFiniteSet(V) /\ IsFiniteSet(Of(V)) /\ \A n \in Of(V) : f[n] \in Int
  <2> SUFFICES ASSUME NEW V \in SUBSET Instruments
               PROVE  IsFiniteSet(V) /\ IsFiniteSet(Of(V)) /\ \A n \in Of(V) : f[n] \in Int
    OBVIOUS
  <2>1. IsFiniteSet(V)
    BY FS_Subset
  <2> QED BY <2>1, OrderIdsFinite
<1>2. \A i \in Instruments : IsFiniteSet(OfInstrument(os, S, i)) /\ q[i] \in Int
  <2> SUFFICES ASSUME NEW i \in Instruments
               PROVE  IsFiniteSet(OfInstrument(os, S, i)) /\ q[i] \in Int
    OBVIOUS
  <2>1. OfInstrument(os, S, i) \in SUBSET OrderIds
        /\ \A n \in OfInstrument(os, S, i) : f[n] \in Int
    BY DEF OfInstrument
  <2>2. IsFiniteSet(OfInstrument(os, S, i))
    BY <2>1, OrderIdsFinite
  <2>3. SumFunctionOnSet(f, OfInstrument(os, S, i)) \in Int
    BY <2>1, <2>2, SumType
  <2> QED BY <2>2, <2>3
<1>3. {} \in Q
  <2>1. Of({}) = {}
    OBVIOUS
  <2> HIDE DEF Of
  <2>2. SumFunctionOnSet(q, {}) = 0 /\ SumFunctionOnSet(f, {}) = 0
    BY SumEmpty
  <2> QED BY <2>1, <2>2
<1>4. ASSUME NEW V \in SUBSET Instruments, NEW i \in Instruments \ V, V \in Q
      PROVE  V \union {i} \in Q
  <2> DEFINE R == OfInstrument(os, S, i)
             P == Of(V)
  <2>1. /\ Of(V \union {i}) = P \union R /\ P \intersect R = {}
        /\ \A n \in P \union R : f[n] \in Int
    BY DEF OfInstrument
  <2>2. IsFiniteSet(P) /\ IsFiniteSet(R) /\ IsFiniteSet(V)
    BY <1>1, <1>2
  <2>3. q[i] = SumFunctionOnSet(f, R) /\ \A j \in V \union {i} : q[j] \in Int
    BY <1>2
  <2>4. SumFunctionOnSet(q, V) = SumFunctionOnSet(f, P)
    BY <1>4
  <2> HIDE DEF Of, P, R
  <2>5. SumFunctionOnSet(q, V \union {i}) = SumFunctionOnSet(q, V) + q[i]
    BY <1>4, <2>2, <2>3, SumAdd
  <2>6. SumFunctionOnSet(f, P \union R) = SumFunctionOnSet(f, P) + SumFunctionOnSet(f, R)
    BY <2>1, <2>2, SumDisjoint
  <2>7. SumFunctionOnSet(q, V \union {i}) = SumFunctionOnSet(f, Of(V \union {i}))
    BY <2>1, <2>3, <2>4, <2>5, <2>6, Zenon
  <2> QED BY <1>4, <2>7
<1>5. Of(Instruments) = S
  OBVIOUS
<1> HIDE DEF Q, Of
<1>6. SUBSET Instruments \subseteq Q
  BY <1>3, <1>4, SubsetsByAddition
<1>7. Instruments \in Q
  BY <1>6
<1> QED BY <1>5, <1>7 DEF Q

(* What the account holds is what was executed of the orders. *)
LEMMA HoldingsAreFills ==
    ASSUME Inv, LoopInv, TimeInv, FairInv, MatchInv, FlagInv, FlowInv, phase = "events"
    PROVE  Holdings = Traded(orders, Fills)
<1> DEFINE f == [n \in OrderIds |-> Signed(orders[n])]
<1>1. Running
  BY DEF LoopInv, BatchInv
<1>2. Fills \subseteq Submitted /\ Fills \in SUBSET OrderIds /\ IsFiniteSet(Instruments)
  BY HeldIsSubmitted, InstrumentsListed DEF Fills, Started
<1>3. ASSUME NEW n \in Fills
      PROVE  /\ orders[n].instrument \in Instruments
             /\ Acquired[n] = Signed(orders[n]) /\ Acquired[n] \in Int
  <2>1. IsLot(orders[n])
    BY <1>2 DEF FlagInv
  <2>2. log[n][1].qty = orders[n].qty
    BY DEF FlowInv
  <2>3. Acquired[n] = Signed(orders[n])
    BY <2>2 DEF Acquired, Signed
  <2> QED BY <2>1, <2>3, LotValue DEF IsLot
<1>4. \A i \in Instruments :
         account.qty[i] = SumFunctionOnSet(Acquired, OfInstrument(orders, Fills, i))
  BY <1>1 DEF MatchInv, AccountMatchesRecords, OfInstrument
<1>5. SumFunctionOnSet(account.qty, Instruments) = SumFunctionOnSet(Acquired, Fills)
  <2> DEFINE A == Acquired
             q == account.qty
             U == orders
  <2>1. \A n \in Fills : A[n] \in Int /\ U[n].instrument \in Instruments
    BY <1>3
  <2>2. \A i \in Instruments : q[i] = SumFunctionOnSet(A, OfInstrument(U, Fills, i))
    BY <1>4
  <2>3. Fills \in SUBSET OrderIds /\ IsFiniteSet(Instruments)
    BY <1>2
  <2> HIDE DEF A, q, U
  <2>4. SumFunctionOnSet(q, Instruments) = SumFunctionOnSet(A, Fills)
    BY <2>1, <2>2, <2>3, SumByInstrument, SMTT(40)
  <2> QED BY <2>4 DEF A, q
<1>6. SumFunctionOnSet(Acquired, Fills) = SumFunctionOnSet(f, Fills)
  <2>1. IsFiniteSet(Fills) /\ \A n \in Fills : Acquired[n] \in Int /\ Acquired[n] = f[n]
    BY <1>2, <1>3, OrderIdsFinite
  <2> HIDE DEF f
  <2> QED BY <2>1, SumEqual
<1> QED BY <1>5, <1>6 DEF Holdings, Traded

(* The sums of the property, in terms of what was traded. *)
LEMMA SumOrdersIs ==
    ASSUME FlagInv, NEW S \in SUBSET Submitted, Submitted \subseteq OrderIds
    PROVE  SumOrders(S) = Traded(orders, S)
<1> DEFINE f == [n \in OrderIds |-> Signed(orders[n])]
           g == [n \in S |-> Signed(orders[n])]
<1>1. IsFiniteSet(S) /\ \A n \in S : g[n] \in Int /\ g[n] = f[n]
  BY LotValue, OrderIdsFinite DEF FlagInv
<1> HIDE DEF f, g
<1>2. SumFunctionOnSet(g, S) = SumFunctionOnSet(f, S)
  BY <1>1, SumEqual
<1> QED BY <1>2 DEF SumOrders, Traded, f, g

(* The flag claims what was traded and what is still to be submitted. *)
LEMMA ReturnedIs ==
    ASSUME FlagInv
    PROVE  /\ Returned \in Int
           /\ Traded(orders, Submitted) + Returned = Claimed(isLong)
<1>1. CASE queue = <<>> /\ Traded(orders, Submitted) = Claimed(isLong)
  <2> DEFINE f == [k \in DOMAIN queue |-> Signed(queue[k])]
  <2>1. DOMAIN f = {}
    BY <1>1
  <2>2. SumFunction(f) = 0
    BY <2>1, SumEmpty DEF SumFunction
  <2>3. Returned = 0
    BY <2>2 DEF Returned
  <2>4. Claimed(isLong) \in Int
    BY EmaAssumption DEF Claimed, Quantity
  <2> QED BY <1>1, <2>3, <2>4
<1>2. ASSUME NEW o, queue = <<o>>, IsLot(o),
             Traded(orders, Submitted) + Signed(o) = Claimed(isLong)
      PROVE  /\ Returned \in Int
             /\ Traded(orders, Submitted) + Returned = Claimed(isLong)
  <2> DEFINE f == [k \in DOMAIN queue |-> Signed(queue[k])]
  <2>1. DOMAIN queue = {1} /\ queue[1] = o
    BY <1>2
  <2>2. DOMAIN f = {} \union {1} /\ f[1] = Signed(o) /\ Signed(o) \in Int
    BY <1>2, <2>1, LotValue
  <2>3. \A k \in {} \union {1} : f[k] \in Int
    BY <2>2
  <2> HIDE DEF f
  <2>4. SumFunctionOnSet(f, {} \union {1}) = SumFunctionOnSet(f, {}) + f[1]
    BY <2>3, FS_EmptySet, SumAdd
  <2>5. SumFunctionOnSet(f, {}) = 0
    BY SumEmpty
  <2>6. SumFunction(f) = Signed(o)
    BY <2>2, <2>4, <2>5 DEF SumFunction
  <2>7. Returned = Signed(o)
    BY <2>6 DEF Returned, f
  <2> QED BY <1>2, <2>2, <2>7
<1> QED BY <1>1, <1>2 DEF FlagInv

(* Every order was executed, still waits, or was refused. *)
LEMMA WhereOrdersAre ==
    ASSUME Inv
    PROVE  /\ Submitted \subseteq OrderIds /\ Fills \subseteq Submitted
           /\ Submitted = Fills \union {n \in Submitted : Working(n)} \union Refused
           /\ Fills \intersect {n \in Submitted : Working(n)} = {}
           /\ (Fills \union {n \in Submitted : Working(n)}) \intersect Refused = {}
<1>1. Submitted \subseteq OrderIds /\ Fills \subseteq Submitted
  <2>1. Submitted \subseteq OrderIds
    BY EngineAssumption DEF Submitted, OrderIds, Inv, TypeOK
  <2> QED BY <2>1, HeldIsSubmitted DEF Fills
<1>2. ASSUME NEW n \in Submitted, Concluded(n)
      PROVE  log[n][1].kind = "fill" \/ log[n][1].kind = "reject"
  <2>1. n \in OrderIds /\ log[n] = <<log[n][1]>>
    BY <1>1, <1>2 DEF Inv, OrderConservation, Concluded
  <2>2. 1 \in DOMAIN log[n]
    BY <2>1
  <2>3. RecordOK(log[n][1])
    BY <2>1, <2>2 DEF Inv, TypeOK
  <2> QED BY <2>3 DEF RecordOK
<1>3. \A n \in Submitted : Working(n) \/ Concluded(n)
  BY <1>1 DEF Inv, OrderConservation
<1>4. \A n \in Submitted : ~(Working(n) /\ Concluded(n))
  BY <1>1 DEF Inv, OrderConservation
<1>5. \A n \in Submitted : n \in Fills <=> (Concluded(n) /\ log[n][1].kind = "fill")
  BY <1>1 DEF Fills, Concluded
<1> QED BY <1>1, <1>2, <1>3, <1>4, <1>5 DEF Refused

(* If one instrument is traded and nothing refused, the first orders are executed first. *)
LEMMA FirstAreExecuted ==
    ASSUME Inv, FlowInv, Refused = {}, OneTraded
    PROVE  \E m \in 0..count : Fills = 1..m
<1>1. /\ Fills \subseteq Submitted /\ Submitted \subseteq OrderIds
      /\ Fills \in SUBSET OrderIds /\ count \in Nat
  <2>1. count \in Nat
    BY DEF Inv, TypeOK
  <2> QED BY <2>1, WhereOrdersAre
<1>2. CASE Fills = {}
  <2>1. 0 \in 0..count /\ 1..0 = {}
    BY <1>1
  <2> QED BY <1>2, <2>1
<1>3. CASE Fills # {}
  <2> DEFINE M == Max(Fills)
  <2>1. Fills \in SUBSET Nat /\ IsFiniteSet(Fills)
    BY <1>1, OrderIdsFinite DEF Submitted
  <2>2. M \in Fills /\ \A n \in Fills : n <= M
    BY <1>3, <2>1, MaxIsGreatest
  <2> HIDE DEF M
  <2>3. M \in 1..count
    BY <1>1, <2>2 DEF Submitted
  <2>4. ASSUME NEW m \in 1..M
        PROVE  m \in Fills
    <3>1. CASE m = M
      BY <2>2, <3>1
    <3>2. CASE m # M
      <4>1. m < M /\ m \in Submitted
        BY <1>1, <2>3, <3>2 DEF Submitted
      <4>2. orders[m].instrument = orders[M].instrument
        BY <1>1, <2>2, <4>1 DEF OneTraded
      <4>3. Concluded(m)
        BY <2>2, <4>1, <4>2 DEF FlowInv
      <4>4. ~Working(m)
        <5>1. m \in OrderIds
          BY <1>1, <4>1
        <5> QED BY <4>3, <5>1 DEF Inv, OrderConservation
      <4> QED BY <4>1, <4>4, WhereOrdersAre
    <3> QED BY <3>1, <3>2
  <2>5. \A n \in Fills : n \in 1..M
    BY <1>1, <2>1, <2>2, <2>3 DEF Submitted
  <2>6. Fills = 1..M
    BY <2>4, <2>5, Zenon
  <2>7. M \in 0..count
    BY <1>1, <2>3
  <2> QED BY <2>6, <2>7
<1> QED BY <1>2, <1>3

(* The property, in any state of the run in which the invariants hold. *)
LEMMA FlagIsFollowed ==
    ASSUME Inv, LoopInv, TimeInv, FairInv, MatchInv, FlagInv, FlowInv
    PROVE  AccountFollowsFlag
<1> SUFFICES ASSUME phase = "events"
             PROVE  /\ Holdings + Returned + SumOrders({n \in Submitted : Working(n)})
                          + SumOrders(Refused) = (IF isLong THEN Units ELSE 0)
                    /\ Refused = {} /\ OneTraded => Holdings \in {0, Units}
  BY DEF AccountFollowsFlag
<1> DEFINE W == {n \in Submitted : Working(n)}
           R == Refused
           f == [n \in OrderIds |-> Signed(orders[n])]
<1>1. /\ Submitted \subseteq OrderIds /\ Fills \subseteq Submitted
      /\ Submitted = (Fills \union W) \union R
      /\ Fills \intersect W = {} /\ (Fills \union W) \intersect R = {}
  BY WhereOrdersAre
<1>2. Holdings = Traded(orders, Fills)
  BY HoldingsAreFills
<1>3. SumOrders(W) = Traded(orders, W) /\ SumOrders(R) = Traded(orders, R)
  BY <1>1, SumOrdersIs
<1>4. Returned \in Int /\ Traded(orders, Submitted) + Returned = Claimed(isLong)
  BY ReturnedIs
<1>5. \A S \in SUBSET Submitted :
         IsFiniteSet(S) /\ (\A n \in S : f[n] \in Int) /\ SumFunctionOnSet(f, S) \in Int
  <2> SUFFICES ASSUME NEW S \in SUBSET Submitted
               PROVE  IsFiniteSet(S) /\ (\A n \in S : f[n] \in Int)
                      /\ SumFunctionOnSet(f, S) \in Int
    OBVIOUS
  <2>1. IsFiniteSet(S) /\ \A n \in S : f[n] \in Int
    BY <1>1, OrderIdsFinite, LotValue DEF FlagInv
  <2> HIDE DEF f
  <2> QED BY <2>1, SumType
<1> HIDE DEF W, R, f
<1>6. SumFunctionOnSet(f, Fills \union W) = SumFunctionOnSet(f, Fills) + SumFunctionOnSet(f, W)
  <2>1. Fills \in SUBSET Submitted /\ W \in SUBSET Submitted
        /\ Fills \union W \in SUBSET Submitted
    BY <1>1
  <2> QED BY <1>1, <1>5, <2>1, SumDisjoint
<1>7. SumFunctionOnSet(f, Submitted) = SumFunctionOnSet(f, Fills \union W)
                                         + SumFunctionOnSet(f, R)
  <2>1. Fills \union W \in SUBSET Submitted /\ R \in SUBSET Submitted
        /\ (Fills \union W) \union R \in SUBSET Submitted
    BY <1>1
  <2>2. SumFunctionOnSet(f, (Fills \union W) \union R)
          = SumFunctionOnSet(f, Fills \union W) + SumFunctionOnSet(f, R)
    BY <1>1, <1>5, <2>1, SumDisjoint
  <2> QED BY <1>1, <2>2
<1>8. \A S \in SUBSET Submitted : Traded(orders, S) = SumFunctionOnSet(f, S)
  BY DEF Traded, f
<1> DEFINE x == Traded(orders, Fills)
           y == Traded(orders, W)
           z == Traded(orders, R)
           t == Traded(orders, Submitted)
<1>9. x \in Int /\ y \in Int /\ z \in Int /\ t = (x + y) + z
  <2>1. /\ Fills \in SUBSET Submitted /\ W \in SUBSET Submitted /\ R \in SUBSET Submitted
        /\ Submitted \in SUBSET Submitted
    BY <1>1
  <2>2. /\ x = SumFunctionOnSet(f, Fills) /\ y = SumFunctionOnSet(f, W)
        /\ z = SumFunctionOnSet(f, R) /\ t = SumFunctionOnSet(f, Submitted)
    BY <1>8, <2>1
  <2>3. t = (SumFunctionOnSet(f, Fills) + SumFunctionOnSet(f, W)) + SumFunctionOnSet(f, R)
    BY <1>6, <1>7, <2>2, Zenon
  <2>4. x \in Int /\ y \in Int /\ z \in Int
    BY <1>5, <2>1, <2>2
  <2> QED BY <2>2, <2>3, <2>4, Zenon
<1>10. Holdings = x /\ SumOrders(W) = y /\ SumOrders(R) = z
  BY <1>2, <1>3
<1>11. ASSUME Refused = {}, OneTraded
       PROVE  Holdings \in {0, Units}
  <2>1. PICK m \in 0..count : Fills = 1..m
    BY <1>11, FirstAreExecuted
  <2> QED BY <1>2, <2>1 DEF FlagInv
<1> HIDE DEF x, y, z, t
<1>12. t + Returned = Claimed(isLong)
  BY <1>4 DEF t
<1>13. x + Returned + y + z = Claimed(isLong)
  BY <1>4, <1>9, <1>12
<1> QED BY <1>10, <1>11, <1>13 DEF Claimed, W, R

(***************************************************************************)
(* For data without a book, whatever their dates, the latency and the      *)
(* number of instruments: until settlement the flag is ahead of the        *)
(* account by exactly what is on its way and what was refused, and with    *)
(* nothing refused and one instrument traded the account holds nothing or  *)
(* one lot.  A book may execute an order in part and drop the rest, of     *)
(* which the flag knows nothing.                                           *)
(***************************************************************************)
THEOREM TheAccountFollows == NoBookData => (EmaSpec => []AccountFollowsFlag)
<1> SUFFICES ASSUME NoBookData PROVE EmaSpec => []AccountFollowsFlag
  OBVIOUS
<1>1. Inv /\ LoopInv /\ EngineInv /\ FlagInv /\ FlowInv => AccountFollowsFlag
  BY FlagIsFollowed DEF EngineInv, LatencyInv
<1> QED BY <1>1, FlagInvariant, FlowInvariant, EmaEngines, PTL

-----------------------------------------------------------------------------
(* Powers *)

Multiplies(b, S, g) == g = [k \in S |-> IF k = 0 THEN 1 ELSE b * g[k - 1]]

(* The recursion of Power has a solution as far as any number, *)
LEMMA PowersUpto ==
    ASSUME NEW b
    PROVE  \A n \in Nat : \E g : Multiplies(b, 0..n, g)
<1> DEFINE T == {n \in Nat : \E g : Multiplies(b, 0..n, g)}
<1>1. 0 \in T
  <2> DEFINE g == [k \in 0..0 |-> 1]
  <2>1. \A k \in 0..0 : k = 0
    OBVIOUS
  <2>2. g = [k \in 0..0 |-> IF k = 0 THEN 1 ELSE b * g[k - 1]]
    BY <2>1
  <2> QED BY <2>2 DEF Multiplies
<1>2. ASSUME NEW n \in Nat, n \in T
      PROVE  n + 1 \in T
  <2>1. PICK g : Multiplies(b, 0..n, g)
    BY <1>2
  <2> DEFINE h == [k \in 0..(n + 1) |-> IF k = 0 THEN 1 ELSE b * g[k - 1]]
  <2>2. \A k \in 0..n : h[k] = g[k]
    BY <2>1 DEF Multiplies
  <2>3. \A k \in 0..(n + 1) : k # 0 => h[k - 1] = g[k - 1]
    <3> SUFFICES ASSUME NEW k \in 0..(n + 1), k # 0
                 PROVE  h[k - 1] = g[k - 1]
      OBVIOUS
    <3>1. k - 1 \in 0..n
      OBVIOUS
    <3> QED BY <2>2, <3>1
  <2>4. h = [k \in 0..(n + 1) |-> IF k = 0 THEN 1 ELSE b * h[k - 1]]
    BY <2>3
  <2> HIDE DEF h
  <2>5. Multiplies(b, 0..(n + 1), h)
    BY <2>4 DEF Multiplies
  <2> QED BY <2>5
<1> HIDE DEF T
<1>3. Nat \subseteq T
  BY <1>1, <1>2, NaturalsBySuccessor
<1> QED BY <1>3 DEF T

(* all of which agree, *)
LEMMA PowersAgree ==
    ASSUME NEW b, NEW n \in Nat, NEW g, Multiplies(b, 0..n, g),
           NEW m \in Nat, NEW h, Multiplies(b, 0..m, h)
    PROVE  \A k \in Nat : k <= n /\ k <= m => g[k] = h[k]
<1> DEFINE T == {k \in Nat : k <= n /\ k <= m => g[k] = h[k]}
<1>1. 0 \in T
  BY DEF Multiplies
<1>2. ASSUME NEW k \in Nat, k \in T
      PROVE  k + 1 \in T
  <2> SUFFICES ASSUME k + 1 <= n, k + 1 <= m
               PROVE  g[k + 1] = h[k + 1]
    OBVIOUS
  <2>1. k + 1 \in 0..n /\ k + 1 \in 0..m /\ k + 1 # 0 /\ (k + 1) - 1 = k
    OBVIOUS
  <2>2. g[k + 1] = b * g[k] /\ h[k + 1] = b * h[k]
    BY <2>1 DEF Multiplies
  <2>3. g[k] = h[k]
    BY <1>2
  <2> QED BY <2>2, <2>3
<1> HIDE DEF T
<1>3. Nat \subseteq T
  BY <1>1, <1>2, NaturalsBySuccessor
<1> QED BY <1>3 DEF T

(* so it has one for all. *)
LEMMA PowersExist ==
    ASSUME NEW b
    PROVE  \E g : Multiplies(b, Nat, g)
<1> DEFINE upto(n) == CHOOSE g : Multiplies(b, 0..n, g)
           p == [n \in Nat |-> upto(n)[n]]
<1>1. \A n \in Nat : Multiplies(b, 0..n, upto(n))
  BY PowersUpto
<1> HIDE DEF upto
<1>2. ASSUME NEW n \in Nat
      PROVE  p[n] = IF n = 0 THEN 1 ELSE b * p[n - 1]
  <2>1. upto(n)[n] = IF n = 0 THEN 1 ELSE b * upto(n)[n - 1]
    BY <1>1 DEF Multiplies
  <2>2. ASSUME n # 0
        PROVE  upto(n)[n - 1] = upto(n - 1)[n - 1]
    <3> DEFINE m == n - 1
               g == upto(n)
               h == upto(m)
    <3>1. m \in Nat /\ m <= n /\ m <= m
      BY <2>2
    <3>2. Multiplies(b, 0..n, g) /\ Multiplies(b, 0..m, h)
      BY <1>1, <3>1
    <3> HIDE DEF m, g, h
    <3>3. g[m] = h[m]
      BY <3>1, <3>2, PowersAgree
    <3> QED BY <3>3 DEF m, g, h
  <2>3. n # 0 => n - 1 \in Nat
    OBVIOUS
  <2> QED BY <2>1, <2>2, <2>3
<1>3. p = [n \in Nat |-> IF n = 0 THEN 1 ELSE b * p[n - 1]]
  BY <1>2
<1> HIDE DEF p
<1> QED BY <1>3 DEF Multiplies

(* A power is what it is meant to be. *)
LEMMA PowerIs ==
    ASSUME NEW b
    PROVE  /\ Power(b, 0) = 1
           /\ \A n \in Nat : Power(b, n + 1) = b * Power(b, n)
<1> DEFINE p == CHOOSE g : Multiplies(b, Nat, g)
<1>1. \A n : Power(b, n) = p[n]
  BY DEF Power, Multiplies
<1>2. Multiplies(b, Nat, p)
  BY PowersExist
<1> HIDE DEF p
<1>3. p[0] = 1
  BY <1>2 DEF Multiplies
<1>4. ASSUME NEW n \in Nat
      PROVE  p[n + 1] = b * p[n]
  <2>1. n + 1 \in Nat /\ n + 1 # 0 /\ (n + 1) - 1 = n
    OBVIOUS
  <2> QED BY <1>2, <2>1 DEF Multiplies
<1> QED BY <1>1, <1>3, <1>4

(* Powers of naturals are naturals, and none of a positive one is zero. *)
LEMMA PowerType ==
    ASSUME NEW b \in Nat
    PROVE  \A n \in Nat : Power(b, n) \in Nat /\ (b # 0 => Power(b, n) # 0)
<1> DEFINE T == {n \in Nat : Power(b, n) \in Nat /\ (b # 0 => Power(b, n) # 0)}
<1>1. 0 \in T
  BY PowerIs
<1>2. ASSUME NEW n \in Nat, n \in T
      PROVE  n + 1 \in T
  <2>1. Power(b, n + 1) = b * Power(b, n)
    BY PowerIs
  <2>2. ASSUME NEW x \in Nat, b # 0 => x # 0
        PROVE  b * x \in Nat /\ (b # 0 => b * x # 0)
    BY <2>2
  <2> QED BY <1>2, <2>1, <2>2
<1> HIDE DEF T
<1>3. Nat \subseteq T
  BY <1>1, <1>2, NaturalsBySuccessor
<1> QED BY <1>3 DEF T

-----------------------------------------------------------------------------
(* The weight of a bar *)

Earlier(bars, k) == Cardinality({j \in bars : j < k})
Later(bars, k)   == Cardinality({j \in bars : j > k})

(* A weight depends on how many bars came before and after. *)
LEMMA WeightIs ==
    ASSUME NEW bars, NEW k, NEW p
    PROVE  Weight(bars, k, p) =
             Power(p - 1, Later(bars, k))
               * (IF Earlier(bars, k) = 0 THEN 1 ELSE 2 * Power(p + 1, Earlier(bars, k) - 1))
BY DEF Weight, Earlier, Later

(* A weight is a natural. *)
LEMMA WeightType ==
    ASSUME NEW bars, IsFiniteSet(bars), NEW k, NEW p \in Nat \ {0}
    PROVE  /\ Weight(bars, k, p) \in Nat
           /\ Earlier(bars, k) \in Nat /\ Later(bars, k) \in Nat
<1> DEFINE e == Earlier(bars, k)
           l == Later(bars, k)
<1>1. e \in Nat /\ l \in Nat
  <2>1. IsFiniteSet({j \in bars : j < k}) /\ IsFiniteSet({j \in bars : j > k})
    BY FS_Subset
  <2> QED BY <2>1, FS_CardinalityType DEF Earlier, Later
<1> HIDE DEF e, l
<1>2. p - 1 \in Nat /\ p + 1 \in Nat
  OBVIOUS
<1>3. Power(p - 1, l) \in Nat
  BY <1>1, <1>2, PowerType
<1>4. e # 0 => Power(p + 1, e - 1) \in Nat
  <2>1. e # 0 => e - 1 \in Nat
    BY <1>1
  <2> QED BY <1>2, <2>1, PowerType
<1> DEFINE x == Power(p - 1, l)
           y == Power(p + 1, e - 1)
<1>5. Weight(bars, k, p) = x * (IF e = 0 THEN 1 ELSE 2 * y)
  BY WeightIs DEF e, l
<1> HIDE DEF x, y
<1>6. x \in Nat /\ (e # 0 => y \in Nat)
  BY <1>3, <1>4 DEF x, y
<1>7. Weight(bars, k, p) \in Nat
  BY <1>5, <1>6
<1> QED BY <1>1, <1>7 DEF e, l

(* A bar that comes last leaves the others their order and reduces each. *)
LEMMA WeightReduced ==
    ASSUME NEW bars, IsFiniteSet(bars), bars \subseteq Nat, NEW k \in Nat,
           \A j \in bars : j < k, NEW p \in Nat \ {0}, NEW j \in bars
    PROVE  Weight(bars \union {k}, j, p) = (p - 1) * Weight(bars, j, p)
<1> DEFINE new == bars \union {k}
           e == Earlier(bars, j)
           l == Later(bars, j)
<1>1. Earlier(new, j) = e
  <2>1. {i \in new : i < j} = {i \in bars : i < j}
    OBVIOUS
  <2> QED BY <2>1 DEF Earlier
<1>2. Later(new, j) = l + 1
  <2> DEFINE S == {i \in bars : i > j}
  <2>1. {i \in new : i > j} = S \union {k} /\ k \notin S
    OBVIOUS
  <2>2. IsFiniteSet(S)
    BY FS_Subset
  <2> HIDE DEF S
  <2>3. Cardinality(S \union {k}) = Cardinality(S) + 1
    BY <2>1, <2>2, FS_AddElement
  <2> QED BY <2>1, <2>3 DEF Later, S
<1>3. e \in Nat /\ l \in Nat
  BY WeightType
<1> HIDE DEF new, e, l
<1> DEFINE x == Power(p - 1, l)
           y == IF e = 0 THEN 1 ELSE 2 * Power(p + 1, e - 1)
<1>4. x \in Nat /\ Power(p - 1, l + 1) = (p - 1) * x
  <2>1. p - 1 \in Nat
    OBVIOUS
  <2> QED BY <1>3, <2>1, PowerIs, PowerType
<1>5. y \in Nat
  <2>1. ASSUME e # 0
        PROVE  Power(p + 1, e - 1) \in Nat
    <3>1. e - 1 \in Nat /\ p + 1 \in Nat
      BY <1>3, <2>1
    <3> QED BY <3>1, PowerType
  <2> DEFINE z == Power(p + 1, e - 1)
  <2>2. y = IF e = 0 THEN 1 ELSE 2 * z
    OBVIOUS
  <2>3. e # 0 => z \in Nat
    BY <2>1
  <2> HIDE DEF z, y
  <2> QED BY <2>2, <2>3
<1>6. Weight(bars, j, p) = x * y
  BY WeightIs DEF e, l
<1>7. Weight(new, j, p) = Power(p - 1, l + 1) * y
  BY <1>1, <1>2, WeightIs
<1> HIDE DEF x, y
<1>8. ((p - 1) * x) * y = (p - 1) * (x * y)
  BY <1>4, <1>5
<1> QED BY <1>4, <1>6, <1>7, <1>8 DEF new

(* The last bar itself weighs two parts of what all are divided by. *)
LEMMA WeightOfLast ==
    ASSUME NEW bars, IsFiniteSet(bars), bars \subseteq Nat, bars # {}, NEW k \in Nat,
           \A j \in bars : j < k, NEW p \in Nat \ {0}
    PROVE  /\ Cardinality(bars) - 1 \in Nat
           /\ Weight(bars \union {k}, k, p) = 2 * Power(p + 1, Cardinality(bars) - 1)
<1> DEFINE new == bars \union {k}
           n == Cardinality(bars)
<1>1. {i \in new : i < k} = bars /\ {i \in new : i > k} = {}
  <2>1. ~(k < k) /\ ~(k > k)
    OBVIOUS
  <2>2. \A i \in bars : i < k /\ ~(i > k)
    OBVIOUS
  <2> QED BY <2>1, <2>2, Zenon
<1>2. n \in Nat /\ n # 0
  BY FS_CardinalityType, FS_EmptySet
<1>3. Earlier(new, k) = n /\ Later(new, k) = 0
  BY <1>1, FS_EmptySet DEF Earlier, Later
<1> HIDE DEF new, n
<1>4. n - 1 \in Nat /\ p + 1 \in Nat /\ p - 1 \in Nat
  BY <1>2
<1>5. Power(p - 1, 0) = 1
  BY PowerIs
<1> DEFINE z == Power(p + 1, n - 1)
<1>6. Weight(new, k, p) = 1 * (2 * z)
  BY <1>2, <1>3, <1>5, WeightIs
<1>7. z \in Nat
  BY <1>4, PowerType
<1> HIDE DEF z
<1>8. Weight(new, k, p) = 2 * z
  BY <1>6, <1>7
<1> QED BY <1>4, <1>8 DEF z, n, new

-----------------------------------------------------------------------------
(* The weighted sum *)

Close(k) == stream[k].payload.close

(* It is a sum of integers. *)
LEMMA WeightedSumType ==
    ASSUME NEW bars, IsFiniteSet(bars), NEW p \in Nat \ {0}, \A j \in bars : Close(j) \in Int
    PROVE  WeightedSum(bars, p) \in Int
<1> DEFINE f == [j \in bars |-> Weight(bars, j, p) * stream[j].payload.close]
<1>1. ASSUME NEW j \in bars
      PROVE  f[j] \in Int
  <2> DEFINE w == Weight(bars, j, p)
             c == Close(j)
  <2>1. w \in Nat /\ c \in Int
    BY WeightType
  <2>2. f[j] = w * c
    BY DEF Close
  <2> HIDE DEF w, c, f
  <2> QED BY <2>1, <2>2
<1> HIDE DEF f
<1>2. SumFunctionOnSet(f, bars) \in Int
  BY <1>1, SumType
<1> QED BY <1>2 DEF WeightedSum, f

(* The first bar is the average. *)
LEMMA WeightedSumFirst ==
    ASSUME NEW k \in Nat, NEW p \in Nat \ {0}, Close(k) \in Int
    PROVE  WeightedSum({k}, p) = Close(k)
<1> DEFINE f == [j \in {k} |-> Weight({k}, j, p) * stream[j].payload.close]
<1>1. {i \in {k} : i < k} = {} /\ {i \in {k} : i > k} = {}
  OBVIOUS
<1>2. Earlier({k}, k) = 0 /\ Later({k}, k) = 0
  BY <1>1, FS_EmptySet DEF Earlier, Later
<1>3. Weight({k}, k, p) = 1 * 1
  BY <1>2, PowerIs, WeightIs
<1>4. f[k] = (1 * 1) * Close(k)
  BY <1>3 DEF Close
<1> DEFINE c == Close(k)
<1>5. f[k] = c
  <2>1. c \in Int
    OBVIOUS
  <2> HIDE DEF c, f
  <2>2. (1 * 1) * c = c
    BY <2>1
  <2> QED BY <1>4, <2>2 DEF c
<1> HIDE DEF f
<1>6. SumFunctionOnSet(f, {} \union {k}) = SumFunctionOnSet(f, {}) + f[k]
  <2>1. \A x \in {} \union {k} : f[x] \in Int
    BY <1>5
  <2> QED BY <2>1, FS_EmptySet, SumAdd
<1>7. SumFunctionOnSet(f, {}) = 0
  BY SumEmpty
<1>8. {} \union {k} = {k}
  OBVIOUS
<1>9. SumFunctionOnSet(f, {k}) = 0 + c
  BY <1>5, <1>6, <1>7, <1>8
<1>10. 0 + c = c
  OBVIOUS
<1> QED BY <1>9, <1>10 DEF WeightedSum, f

(* What reduces each part reduces the sum. *)
Reduced(f, g, S, c) == \A x \in S : f[x] \in Int /\ g[x] = c * f[x]

LEMMA SumReduced ==
    ASSUME NEW f, NEW g, NEW S, IsFiniteSet(S), NEW c \in Int, Reduced(f, g, S, c)
    PROVE  SumFunctionOnSet(g, S) = c * SumFunctionOnSet(f, S)
BY SumScaled DEF Reduced

(* A further bar reduces the sum and adds its own part. *)
LEMMA WeightedSumNext ==
    ASSUME NEW bars, IsFiniteSet(bars), bars \subseteq Nat, bars # {}, NEW k \in Nat,
           \A j \in bars : j < k, NEW p \in Nat \ {0},
           \A j \in bars \union {k} : Close(j) \in Int
    PROVE  WeightedSum(bars \union {k}, p) =
              (p - 1) * WeightedSum(bars, p)
                + (2 * Power(p + 1, Cardinality(bars) - 1)) * Close(k)
<1> DEFINE new == bars \union {k}
           f == [j \in bars |-> Weight(bars, j, p) * stream[j].payload.close]
           g == [j \in new |-> Weight(new, j, p) * stream[j].payload.close]
<1>1. ASSUME NEW j \in bars
      PROVE  f[j] \in Int /\ g[j] = (p - 1) * f[j]
  <2> DEFINE w == Weight(bars, j, p)
             c == Close(j)
  <2>1. w \in Nat /\ c \in Int
    BY WeightType
  <2>2. f[j] = w * c
    BY DEF Close
  <2>3. Weight(new, j, p) = (p - 1) * w
    BY WeightReduced
  <2>4. g[j] = ((p - 1) * w) * c
    BY <2>3 DEF Close
  <2> HIDE DEF w, c, f, g
  <2>5. w * c \in Int /\ ((p - 1) * w) * c = (p - 1) * (w * c)
    BY <2>1
  <2> QED BY <2>2, <2>4, <2>5
<1>2. g[k] = (2 * Power(p + 1, Cardinality(bars) - 1)) * Close(k)
  BY WeightOfLast DEF Close
<1>3. g[k] \in Int
  <2> DEFINE x == Power(p + 1, Cardinality(bars) - 1)
             c == Close(k)
  <2>1. x \in Nat /\ c \in Int
    <3>1. p + 1 \in Nat
      OBVIOUS
    <3> QED BY <3>1, WeightOfLast, PowerType
  <2>2. g[k] = (2 * x) * c
    BY <1>2
  <2> HIDE DEF x, c, g
  <2> QED BY <2>1, <2>2
<1> HIDE DEF f, g
<1>4. SumFunctionOnSet(g, bars) = (p - 1) * SumFunctionOnSet(f, bars)
  <2> DEFINE q == p - 1
  <2>1. q \in Int
    OBVIOUS
  <2>2. Reduced(f, g, bars, q)
    BY <1>1 DEF Reduced
  <2> HIDE DEF q
  <2>3. SumFunctionOnSet(g, bars) = q * SumFunctionOnSet(f, bars)
    BY <2>1, <2>2, SumReduced
  <2> QED BY <2>3 DEF q
<1>5. SumFunctionOnSet(g, bars \union {k}) = SumFunctionOnSet(g, bars) + g[k]
  <2>1. \A j \in bars : g[j] \in Int
    <3> SUFFICES ASSUME NEW j \in bars PROVE g[j] \in Int
      OBVIOUS
    <3>1. f[j] \in Int /\ g[j] = (p - 1) * f[j]
      BY <1>1
    <3> QED BY <3>1
  <2>2. \A j \in bars \union {k} : g[j] \in Int
    BY <1>3, <2>1
  <2>3. k \notin bars
    OBVIOUS
  <2> QED BY <2>2, <2>3, SumAdd
<1>6. WeightedSum(bars, p) = SumFunctionOnSet(f, bars)
  BY DEF WeightedSum, f
<1>7. WeightedSum(new, p) = SumFunctionOnSet(g, new)
  BY DEF WeightedSum, g
<1> QED BY <1>2, <1>4, <1>5, <1>6, <1>7, Zenon

-----------------------------------------------------------------------------
(* The averages *)

Fractions == Int \X (Nat \ {0})

(* A fraction in lowest terms is one, of the same value. *)
LEMMA FracIs ==
    ASSUME NEW n \in Int, NEW d \in Nat \ {0}
    PROVE  Frac(n, d) \in Fractions /\ Same(Frac(n, d), <<n, d>>)
<1> DEFINE c == Max({k \in 1..d : n % k = 0 /\ d % k = 0})
           a == n \div c
           b == d \div c
<1>1. /\ c \in Nat \ {0} /\ a \in Int /\ b \in Nat \ {0}
      /\ n = c * a /\ d = c * b
  BY CommonFactor
<1>2. Frac(n, d) = <<a, b>>
  BY DEF Frac
<1> HIDE DEF a, b, c
<1>3. a * (c * b) = (c * a) * b
  BY <1>1
<1>4. a * d = n * b
  BY <1>1, <1>3
<1> QED BY <1>1, <1>2, <1>4 DEF Fractions, Same

(* An equation between fractions, with a further factor cancelled. *)
LEMMA Cancelled ==
    ASSUME NEW a \in Int, NEW b \in Int, NEW c \in Int, NEW q \in Int, NEW s \in Int,
           NEW u \in Int, NEW v \in Nat \ {0}, NEW w \in Int, NEW x \in Int,
           a * (s * v) = (2 * c * v + q * u) * b,
           u * x = w * v
    PROVE  a * (s * x) = (q * w + (2 * x) * c) * b
<1> DEFINE left  == a * (s * x)
           right == (q * w + (2 * x) * c) * b
<1>1. left \in Int /\ right \in Int
  OBVIOUS
<1>2. v * left = (a * (s * v)) * x
  OBVIOUS
<1>3. (a * (s * v)) * x = ((2 * c * v + q * u) * b) * x
  OBVIOUS
<1>4. ((2 * c * v + q * u) * b) * x = ((2 * c * v) * x + q * (u * x)) * b
  OBVIOUS
<1>5. ((2 * c * v) * x + q * (u * x)) * b = ((2 * c * v) * x + q * (w * v)) * b
  OBVIOUS
<1>6. ((2 * c * v) * x + q * (w * v)) * b = v * right
  OBVIOUS
<1>7. v * left = v * right
  BY <1>2, <1>3, <1>4, <1>5, <1>6, Zenon
<1> HIDE DEF left, right
<1>8. left = right
  BY <1>1, <1>7
<1> QED BY <1>8 DEF left, right

(* What a bar makes of an average. *)
LEMMA AverageTakes ==
    ASSUME NEW f \in Fractions, NEW c \in Int, NEW p \in Nat \ {0},
           NEW w \in Int, NEW x \in Nat \ {0}, Same(f, <<w, x>>)
    PROVE  /\ UpdateEma(f, c, p) \in Fractions
           /\ Same(UpdateEma(f, c, p), <<(p - 1) * w + (2 * x) * c, (p + 1) * x>>)
<1> DEFINE u == f[1]
           v == f[2]
           n == 2 * c * v + (p - 1) * u
           d == (p + 1) * v
           r == Frac(n, d)
           a == r[1]
           b == r[2]
<1>1. u \in Int /\ v \in Nat \ {0} /\ f # None
  BY EmaAssumption DEF Fractions
<1>2. UpdateEma(f, c, p) = r
  BY <1>1 DEF UpdateEma
<1>3. n \in Int /\ d \in Nat \ {0}
  <2> HIDE DEF u, v
  <2>1. p - 1 \in Int /\ p + 1 \in Nat \ {0}
    OBVIOUS
  <2> QED BY <1>1, <2>1
<1> HIDE DEF n, d
<1>4. r \in Fractions /\ Same(r, <<n, d>>)
  BY <1>3, FracIs
<1> HIDE DEF r
<1>5. a \in Int /\ b \in Int /\ a * d = n * b
  BY <1>4 DEF Fractions, Same
<1>6. u * x = w * v
  BY DEF Same
<1> HIDE DEF a, b, u, v
<1> DEFINE q == p - 1
           s == p + 1
<1>7. q \in Int /\ s \in Int /\ x \in Int
  OBVIOUS
<1>8. a * (s * v) = (2 * c * v + q * u) * b
  BY <1>5 DEF n, d
<1> HIDE DEF q, s
<1>9. a * (s * x) = (q * w + (2 * x) * c) * b
  BY <1>1, <1>5, <1>6, <1>7, <1>8, Cancelled
<1> QED BY <1>2, <1>4, <1>9 DEF Same, a, b, q, s

(* The first bar is the average, *)
LEMMA AverageOfOne ==
    ASSUME NEW k \in Nat, NEW p \in Nat \ {0}, Close(k) \in Int
    PROVE  /\ UpdateEma(None, Close(k), p) \in Fractions
           /\ Same(UpdateEma(None, Close(k), p), Average({k}, p))
<1> DEFINE c == Close(k)
<1>1. UpdateEma(None, c, p) = <<c, 1>>
  BY DEF UpdateEma, WholePrice
<1>2. WeightedSum({k}, p) = c
  BY WeightedSumFirst
<1>3. Power(p + 1, Cardinality({k}) - 1) = 1
  <2>1. Cardinality({k}) - 1 = 0
    BY FS_Singleton
  <2> QED BY <2>1, PowerIs
<1>4. c \in Int
  OBVIOUS
<1> HIDE DEF c
<1>5. Average({k}, p) = <<c, 1>>
  BY <1>2, <1>3 DEF Average
<1>6. Same(<<c, 1>>, <<c, 1>>) /\ <<c, 1>> \in Fractions
  BY <1>4 DEF Same, Fractions
<1> QED BY <1>1, <1>5, <1>6 DEF c

(* and a later one keeps it what it unrolls to. *)
LEMMA AverageOfMore ==
    ASSUME NEW bars, IsFiniteSet(bars), bars \subseteq Nat, bars # {}, NEW k \in Nat,
           \A j \in bars : j < k, NEW p \in Nat \ {0},
           \A j \in bars \union {k} : Close(j) \in Int,
           NEW f \in Fractions, Same(f, Average(bars, p))
    PROVE  /\ UpdateEma(f, Close(k), p) \in Fractions
           /\ Same(UpdateEma(f, Close(k), p), Average(bars \union {k}, p))
<1> DEFINE c == Close(k)
           w == WeightedSum(bars, p)
           m == Cardinality(bars) - 1
           x == Power(p + 1, m)
           new == bars \union {k}
<1>1. c \in Int /\ w \in Int
  BY WeightedSumType
<1>2. m \in Nat
  BY WeightOfLast
<1>3. Cardinality(new) - 1 = m + 1
  <2>1. k \notin bars
    OBVIOUS
  <2>2. Cardinality(new) = Cardinality(bars) + 1
    BY <2>1, FS_AddElement
  <2>3. Cardinality(bars) \in Nat
    BY FS_CardinalityType
  <2> QED BY <2>2, <2>3
<1>4. p + 1 \in Nat /\ p + 1 # 0
  OBVIOUS
<1>5. WeightedSum(new, p) = (p - 1) * w + (2 * x) * c
  BY WeightedSumNext
<1> HIDE DEF m
<1>6. x \in Nat \ {0} /\ Power(p + 1, m + 1) = (p + 1) * x
  BY <1>2, <1>4, PowerIs, PowerType
<1>7. Average(bars, p) = <<w, x>>
  BY DEF Average, m
<1>8. Average(new, p) = <<(p - 1) * w + (2 * x) * c, (p + 1) * x>>
  BY <1>3, <1>5, <1>6 DEF Average
<1> HIDE DEF c, w, x, new
<1>9. /\ UpdateEma(f, c, p) \in Fractions
      /\ Same(UpdateEma(f, c, p), <<(p - 1) * w + (2 * x) * c, (p + 1) * x>>)
  BY <1>1, <1>6, <1>7, AverageTakes
<1> QED BY <1>8, <1>9 DEF c, new

-----------------------------------------------------------------------------
(* The bars of the run *)

(* The k-th event is a bar the strategy is to be called with. *)
IsRunBar(k) ==
    /\ stream[k].instrument \in Instruments
    /\ stream[k].payload.type = "Bar"
    /\ stream[k].ts >= TimeStart \/ ClockStart = TimeStart

(* The bars that count: those of the run, or of all data without a warmup. *)
BarsInRun ==
    {k \in 1..(pos - 1) :
        /\ stream[k].instrument \in Instruments
        /\ stream[k].payload.type = "Bar"
        /\ stream[k].ts >= TimeStart \/ ClockStart = TimeStart}

LEMMA BarsInRunAre == BarsInRun = {k \in 1..(pos - 1) : IsRunBar(k)}
BY DEF BarsInRun, IsRunBar

(* They are finitely many events that were read, and have closes. *)
LEMMA BarsInRunType ==
    ASSUME LoopInv
    PROVE  /\ IsFiniteSet(BarsInRun) /\ BarsInRun \subseteq Nat
           /\ \A k \in BarsInRun : k < pos /\ Close(k) \in Int
<1>1. /\ pos \in 1..(Len(stream) + 1) /\ pos \in Nat /\ Len(stream) \in Nat
      /\ \A k \in 1..Len(stream) : stream[k].payload \in Payloads
  BY StreamIsSorted DEF LoopInv, StreamInv
<1>2. IsFiniteSet(1..(pos - 1))
  <2>1. pos - 1 \in Int
    BY <1>1
  <2> QED BY <2>1, FS_Interval
<1>3. IsFiniteSet(BarsInRun)
  BY <1>2, FS_Subset, BarsInRunAre
<1>4. \A k \in 1..(pos - 1) : k \in 1..Len(stream) /\ k < pos /\ k \in Nat
  BY <1>1
<1>5. ASSUME NEW k \in BarsInRun
      PROVE  k \in Nat /\ k < pos /\ Close(k) \in Int
  <2>1. k \in 1..(pos - 1) /\ stream[k].payload.type = "Bar"
    BY DEF BarsInRun
  <2>2. stream[k].payload \in Payloads
    BY <1>1, <1>4, <2>1
  <2>3. stream[k].payload.close \in Price
    BY <2>1, <2>2, PayloadTypes
  <2> QED BY <1>4, <2>1, <2>3 DEF Close, Price
<1> QED BY <1>3, <1>5

(* The gate is open for the events of the run, and, with a clock that      *)
(* starts with the run, for all.                                           *)
LEMMA GateIs ==
    ASSUME Inv, LoopInv, TakeEvent
    PROVE  gateOpen' <=> (stream[pos].ts >= TimeStart \/ ClockStart = TimeStart)
<1> DEFINE ts == stream[pos].ts
<1>1. /\ now' \in Nat /\ now <= now' /\ ts <= now' /\ ts \in Nat
      /\ now' = now \/ now' = ts
      /\ pos \in pos..Len(stream)
  <2>1. pos \in 1..Len(stream) /\ Len(stream) \in Nat
    BY TakenEvent, StreamIsSorted DEF LoopInv
  <2>2. pos \in pos..Len(stream)
    BY <2>1
  <2>3. stream[pos].ts \in Nat
    BY <2>1, StreamIsSorted DEF LoopInv
  <2> QED BY <2>2, <2>3, TakenEvent
<1>2. now <= ClockStart \/ now <= ts
  BY <1>1 DEF LoopInv, ClockInv
<1>3. ClockStart <= now
  BY DEF LoopInv, ClockInv, TakeEvent
<1>4. ClockStart <= TimeStart
  <2>1. request \in Requests /\ Accept \in Verdicts(request)
    BY DEF LoopInv, RequestInv, TakeEvent
  <2> QED BY <2>1, AcceptedRequest
<1>5. now \in Nat /\ ClockStart \in Nat /\ TimeStart \in Nat
  BY EngineAssumption, RunAssumption DEF Inv, TypeOK, Timestamp
<1>6. gateOpen' = (now' >= TimeStart)
  BY DEF TakeEvent, UpdateGate
<1> HIDE DEF ts
<1>7. now' >= TimeStart <=> (ts >= TimeStart \/ ClockStart = TimeStart)
  BY <1>1, <1>2, <1>3, <1>4, <1>5
<1> QED BY <1>6, <1>7 DEF ts

(* Taking an event adds it to the bars of the run if it is one. *)
LEMMA BarsTaken ==
    ASSUME Inv, LoopInv, TakeEvent
    PROVE  BarsInRun' = IF IsRunBar(pos) THEN BarsInRun \union {pos} ELSE BarsInRun
<1>1. pos \in Nat /\ pos >= 1 /\ pos' = pos + 1 /\ stream' = stream
  <2>1. pos \in 1..Len(stream) /\ pos' = pos + 1
    BY TakenEvent
  <2> QED BY <2>1 DEF TakeEvent
<1>2. BarsInRun' = {k \in 1..(pos' - 1) : IsRunBar(k)}
  BY <1>1 DEF BarsInRun, IsRunBar
<1>3. 1..(pos' - 1) = 1..(pos - 1) \union {pos}
  BY <1>1
<1>4. pos \notin 1..(pos - 1)
  BY <1>1
<1> QED BY <1>2, <1>3, <1>4, BarsInRunAre

(* An average of the bars of the run, None until there is one. *)
IsAverage(f, period) ==
    IF BarsInRun = {} THEN f = None
    ELSE f \in Fractions /\ Same(f, Average(BarsInRun, period))

(* The invariant: both are, and the bars are counted. *)
AvgInv ==
    /\ barsSeen = Cardinality(BarsInRun)
    /\ IsAverage(fastEma, FastPeriod)
    /\ IsAverage(slowEma, SlowPeriod)

(* The average after a step is that of the bars then, with the closes of now. *)
LEMMA AverageThen ==
    ASSUME stream' = stream, NEW bars, BarsInRun' = bars, NEW p
    PROVE  Average(BarsInRun, p)' = Average(bars, p)
<1> DEFINE f(b) == [k \in b |-> Weight(b, k, p) * stream[k].payload.close]
<1>1. ASSUME NEW k
      PROVE  Weight(BarsInRun, k, p)' = Weight(bars, k, p)
  BY DEF Weight
<1>2. f(BarsInRun)' = f(bars)
  BY <1>1
<1>3. WeightedSum(bars, p) = SumFunctionOnSet(f(bars), bars)
  BY DEF WeightedSum
<1>4. WeightedSum(BarsInRun, p)' = SumFunctionOnSet(f(BarsInRun)', BarsInRun')
  BY DEF WeightedSum
<1> HIDE DEF f
<1>5. WeightedSum(BarsInRun, p)' = WeightedSum(bars, p)
  BY <1>2, <1>3, <1>4
<1> QED BY <1>5 DEF Average

(* A step that reads no bar of the run leaves the averages what they are. *)
LEMMA AveragesStay ==
    ASSUME AvgInv, UNCHANGED <<stream, emaVars>>, BarsInRun' = BarsInRun
    PROVE  AvgInv'
<1>1. ASSUME NEW f, NEW p, IsAverage(f, p)
      PROVE  IsAverage(f, p)'
  <2>1. Average(BarsInRun, p)' = Average(BarsInRun, p)
    BY AverageThen
  <2> QED BY <1>1, <2>1 DEF IsAverage, Same
<1>2. barsSeen' = barsSeen /\ fastEma' = fastEma /\ slowEma' = slowEma
  BY DEF emaVars
<1>3. IsAverage(fastEma, FastPeriod)'
  BY <1>1, <1>2 DEF AvgInv, IsAverage
<1>4. IsAverage(slowEma, SlowPeriod)'
  BY <1>1, <1>2 DEF AvgInv, IsAverage
<1> QED BY <1>2, <1>3, <1>4 DEF AvgInv

(* A bar of the run is taken into both. *)
LEMMA AveragesTake ==
    ASSUME Inv, LoopInv, AvgInv, TakeEvent, IsRunBar(pos), NEW i, OnBar(i, Close(pos))
    PROVE  AvgInv'
<1> DEFINE bars == BarsInRun
           k == pos
           new == bars \union {k}
<1>1. /\ IsFiniteSet(bars) /\ bars \subseteq Nat /\ \A j \in bars : j < k /\ Close(j) \in Int
      /\ k \in Nat
  BY BarsInRunType, StreamIsSorted DEF LoopInv
<1>2. Close(k) \in Int
  <2>1. stream[k].payload \in Payloads
    BY TakenEvent, StreamIsSorted DEF LoopInv
  <2> QED BY <2>1, PayloadTypes DEF IsRunBar, Close, Price
<1>3. BarsInRun' = new /\ stream' = stream
  BY BarsTaken DEF TakeEvent
<1>4. k \notin bars
  BY <1>1
<1>5. barsSeen' = Cardinality(new)
  <2>1. Cardinality(new) = Cardinality(bars) + 1
    BY <1>1, <1>4, FS_AddElement
  <2> QED BY <2>1 DEF AvgInv, OnBar
<1>6. ASSUME NEW f, NEW p \in Nat \ {0}, IsAverage(f, p)
      PROVE  /\ UpdateEma(f, Close(k), p) \in Fractions
             /\ Same(UpdateEma(f, Close(k), p), Average(new, p))
  <2>2. CASE bars = {}
    <3>1. f = None /\ new = {k}
      BY <1>6, <2>2 DEF IsAverage
    <3> QED BY <1>1, <1>2, <3>1, AverageOfOne
  <2>3. CASE bars # {}
    <3>1. f \in Fractions /\ Same(f, Average(bars, p))
      BY <1>6, <2>3 DEF IsAverage
    <3>2. \A j \in bars : j < k
      BY <1>1
    <3>3. \A j \in bars \union {k} : Close(j) \in Int
      BY <1>1, <1>2
    <3> HIDE DEF bars, k
    <3> QED BY <1>1, <2>3, <3>1, <3>2, <3>3, AverageOfMore
  <2> QED BY <2>2, <2>3
<1>7. Average(BarsInRun, FastPeriod)' = Average(new, FastPeriod)
      /\ Average(BarsInRun, SlowPeriod)' = Average(new, SlowPeriod)
  BY <1>3, AverageThen
<1>8. fastEma' = UpdateEma(fastEma, Close(k), FastPeriod)
      /\ slowEma' = UpdateEma(slowEma, Close(k), SlowPeriod)
  BY DEF OnBar
<1>9. BarsInRun' # {}
  BY <1>3
<1>10. IsAverage(fastEma, FastPeriod)'
  <2>1. fastEma' \in Fractions /\ Same(fastEma', Average(new, FastPeriod))
    BY <1>6, <1>8, EmaAssumption DEF AvgInv
  <2> QED BY <1>7, <1>9, <2>1 DEF IsAverage, Same
<1>11. IsAverage(slowEma, SlowPeriod)'
  <2>1. slowEma' \in Fractions /\ Same(slowEma', Average(new, SlowPeriod))
    BY <1>6, <1>8, EmaAssumption DEF AvgInv
  <2> QED BY <1>7, <1>9, <2>1 DEF IsAverage, Same
<1> QED BY <1>3, <1>5, <1>10, <1>11 DEF AvgInv

(* Before the first event there is no bar. *)
LEMMA AveragesInit == EmaInit => AvgInv
<1> SUFFICES ASSUME EmaInit PROVE AvgInv
  OBVIOUS
<1>1. pos = 1 /\ barsSeen = 0 /\ fastEma = None /\ slowEma = None
  BY DEF EmaInit, RunInit
<1>2. BarsInRun = {}
  BY <1>1 DEF BarsInRun
<1> QED BY <1>1, <1>2, FS_EmptySet DEF AvgInv, IsAverage

(* Only a bar that reaches the strategy moves the averages. *)
LEMMA AveragesNext == Inv /\ LoopInv /\ AvgInv /\ [EmaNext]_emaRunVars => AvgInv'
<1> SUFFICES ASSUME Inv, LoopInv, AvgInv, [EmaNext]_emaRunVars PROVE AvgInv'
  OBVIOUS
<1>1. CASE EmaProcessEvent
  <2>1. TakeEvent /\ stream[pos].instrument \in Instruments /\ stream' = stream
    BY <1>1 DEF EmaProcessEvent, ProcessEvent, TakeEvent
  <2>2. gateOpen' <=> (stream[pos].ts >= TimeStart \/ ClockStart = TimeStart)
    BY <2>1, GateIs
  <2>3. CASE IsRunBar(pos)
    <3>1. OnBar(stream[pos].instrument, Close(pos))
      BY <1>1, <2>2, <2>3 DEF EmaProcessEvent, IsRunBar, Close
    <3> QED BY <2>1, <2>3, <3>1, AveragesTake
  <2>4. CASE ~IsRunBar(pos)
    <3>1. UNCHANGED emaVars
      BY <1>1, <2>1, <2>2, <2>4 DEF EmaProcessEvent, IsRunBar
    <3>2. BarsInRun' = BarsInRun
      BY <2>1, <2>4, BarsTaken
    <3> QED BY <2>1, <3>1, <3>2, AveragesStay
  <2> QED BY <2>3, <2>4
<1>2. CASE SkipEvent /\ UNCHANGED emaVars
  <2>1. TakeEvent /\ ~IsRunBar(pos) /\ stream' = stream
    BY <1>2 DEF SkipEvent, TakeEvent, IsRunBar
  <2>2. BarsInRun' = BarsInRun
    BY <2>1, BarsTaken
  <2> QED BY <1>2, <2>1, <2>2, AveragesStay
<1>3. CASE Execute /\ UNCHANGED emaVars
  <2>1. pos = 1 /\ pos' = 1
    BY <1>3 DEF LoopInv, StreamInv, Started, Execute
  <2>2. BarsInRun = {} /\ BarsInRun' = {}
    BY <2>1 DEF BarsInRun
  <2>3. barsSeen' = barsSeen /\ fastEma' = fastEma /\ slowEma' = slowEma
    BY <1>3 DEF emaVars
  <2> QED BY <2>2, <2>3 DEF AvgInv, IsAverage
<1>4. ASSUME UNCHANGED <<stream, pos, emaVars>>
      PROVE  AvgInv'
  <2>1. BarsInRun' = BarsInRun
    BY <1>4 DEF BarsInRun
  <2> QED BY <1>4, <2>1, AveragesStay
<1>5. ASSUME OtherStep, ~SkipEvent, ~Execute
      PROVE  UNCHANGED <<stream, pos>>
  BY <1>5 DEF OtherStep, New, SubmitNext, EndEvents, SettleNext, Finish, loopVars
<1>6. CASE UNCHANGED emaRunVars
  BY <1>4, <1>6 DEF emaRunVars, simVars, loopVars
<1> QED BY <1>1, <1>2, <1>3, <1>4, <1>5, <1>6 DEF EmaNext

(* The bars that count are those from some event of the replay on. *)
LEMMA BarsInRunAreAStretch ==
    ASSUME LoopInv
    PROVE  \E first \in 1..pos : BarsInRun = BarsFrom(first)
<1>1. /\ pos \in Nat /\ pos >= 1 /\ pos <= Len(stream) + 1 /\ Len(stream) \in Nat
      /\ \A k \in 1..Len(stream) : stream[k].ts \in Nat
      /\ \A j, k \in 1..Len(stream) : j < k => stream[j].ts <= stream[k].ts
  BY StreamIsSorted DEF LoopInv, StreamInv
<1>2. TimeStart \in Nat
  BY RunAssumption DEF Timestamp
<1> DEFINE read == {k \in 1..(pos - 1) : stream[k].ts >= TimeStart}
<1>3. CASE ClockStart = TimeStart
  <2>1. BarsInRun = BarsFrom(1)
    BY <1>3 DEF BarsInRun, BarsFrom
  <2>2. 1 \in 1..pos
    BY <1>1
  <2> QED BY <2>1, <2>2
<1>4. CASE ClockStart # TimeStart /\ read = {}
  <2>1. BarsInRun = {}
    BY <1>4 DEF BarsInRun
  <2>2. pos..(pos - 1) = {} /\ pos \in 1..pos
    BY <1>1
  <2>3. BarsFrom(pos) = {}
    BY <2>2 DEF BarsFrom
  <2> QED BY <2>1, <2>2, <2>3
<1>5. CASE ClockStart # TimeStart /\ read # {}
  <2>1. read \subseteq Nat
    BY <1>1
  <2>2. PICK first \in read : \A k \in read : first <= k
    BY <1>5, <2>1, LeastNatural
  <2>3. /\ first \in Nat /\ first >= 1 /\ first <= pos - 1 /\ first \in 1..pos
        /\ stream[first].ts >= TimeStart
    BY <1>1
  <2>4. \A k \in 1..(pos - 1) : k >= first <=> stream[k].ts >= TimeStart
    <3> TAKE k \in 1..(pos - 1)
    <3>1. k \in 1..Len(stream) /\ first \in 1..Len(stream) /\ k \in Nat
      BY <1>1, <2>3
    <3>2. first < k => stream[first].ts <= stream[k].ts
      BY <1>1, <3>1
    <3>3. stream[first].ts \in Nat /\ stream[k].ts \in Nat
      BY <1>1, <3>1
    <3>4. k >= first => stream[k].ts >= TimeStart
      BY <1>2, <2>3, <3>1, <3>2, <3>3
    <3>5. stream[k].ts >= TimeStart => k >= first
      BY <2>2, <2>3, <3>1
    <3> QED BY <3>4, <3>5
  <2>5. \A k : k \in first..(pos - 1) <=> k \in 1..(pos - 1) /\ k >= first
    BY <1>1, <2>3
  <2>6. BarsInRun = BarsFrom(first)
    BY <1>5, <2>4, <2>5 DEF BarsInRun, BarsFrom
  <2> QED BY <2>3, <2>6
<1> QED BY <1>3, <1>4, <1>5

(***************************************************************************)
(* For all periods and data: the averages the strategy decides by (on_bar, *)
(* equity_daily_crossover.rs) are those of an unbroken stretch of bars of  *)
(* all instruments that reaches up to the last bar replayed and leaves out *)
(* none of the run.                                                        *)
(***************************************************************************)
THEOREM TheAveragesAreOfTheRun == EmaSpec => []AveragesAreOfTheRun
<1>1. LoopInv /\ AvgInv => AveragesAreOfTheRun
  <2> SUFFICES ASSUME LoopInv, AvgInv PROVE AveragesAreOfTheRun
    OBVIOUS
  <2>1. PICK first \in 1..pos : BarsInRun = BarsFrom(first)
    BY BarsInRunAreAStretch
  <2>2. BarsInRun = {} => ~(barsSeen > 0)
    BY FS_EmptySet DEF AvgInv
  <2>3. \A k \in BarsFrom(1) : stream[k].ts >= TimeStart => k \in BarsFrom(first)
    BY <2>1 DEF BarsFrom, BarsInRun
  <2>4. /\ barsSeen = Cardinality(BarsFrom(first))
        /\ barsSeen > 0 => /\ Same(fastEma, Average(BarsFrom(first), FastPeriod))
                           /\ Same(slowEma, Average(BarsFrom(first), SlowPeriod))
    BY <2>1, <2>2 DEF AvgInv, IsAverage
  <2> QED BY <2>3, <2>4 DEF AveragesAreOfTheRun
<1> QED BY <1>1, AveragesInit, AveragesNext, EmaEngines, PTL DEF EmaSpec
==============================================================================
