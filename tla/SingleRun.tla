------------------------------ MODULE SingleRun ------------------------------
(***************************************************************************)
(* One simulation run (runner/single_run.rs): the validation of the        *)
(* request, the loop that replays the sorted events to the engines and     *)
(* calls the strategy, and the settlement of the engines.                  *)
(*                                                                         *)
(* The state of the engines and of the account is that of OrderBookEngine, *)
(* whose handlers the loop calls; MaxTime is the request's time_end.  The  *)
(* strategy is any strategy: on every call it may return any batch of      *)
(* orders.  Names may be used by events and orders that no instrument of   *)
(* the request has.                                                        *)
(***************************************************************************)
EXTENDS OrderBookEngine, MarketView, ContractValidator

CONSTANTS
    TimeStart,      \* time_start
    WarmupStart,    \* warmup_start, or None
    Requests,       \* the requests that may be made
    StrayOrders,    \* orders for names that are not instruments of the run
    MaxBatch        \* bound: orders returned by one call of the strategy

(* The requests that are let through have the parameters of the model.      *)
Acceptable(r) == Verdicts(r) = {Accept}

ASSUME RunAssumption ==
    /\ TimeStart \in Timestamp
    /\ WarmupStart \in Optional(Timestamp)
    /\ ClockStart = (IF WarmupStart # None THEN WarmupStart ELSE TimeStart)
    /\ MaxBatch \in Nat
    /\ None \notin Payloads \union [close : Price, ts : Timestamp]
    /\ \A r \in Requests :
          /\ IsRequest(r)
          /\ r.events \in Seq(Event(Payloads))
          /\ <<r.timeStart, r.timeEnd, r.warmupStart, r.latency>>
                = <<TimeStart, MaxTime, WarmupStart, Latency>> \/ ~Acceptable(r)
          /\ Ids(r) = Instruments \/ ~Acceptable(r)
    /\ \A o \in StrayOrders : o.instrument \in Names \ Instruments

VARIABLES
    phase,      \* "new", "refused", "ready"; of execute(): "events", "settle", "done"
    request,    \* the request
    verdict,    \* what SingleRun::new returned, or None
    stream,     \* the sorted events
    pos,        \* the index of the next event
    queue,      \* orders the strategy returned, not yet submitted
    gateOpen,   \* WarmupGate.open
    view        \* the strategy's MarketView

requestVars == <<request, verdict>>
loopVars == <<phase, requestVars, stream, pos, queue, gateOpen, view>>
simVars  == <<vars, loopVars>>

-----------------------------------------------------------------------------
(* Validation of the request, and the start of the run *)

RunInit ==
    /\ Init
    /\ phase = "new"
    /\ request \in Requests
    /\ verdict = None
    /\ stream = <<>>
    /\ pos = 1
    /\ queue = <<>>
    /\ gateOpen = FALSE
    /\ view = NewView(ClockStart)

(* SingleRun::new *)
New ==
    /\ phase = "new"
    /\ verdict' \in Verdicts(request)
    /\ phase' = IF verdict' = Accept THEN "ready" ELSE "refused"
    /\ UNCHANGED <<vars, request, stream, pos, queue, gateOpen, view>>

(* execute() sorts the events; the engines, clock and view are as created. *)
Execute ==
    /\ phase = "ready"
    /\ phase' = "events"
    /\ stream' = SortedStream(request.events)
    /\ UNCHANGED <<vars, requestVars, pos, queue, gateOpen, view>>

-----------------------------------------------------------------------------
(* The event loop *)

(* SimulationClock.advance, whose refusal to move back is ignored. *)
AdvanceClock(ts) == now' = Max({now, ts})

(* Fault: the gate opens as soon as the warmup starts. *)
FaultOpenGate == gateOpen' = (now' >= ClockStart)

UpdateGate == gateOpen' = (now' >= TimeStart)

Batches ==
    UNION { [1..k -> OrderSpecs \union StrayOrders] :
                k \in 0..Min({MaxBatch, MaxOrders - count}) }

(* The loop goes on to the next event unless it is dated after the end. *)
MoreEvents == pos <= Len(stream) /\ stream[pos].ts <= MaxTime

(* What every event does before the loop asks for its engine. *)
TakeEvent ==
    /\ phase = "events"
    /\ queue = <<>>
    /\ MoreEvents
    /\ pos' = pos + 1
    /\ AdvanceClock(stream[pos].ts)
    /\ UpdateGate
    /\ view' = UpdateView(view, stream[pos].instrument, stream[pos].ts, stream[pos].payload)
    /\ UNCHANGED <<phase, requestVars, stream>>

(* Fault: the strategy is called before the engine has handled the event. *)
FaultStrategyFirst ==
    LET ev   == stream[pos]
        last == stream[pos - 1]
    IN  /\ TakeEvent
        /\ ev.instrument \in Instruments
        /\ IF pos > 1 /\ last.instrument \in Instruments
           THEN HandleEvent(last.instrument, last.ts, last.payload)
           ELSE UNCHANGED <<marketVars, orderVars, runVars, account>>
        /\ queue' \in (IF gateOpen' /\ ev.payload.type = "Bar" THEN Batches ELSE {<<>>})

(***************************************************************************)
(* The engine handles the event; then, if the gate is open and the event   *)
(* is a Bar, the strategy decides on a batch of orders.                    *)
(***************************************************************************)
ProcessEvent ==
    LET ev == stream[pos]
    IN  /\ TakeEvent
        /\ ev.instrument \in Instruments
        /\ HandleEvent(ev.instrument, ev.ts, ev.payload)
        /\ queue' \in (IF gateOpen' /\ ev.payload.type = "Bar" THEN Batches ELSE {<<>>})

(* An event of a name without an engine goes no further. *)
SkipEvent ==
    /\ TakeEvent
    /\ stream[pos].instrument \notin Instruments
    /\ UNCHANGED <<marketVars, orderVars, runVars, account, queue>>

(* The orders of a batch are submitted one by one, at the clock's time. *)
SubmitNext ==
    /\ queue # <<>>
    /\ Head(queue).instrument \in Instruments
    /\ SubmitOrder(Head(queue))
    /\ queue' = Tail(queue)
    /\ UNCHANGED <<now, phase, requestVars, stream, pos, gateOpen, view>>

(* An order for a name without an engine is dropped. *)
DropNext ==
    /\ queue # <<>>
    /\ Head(queue).instrument \notin Instruments
    /\ queue' = Tail(queue)
    /\ UNCHANGED <<vars, phase, requestVars, stream, pos, gateOpen, view>>

-----------------------------------------------------------------------------
(* The end of the run *)

(* Fault: the clock is left where the last event put it. *)
FaultEndEvents ==
    /\ phase = "events" /\ queue = <<>> /\ ~MoreEvents
    /\ phase' = "settle"
    /\ UNCHANGED <<vars, requestVars, stream, pos, queue, gateOpen, view>>

(* Fault: the position moves on although there is nothing to read. *)
FaultReadPastEnd ==
    /\ phase = "events" /\ queue = <<>> /\ ~MoreEvents
    /\ phase' = "settle"
    /\ pos' = pos + 1
    /\ AdvanceClock(MaxTime)
    /\ UNCHANGED <<marketVars, orderVars, runVars, account,
                   requestVars, stream, queue, gateOpen, view>>

(* Fault: an event past the end is waited out. *)
FaultDrainStream ==
    /\ phase = "events" /\ queue = <<>> /\ pos > Len(stream)
    /\ phase' = "settle"
    /\ AdvanceClock(MaxTime)
    /\ UNCHANGED <<marketVars, orderVars, runVars, account,
                   requestVars, stream, pos, queue, gateOpen, view>>

EndEvents ==
    /\ phase = "events"
    /\ queue = <<>>
    /\ ~MoreEvents
    /\ phase' = "settle"
    /\ AdvanceClock(MaxTime)
    /\ UNCHANGED <<marketVars, orderVars, runVars, account,
                   requestVars, stream, pos, queue, gateOpen, view>>

(* The engines are a HashMap: they are settled in any order. *)
SettleNext(i) ==
    /\ phase = "settle"
    /\ SettleEngine(i)
    /\ UNCHANGED <<now, loopVars>>

(* Fault: the run is over with the first engine settled. *)
FaultFinishEarly ==
    /\ phase = "settle"
    /\ \E i \in Instruments : settled[i]
    /\ phase' = "done"
    /\ UNCHANGED <<vars, requestVars, stream, pos, queue, gateOpen, view>>

Finish ==
    /\ phase = "settle"
    /\ \A i \in Instruments : settled[i]
    /\ phase' = "done"
    /\ UNCHANGED <<vars, requestVars, stream, pos, queue, gateOpen, view>>

RunNext ==
    \/ New
    \/ Execute
    \/ ProcessEvent
    \/ SkipEvent
    \/ SubmitNext
    \/ DropNext
    \/ EndEvents
    \/ \E i \in Instruments : SettleNext(i)
    \/ Finish

RunSpec == RunInit /\ [][RunNext]_simVars

(* The loop is one thread that never waits: it goes on while it can. *)
FairRunSpec == RunSpec /\ WF_simVars(RunNext)

-----------------------------------------------------------------------------
(* Properties *)

(* Type correctness of the loop's own state. *)
RunTypeOK ==
    /\ phase \in {"new", "refused", "ready", "events", "settle", "done"}
    /\ IsRequest(request)
    /\ verdict \in Optional({Accept} \union Refusals)
    /\ DOMAIN stream = 1..Len(stream)
    /\ pos \in 1..(Len(stream) + 1)
    /\ Len(queue) <= MaxBatch
    /\ \A k \in DOMAIN queue : queue[k] \in OrderSpecs \union StrayOrders
    /\ gateOpen \in BOOLEAN
    /\ view.ts \in Timestamp

(***************************************************************************)
(* What the loop takes for granted of a request that execute() replays:    *)
(* every id has an order book engine, also one that is declared twice, of  *)
(* which the last counts, and data in the stream; the clock starts by      *)
(* time_start and ends later; no order is active before it is decided.     *)
(* Which data is enough for an engine is no part of it: the validator lets *)
(* marks alone pass, and funding without funding events.                   *)
(***************************************************************************)
RunsAreWellFormed ==
    phase \in {"events", "settle", "done"} =>
        /\ EnginesOf(request) = Ids(request)
        /\ \A id \in Ids(request) : \E k \in DOMAIN stream : stream[k].instrument = id
        /\ request.warmupStart # None => request.warmupStart <= request.timeStart
        /\ request.timeStart < request.timeEnd
        /\ request.latency >= 0

(***************************************************************************)
(* An error names what is at fault: the kind fits, an id named is of an    *)
(* instrument without price data, and instruments are blamed for their     *)
(* data only when all declarations and times are in order.                 *)
(***************************************************************************)
RefusalNamesTheFault ==
    phase = "refused" =>
        CASE verdict.kind = "EngineNotImplemented" ->
               \E d \in ToSet(request.instruments) : d.formation # "Clob"
          [] verdict.kind = "DataSufficiencyError" ->
               /\ verdict.id \in Ids(request)
               /\ ~HasPriceData(request, verdict.id)
               /\ request.timeStart < request.timeEnd
               /\ \A d \in ToSet(request.instruments) :
                      d.formation = "Clob" /\ ~Inconsistent(d.caps)
          [] OTHER ->
               \/ \E d \in ToSet(request.instruments) : Inconsistent(d.caps)
               \/ request.timeEnd <= request.timeStart
               \/ request.warmupStart # None /\ request.warmupStart > request.timeStart
               \/ request.latency < 0

(***************************************************************************)
(* The price an engine settles at is that of the data replayed so far: the *)
(* last mark it was sent, however old, and only without any mark the last  *)
(* bar or trade.  Neither events the loop skipped nor orders, fills or     *)
(* other instruments have a say in it.                                     *)
(***************************************************************************)
Latest(i, types) ==
    LET seen == {k \in 1..(pos - 1) :
                   stream[k].instrument = i /\ stream[k].payload.type \in types}
    IN  IF seen = {} THEN None ELSE stream[Max(seen)].payload

SettlesAtLastPrice ==
    \A i \in Instruments :
        LET mark  == Latest(i, {"MarkUpdate", "Funding"})
            trade == Latest(i, {"Bar", "DerivedBar", "Trade"})
        IN  SettlePrice(i) =
              CASE mark # None -> mark.markPrice
                [] mark = None /\ trade # None ->
                       IF trade.type = "Trade" THEN trade.price ELSE trade.close
                [] OTHER -> None

(***************************************************************************)
(* The order of the replay is a function of the events alone: whatever     *)
(* order the request lists them in, the stream is the same, as long as no  *)
(* two of them agree on timestamp, instrument and sequence number.         *)
(***************************************************************************)
Key(e) == <<e.ts, e.instrument, e.seq>>
DistinctKeys(events) ==
    \A j, k \in DOMAIN events : j = k \/ Key(events[j]) # Key(events[k])

ReplayIsCanonical ==
    phase = "events" /\ pos = 1 /\ DistinctKeys(stream) =>
        \A pi \in Bijection(DOMAIN stream, DOMAIN stream) :
            SortedStream([k \in DOMAIN stream |-> stream[pi[k]]]) = stream

(***************************************************************************)
(* The loop stops at the first event dated after time_end; no event inside *)
(* the run is left behind it.                                              *)
(***************************************************************************)
NothingInTheRunIsSkipped ==
    phase \in {"settle", "done"} => \A k \in pos..Len(stream) : stream[k].ts > MaxTime

(***************************************************************************)
(* No trade record is dated outside the run, but for the latency of an     *)
(* execution against the book; no order is decided outside of it.          *)
(***************************************************************************)
RecordsInsideRun ==
    \A n \in Submitted :
        /\ orders[n].ts \in TimeStart..MaxTime
        /\ Concluded(n) =>
              log[n][1].ts \in
                 TimeStart..(MaxTime + (IF log[n][1].via = "book" THEN Latency ELSE 0))

(***************************************************************************)
(* What a strategy sees its engine knows already: no bar reaches the       *)
(* market view that the engine has not processed, warmup included, so an   *)
(* order cannot be filled by the bar it was decided on.                    *)
(***************************************************************************)
ViewNotAheadOfEngine ==
    \A i \in Instruments : view.bars[i] # None =>
        /\ lastBar[i] # None
        /\ lastBar[i].ts >= view.bars[i].ts

(***************************************************************************)
(* The loop is an environment the engine may rely on: with all events at   *)
(* or after the clock's start, a run behaves like OrderBookEngine.         *)
(***************************************************************************)
ImplementsEngine == Spec

(* Every run comes to its end. *)
Terminates == <>(phase \in {"refused", "done"})

(***************************************************************************)
(* Every order a run submits is concluded in the end, unless its engine    *)
(* has seen no price by then.                                              *)
(***************************************************************************)
Unpriced(n) == n \in Submitted /\ SettlePrice(orders[n].instrument) = None

EveryOrderConcluded ==
    \A n \in OrderIds :
        n \in Submitted ~> (Concluded(n) \/ (phase = "done" /\ Unpriced(n)))
=============================================================================
