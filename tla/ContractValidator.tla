-------------------------- MODULE ContractValidator --------------------------
(***************************************************************************)
(* The validation of a run request (runner/validator.rs): the checks, in   *)
(* their order, the first of which to fail decides what the caller is      *)
(* told.  Of an instrument the checks read the id, the price formation     *)
(* and the capabilities; several declarations may share an id.             *)
(***************************************************************************)
EXTENDS EventStream, SequencesExt

PriceFormations == {"Clob", "Amm", "Nav", "Dealer", "Chain", "Otc", "Marketplace", "Oracle"}

(* The capabilities that are constrained; the others are not looked at. *)
Capabilities ==
    {"HasFunding", "HasMarkPrice", "HasLiquidation", "IsLeveraged", "IsUnique", "IsFungibleSKU"}

Declaration == [id : Instruments, formation : PriceFormations, caps : SUBSET Capabilities]

IsRequest(r) ==
    /\ r.instruments \in Seq(Declaration)
    /\ r.timeStart \in Timestamp /\ r.timeEnd \in Timestamp
    /\ r.warmupStart \in Optional(Timestamp)
    /\ r.latency \in Int

Accept == [kind |-> "Ok"]
Because(kind) == [kind |-> kind]
Insufficient(id) == [kind |-> "DataSufficiencyError", id |-> id]

(* What a check may find, None standing for a pass. *)
Refusals ==
    {Because(kind) : kind \in {"EngineNotImplemented", "ValidationError"}}
      \union {Insufficient(id) : id \in Instruments}

ASSUME RefusalAssumption == None \notin Refusals

(* The first failure of a sequence of checks. *)
FirstFailure(checks) ==
    LET failed == {k \in DOMAIN checks : checks[k] # None}
    IN  IF failed = {} THEN None ELSE checks[Min(failed)]

(* validate_capability_consistency *)
Inconsistent(caps) ==
    \/ "HasFunding" \in caps /\ "HasMarkPrice" \notin caps
    \/ "HasLiquidation" \in caps /\ "IsLeveraged" \notin caps
    \/ {"IsUnique", "IsFungibleSKU"} \subseteq caps

(* Fault: the price formation of a declaration is not looked at. *)
FaultCheckDeclaration(d) == IF Inconsistent(d.caps) THEN Because("ValidationError") ELSE None

CheckDeclaration(d) ==
    CASE d.formation # "Clob" -> Because("EngineNotImplemented")
      [] d.formation = "Clob" /\ Inconsistent(d.caps) -> Because("ValidationError")
      [] OTHER -> None

CheckTimes(r) ==
    IF \/ r.timeEnd <= r.timeStart
       \/ r.warmupStart # None /\ r.warmupStart > r.timeStart
    THEN Because("ValidationError") ELSE None

Ids(r) == {r.instruments[k].id : k \in DOMAIN r.instruments}
IdsOfEvents(r) == {r.events[k].instrument : k \in DOMAIN r.events}

PriceData == {"Bar", "Quote", "Trade", "BookSnapshot", "BookDelta", "Mark", "DerivedBar"}

HasPriceData(r, id) ==
    \E k \in DOMAIN r.events :
        r.events[k].instrument = id /\ r.events[k].payload.type \in PriceData

CheckData(r, d) == IF HasPriceData(r, d.id) THEN None ELSE Insufficient(d.id)

CheckLatency(r) == IF r.latency < 0 THEN Because("ValidationError") ELSE None

(* Fault: of the two sets of ids the wrong one is subtracted. *)
FaultWithoutEvents(r) == IdsOfEvents(r) \ Ids(r)

(* Ids are kept in a HashSet: any id without an event may be the one named. *)
WithoutEvents(r) == Ids(r) \ IdsOfEvents(r)

(* The checks before and after the one of the ids, in their order. *)
EarlyChecks(r) ==
    Append([k \in DOMAIN r.instruments |-> CheckDeclaration(r.instruments[k])], CheckTimes(r))
LateChecks(r) ==
    Append([k \in DOMAIN r.instruments |-> CheckData(r, r.instruments[k])], CheckLatency(r))

(* What validate may return. *)
Verdicts(r) ==
    LET early == FirstFailure(EarlyChecks(r))
        late  == FirstFailure(LateChecks(r))
    IN  CASE early # None -> {early}
          [] early = None /\ WithoutEvents(r) # {} ->
                 {Insufficient(id) : id \in WithoutEvents(r)}
          [] OTHER -> {IF late = None THEN Accept ELSE late}

(* execute's maps: a later declaration of an id replaces an earlier one, and *)
(* only order books have an engine.                                          *)
InstrumentMap(r) ==
    [ id \in Ids(r) |->
        r.instruments[Max({k \in DOMAIN r.instruments : r.instruments[k].id = id})] ]

EnginesOf(r) == {id \in Ids(r) : InstrumentMap(r)[id].formation = "Clob"}
=============================================================================
