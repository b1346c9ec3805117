--------------------------- MODULE SingleRun_proofs ---------------------------
(***************************************************************************)
(* Machine-checked proofs about SingleRun, for every value of the          *)
(* constants: any requests, events, orders and strategy.                   *)
(*                                                                         *)
(* The loop's properties rest on two things: that the sort is a stable     *)
(* sort, although it is defined by counting, and that the requests let     *)
(* through have their times in order.  From these follow the invariant of  *)
(* the loop, that a run implements OrderBookEngine, and what the strategy  *)
(* is shown, the engines are settled at and the records are dated.  The    *)
(* guarantees proved of the engine and the account are carried over to     *)
(* runs whose data begins before the clock, where the loop is no           *)
(* environment of OrderBookEngine.  Of the end of a run it is proved that  *)
(* every step brings it closer and that it leaves no priced order open.    *)
(***************************************************************************)
EXTENDS SingleRun, EngineAccount_proofs

-----------------------------------------------------------------------------
(* The sort *)

Events == Event(Payloads)

(* Event j of the list goes in front of event k. *)
Ahead(events, j, k) ==
    \/ Before(events[j], events[k])
    \/ ~Before(events[k], events[j]) /\ j < k

Behind(events, k) == {j \in DOMAIN events : Ahead(events, j, k)}

(* Keys of four numbers in lexicographic order. *)
KeyLess(t, r, s, m, u, q, v, o) ==
    \/ t < u
    \/ t = u /\ r < q
    \/ t = u /\ r = q /\ s < v
    \/ t = u /\ r = q /\ s = v /\ m < o

(* Going in front of is a total order that respects the timestamps. *)
LEMMA AheadIsAnOrder ==
    ASSUME NEW events \in Seq(Events), NEW i \in DOMAIN events,
           NEW j \in DOMAIN events, NEW k \in DOMAIN events
    PROVE  /\ ~Ahead(events, i, i)
           /\ i # j => (Ahead(events, i, j) <=> ~Ahead(events, j, i))
           /\ Ahead(events, i, j) /\ Ahead(events, j, k) => Ahead(events, i, k)
           /\ Ahead(events, i, j) => events[i].ts <= events[j].ts
<1> DEFINE Ok(e) == /\ e.ts \in Nat /\ e.seq \in Nat
                    /\ e.instrument \in Names /\ IdRank[e.instrument] \in Nat
           Rank(e) == IdRank[e.instrument]
           Less(e, m, f, o) == KeyLess(e.ts, Rank(e), e.seq, m, f.ts, Rank(f), f.seq, o)
<1>1. i \in Nat /\ j \in Nat /\ k \in Nat
  OBVIOUS
<1>2. \A e \in Events : Ok(e)
  BY IdRankAssumption DEF Events, Event, Timestamp
<1>3. Ok(events[i]) /\ Ok(events[j]) /\ Ok(events[k])
  BY <1>2
<1>4. \A e, f : Ok(e) /\ Ok(f) => (e.instrument = f.instrument <=> Rank(e) = Rank(f))
  BY IdRankAssumption
<1>5. ASSUME NEW e, NEW f, NEW m \in Nat, NEW o \in Nat, Ok(e), Ok(f)
      PROVE  Before(e, f) \/ (~Before(f, e) /\ m < o) <=> Less(e, m, f, o)
  <2>1. e.instrument = f.instrument <=> Rank(e) = Rank(f)
    BY <1>4, <1>5
  <2>2. /\ e.ts \in Nat /\ f.ts \in Nat /\ e.seq \in Nat /\ f.seq \in Nat
        /\ Rank(e) \in Nat /\ Rank(f) \in Nat
    BY <1>5
  <2> HIDE DEF Ok
  <2>3. CASE e.ts # f.ts
    BY <2>2, <2>3 DEF Before, KeyLess
  <2>4. CASE e.ts = f.ts /\ Rank(e) # Rank(f)
    BY <2>1, <2>2, <2>4 DEF Before, KeyLess
  <2>5. CASE e.ts = f.ts /\ Rank(e) = Rank(f)
    BY <2>1, <2>2, <2>5 DEF Before, KeyLess
  <2> QED BY <2>3, <2>4, <2>5
<1>6. /\ Ahead(events, i, i) <=> Less(events[i], i, events[i], i)
      /\ Ahead(events, i, j) <=> Less(events[i], i, events[j], j)
      /\ Ahead(events, j, i) <=> Less(events[j], j, events[i], i)
      /\ Ahead(events, j, k) <=> Less(events[j], j, events[k], k)
      /\ Ahead(events, i, k) <=> Less(events[i], i, events[k], k)
  <2> HIDE DEF Less, Ok
  <2>1. \A m, o \in {i, j, k} : Ahead(events, m, o) <=> Less(events[m], m, events[o], o)
    BY <1>1, <1>3, <1>5 DEF Ahead
  <2> QED BY <2>1
<1> DEFINE t1 == events[i].ts  r1 == Rank(events[i])  s1 == events[i].seq
           t2 == events[j].ts  r2 == Rank(events[j])  s2 == events[j].seq
           t3 == events[k].ts  r3 == Rank(events[k])  s3 == events[k].seq
<1>7. /\ t1 \in Nat /\ r1 \in Nat /\ s1 \in Nat
      /\ t2 \in Nat /\ r2 \in Nat /\ s2 \in Nat
      /\ t3 \in Nat /\ r3 \in Nat /\ s3 \in Nat
  BY <1>3
<1>8. /\ Ahead(events, i, i) <=> KeyLess(t1, r1, s1, i, t1, r1, s1, i)
      /\ Ahead(events, i, j) <=> KeyLess(t1, r1, s1, i, t2, r2, s2, j)
      /\ Ahead(events, j, i) <=> KeyLess(t2, r2, s2, j, t1, r1, s1, i)
      /\ Ahead(events, j, k) <=> KeyLess(t2, r2, s2, j, t3, r3, s3, k)
      /\ Ahead(events, i, k) <=> KeyLess(t1, r1, s1, i, t3, r3, s3, k)
  BY <1>6
<1> HIDE DEF t1, r1, s1, t2, r2, s2, t3, r3, s3
<1>9. /\ ~KeyLess(t1, r1, s1, i, t1, r1, s1, i)
      /\ KeyLess(t1, r1, s1, i, t2, r2, s2, j) => t1 <= t2
  BY <1>1, <1>7 DEF KeyLess
<1>10. i # j => (KeyLess(t1, r1, s1, i, t2, r2, s2, j) <=> ~KeyLess(t2, r2, s2, j, t1, r1, s1, i))
  BY <1>1, <1>7 DEF KeyLess
<1>11. KeyLess(t1, r1, s1, i, t2, r2, s2, j) /\ KeyLess(t2, r2, s2, j, t3, r3, s3, k) =>
          KeyLess(t1, r1, s1, i, t3, r3, s3, k)
  BY <1>1, <1>7 DEF KeyLess
<1> QED BY <1>8, <1>9, <1>10, <1>11 DEF t1, t2

(* No two events have one place, and the places are those of the list. *)
LEMMA PlaceIsOrder ==
    ASSUME NEW events \in Seq(Events), NEW j \in DOMAIN events, NEW k \in DOMAIN events
    PROVE  /\ Place(events, k) \in DOMAIN events
           /\ Ahead(events, j, k) => Place(events, j) < Place(events, k)
<1> DEFINE n == Len(events)
<1>1. n \in Nat /\ DOMAIN events = 1..n
  OBVIOUS
<1>2. \A m \in DOMAIN events : Place(events, m) = 1 + Cardinality(Behind(events, m))
  BY DEF Place, Behind, Ahead
<1>3. IsFiniteSet(DOMAIN events) /\ Cardinality(DOMAIN events) = n
  <2> HIDE DEF n
  <2>1. IsFiniteSet(1..n) /\ Cardinality(1..n) = IF 1 > n THEN 0 ELSE n - 1 + 1
    BY <1>1, FS_Interval
  <2> QED BY <1>1, <2>1
<1>4. \A m \in DOMAIN events : IsFiniteSet(Behind(events, m))
                               /\ Cardinality(Behind(events, m)) \in Nat
  BY <1>3, FS_Subset, FS_CardinalityType DEF Behind
<1>5. Cardinality(Behind(events, k)) <= n - 1
  <2>1. Behind(events, k) \subseteq DOMAIN events \ {k}
    BY AheadIsAnOrder DEF Behind
  <2>2. IsFiniteSet(DOMAIN events \ {k}) /\ Cardinality(DOMAIN events \ {k}) = n - 1
    BY <1>3, FS_RemoveElement
  <2> QED BY <2>1, <2>2, FS_Subset
<1>6. ASSUME Ahead(events, j, k)
      PROVE  Cardinality(Behind(events, j)) < Cardinality(Behind(events, k))
  <2>1. Behind(events, j) \subseteq Behind(events, k)
    BY <1>6, AheadIsAnOrder DEF Behind
  <2>2. j \in Behind(events, k) /\ j \notin Behind(events, j)
    BY <1>6, AheadIsAnOrder DEF Behind
  <2>3. /\ Cardinality(Behind(events, j)) <= Cardinality(Behind(events, k))
        /\ Cardinality(Behind(events, j)) # Cardinality(Behind(events, k))
    BY <1>4, <2>1, <2>2, FS_Subset
  <2> QED BY <1>4, <2>3
<1> HIDE DEF n
<1> QED BY <1>1, <1>2, <1>4, <1>5, <1>6

(* The event that the sort puts at place p. *)
At(events, p) == CHOOSE k \in DOMAIN events : Place(events, k) = p

(* Every place is taken by exactly one event. *)
LEMMA PlacesAreTaken ==
    ASSUME NEW events \in Seq(Events)
    PROVE  /\ \A p \in DOMAIN events :
                 At(events, p) \in DOMAIN events /\ Place(events, At(events, p)) = p
           /\ \A k \in DOMAIN events : At(events, Place(events, k)) = k
<1> DEFINE D == DOMAIN events
           f == [k \in D |-> Place(events, k)]
<1>1. IsFiniteSet(D)
  BY FS_Interval
<1>2. \A j, k \in D : Place(events, j) = Place(events, k) => j = k
  <2> SUFFICES ASSUME NEW j \in D, NEW k \in D, j # k
               PROVE  Place(events, j) # Place(events, k)
    OBVIOUS
  <2>1. Ahead(events, j, k) \/ Ahead(events, k, j)
    BY AheadIsAnOrder
  <2>2. Place(events, j) \in Nat /\ Place(events, k) \in Nat
    BY PlaceIsOrder
  <2> QED BY <2>1, <2>2, PlaceIsOrder
<1>3. \A k \in D : Place(events, k) \in D
  BY PlaceIsOrder
<1> HIDE DEF D
<1>4. f \in Injection(D, D)
  BY <1>2, <1>3 DEF Injection, IsInjective
<1>5. f \in Surjection(D, D)
  BY <1>1, <1>4, FS_Injection
<1>6. \A p \in D : \E k \in D : Place(events, k) = p
  BY <1>5 DEF Surjection
<1>7. \A p \in D : At(events, p) \in D /\ Place(events, At(events, p)) = p
  BY <1>6 DEF At, D
<1> QED BY <1>2, <1>3, <1>7 DEF D

(***************************************************************************)
(* The stream of a run is a stable sort of the request's events: each of   *)
(* them appears once, the timestamps do not fall, and of two events the    *)
(* one that compares less, or was listed first, comes first.               *)
(***************************************************************************)
StableSort(events, sorted, at) ==
    /\ at \in Bijection(DOMAIN events, DOMAIN events)
    /\ \A p \in DOMAIN events : sorted[p] = events[at[p]]
    /\ \A p, q \in DOMAIN events : p < q => Ahead(events, at[p], at[q])

(***************************************************************************)
(* The stream built from a request (EventStream::new) is a stable sort of  *)
(* its events: each occurs once, timestamps do not fall, and events that   *)
(* compare equal stay in the order in which the request lists them.        *)
(***************************************************************************)
THEOREM StreamIsAStableSort ==
    ASSUME NEW events \in Seq(Events)
    PROVE  /\ SortedStream(events) \in Seq(Events)
           /\ Len(SortedStream(events)) = Len(events)
           /\ \E at : StableSort(events, SortedStream(events), at)
           /\ \A p, q \in DOMAIN events :
                 p < q => SortedStream(events)[p].ts <= SortedStream(events)[q].ts
<1> DEFINE n == Len(events)
           at == [p \in DOMAIN events |-> At(events, p)]
<1>1. SortedStream(events) = [p \in DOMAIN events |-> events[At(events, p)]]
  BY DEF SortedStream, At
<1>2. n \in Nat /\ DOMAIN events = 1..n /\ \A k \in 1..n : events[k] \in Events
  OBVIOUS
<1>3. SortedStream(events) \in Seq(Events) /\ Len(SortedStream(events)) = n
  BY <1>1, <1>2, PlacesAreTaken
<1>4. at \in Bijection(DOMAIN events, DOMAIN events)
  <2>1. \A p \in DOMAIN events : at[p] \in DOMAIN events
    BY PlacesAreTaken
  <2>2. \A p, q \in DOMAIN events : at[p] = at[q] => p = q
    BY PlacesAreTaken
  <2>3. \A k \in DOMAIN events : \E p \in DOMAIN events : at[p] = k
    BY PlacesAreTaken, PlaceIsOrder
  <2> QED BY <2>1, <2>2, <2>3 DEF Bijection, Injection, Surjection, IsInjective
<1>5. \A p, q \in DOMAIN events : p < q => Ahead(events, at[p], at[q])
  <2> SUFFICES ASSUME NEW p \in DOMAIN events, NEW q \in DOMAIN events, p < q,
                      ~Ahead(events, at[p], at[q])
               PROVE  FALSE
    OBVIOUS
  <2>1. /\ at[p] \in DOMAIN events /\ at[q] \in DOMAIN events
        /\ Place(events, at[p]) = p /\ Place(events, at[q]) = q
    BY PlacesAreTaken
  <2>2. at[p] # at[q] /\ Ahead(events, at[q], at[p])
    BY <2>1, AheadIsAnOrder
  <2>3. q < p
    BY <2>1, <2>2, PlaceIsOrder
  <2> QED BY <1>2, <2>3
<1>6. \A p \in DOMAIN events : SortedStream(events)[p] = events[at[p]]
  BY <1>1
<1>7. \A p, q \in DOMAIN events :
         p < q => SortedStream(events)[p].ts <= SortedStream(events)[q].ts
  <2> SUFFICES ASSUME NEW p \in DOMAIN events, NEW q \in DOMAIN events, p < q
               PROVE  events[at[p]].ts <= events[at[q]].ts
    BY <1>6
  <2>1. at[p] \in DOMAIN events /\ at[q] \in DOMAIN events
    BY PlacesAreTaken
  <2> QED BY <1>5, <2>1, AheadIsAnOrder
<1> HIDE DEF at
<1>8. StableSort(events, SortedStream(events), at)
  BY <1>4, <1>5, <1>6 DEF StableSort
<1> QED BY <1>3, <1>7, <1>8

-----------------------------------------------------------------------------
(* The validation of a request *)

(* A list of checks passes if all do; else the first failure is found.      *)
LEMMA FirstFailureIsFirst ==
    ASSUME NEW S, NEW checks \in Seq(S)
    PROVE  \/ /\ FirstFailure(checks) = None
              /\ \A k \in DOMAIN checks : checks[k] = None
           \/ /\ FirstFailure(checks) # None
              /\ \E k \in DOMAIN checks :
                    /\ checks[k] = FirstFailure(checks)
                    /\ \A j \in DOMAIN checks : j < k => checks[j] = None
<1> DEFINE failed == {k \in DOMAIN checks : checks[k] # None}
           first == Min(failed)
<1>1. FirstFailure(checks) = IF failed = {} THEN None ELSE checks[first]
  BY DEF FirstFailure
<1>2. CASE failed = {}
  BY <1>1, <1>2
<1>3. CASE failed # {}
  <2>1. failed \in SUBSET Nat
    OBVIOUS
  <2>2. first \in failed /\ \A k \in failed : first <= k
    BY <1>3, <2>1, MinIsLeast
  <2> HIDE DEF first
  <2>3. \A j \in DOMAIN checks : j < first => checks[j] = None
    BY <2>1, <2>2
  <2> QED BY <1>1, <1>3, <2>2, <2>3
<1> QED BY <1>2, <1>3

(* The checks of a request, one by one. *)
Clean(d) == d.formation = "Clob" /\ ~Inconsistent(d.caps)

TimesInOrder(r) ==
    /\ r.timeStart < r.timeEnd
    /\ r.warmupStart # None => r.warmupStart <= r.timeStart

(* The checks before the ids: a pass, or the error of a fault that is there. *)
LEMMA EarlyChecksAre ==
    ASSUME NEW r, IsRequest(r)
    PROVE  \/ /\ FirstFailure(EarlyChecks(r)) = None
              /\ \A k \in DOMAIN r.instruments : Clean(r.instruments[k])
              /\ TimesInOrder(r)
           \/ /\ FirstFailure(EarlyChecks(r)) = Because("EngineNotImplemented")
              /\ \E k \in DOMAIN r.instruments : r.instruments[k].formation # "Clob"
           \/ /\ FirstFailure(EarlyChecks(r)) = Because("ValidationError")
              /\ \/ \E k \in DOMAIN r.instruments : Inconsistent(r.instruments[k].caps)
                 \/ ~TimesInOrder(r)
<1> DEFINE checks == EarlyChecks(r)
           n == Len(r.instruments)
           S == Optional(Refusals)
<1>1. n \in Nat /\ DOMAIN r.instruments = 1..n
  BY DEF IsRequest
<1>2. \A d : \/ CheckDeclaration(d) = None /\ Clean(d)
             \/ CheckDeclaration(d) = Because("EngineNotImplemented") /\ d.formation # "Clob"
             \/ CheckDeclaration(d) = Because("ValidationError") /\ Inconsistent(d.caps)
  BY DEF CheckDeclaration, Clean
<1>3. \/ CheckTimes(r) = None /\ TimesInOrder(r)
      \/ CheckTimes(r) = Because("ValidationError") /\ ~TimesInOrder(r)
  <2>1. r.timeStart \in Nat /\ r.timeEnd \in Nat
    BY DEF IsRequest, Timestamp
  <2>2. r.warmupStart # None => r.warmupStart \in Nat
    BY DEF IsRequest, Optional, Timestamp
  <2> QED BY <2>1, <2>2 DEF CheckTimes, TimesInOrder
<1>4. /\ Because("EngineNotImplemented") \in Refusals
      /\ Because("ValidationError") \in Refusals
      /\ None \notin Refusals
  BY RefusalAssumption DEF Refusals
<1>5. /\ DOMAIN checks = 1..(n + 1)
      /\ \A k \in 1..n : checks[k] = CheckDeclaration(r.instruments[k])
      /\ checks[n + 1] = CheckTimes(r)
      /\ checks \in Seq(S)
  <2> DEFINE first == [k \in DOMAIN r.instruments |-> CheckDeclaration(r.instruments[k])]
  <2>1. \A d : CheckDeclaration(d) \in S
    BY <1>2, <1>4 DEF Optional
  <2>2. CheckTimes(r) \in S
    BY <1>3, <1>4 DEF Optional
  <2>3. first = [k \in 1..n |-> CheckDeclaration(r.instruments[k])]
    BY <1>1
  <2> HIDE DEF S, n
  <2>4. first \in Seq(S) /\ Len(first) = n
    BY <1>1, <2>1, <2>3
  <2>5. checks = Append(first, CheckTimes(r))
    BY DEF EarlyChecks
  <2>6. \A k \in 1..n : first[k] = CheckDeclaration(r.instruments[k])
    BY <2>3
  <2> HIDE DEF first, checks
  <2> QED BY <1>1, <2>2, <2>4, <2>5, <2>6
<1> HIDE DEF checks, n, S
<1>6. CASE FirstFailure(checks) = None /\ \A k \in DOMAIN checks : checks[k] = None
  <2>1. CheckTimes(r) = None /\ \A k \in 1..n : CheckDeclaration(r.instruments[k]) = None
    BY <1>1, <1>5, <1>6
  <2> QED BY <1>1, <1>2, <1>3, <1>4, <1>6, <2>1 DEF checks
<1>7. ASSUME FirstFailure(checks) # None,
             NEW k \in DOMAIN checks, checks[k] = FirstFailure(checks)
      PROVE  \/ /\ FirstFailure(checks) = Because("EngineNotImplemented")
                /\ \E m \in DOMAIN r.instruments : r.instruments[m].formation # "Clob"
             \/ /\ FirstFailure(checks) = Because("ValidationError")
                /\ \/ \E m \in DOMAIN r.instruments : Inconsistent(r.instruments[m].caps)
                   \/ ~TimesInOrder(r)
  <2>1. CASE k \in 1..n
    BY <1>1, <1>2, <1>5, <1>7, <2>1
  <2>2. CASE k = n + 1
    BY <1>3, <1>5, <1>7, <2>2
  <2> QED BY <1>1, <1>5, <1>7, <2>1, <2>2
<1> QED BY <1>5, <1>6, <1>7, FirstFailureIsFirst DEF checks

(* The checks after the ids, of data and latency. *)
LEMMA LateChecksAre ==
    ASSUME NEW r, IsRequest(r)
    PROVE  \/ /\ FirstFailure(LateChecks(r)) = None
              /\ \A id \in Ids(r) : HasPriceData(r, id)
              /\ r.latency >= 0
           \/ \E id \in Ids(r) : /\ FirstFailure(LateChecks(r)) = Insufficient(id)
                                 /\ ~HasPriceData(r, id)
           \/ /\ FirstFailure(LateChecks(r)) = Because("ValidationError")
              /\ r.latency < 0
<1> DEFINE checks == LateChecks(r)
           n == Len(r.instruments)
           S == Optional(Refusals)
<1>1. /\ n \in Nat /\ DOMAIN r.instruments = 1..n
      /\ \A k \in 1..n : r.instruments[k].id \in Ids(r)
      /\ Ids(r) \subseteq Instruments
      /\ r.latency \in Int
  <2>1. n \in Nat /\ DOMAIN r.instruments = 1..n /\ r.latency \in Int
    BY DEF IsRequest
  <2>2. \A k \in 1..n : r.instruments[k] \in Declaration
    BY DEF IsRequest
  <2>3. \A d \in Declaration : d.id \in Instruments
    BY DEF Declaration
  <2> HIDE DEF n
  <2> QED BY <2>1, <2>2, <2>3 DEF Ids
<1>2. \A d : \/ CheckData(r, d) = None /\ HasPriceData(r, d.id)
             \/ CheckData(r, d) = Insufficient(d.id) /\ ~HasPriceData(r, d.id)
  BY DEF CheckData
<1>3. \/ CheckLatency(r) = None /\ r.latency >= 0
      \/ CheckLatency(r) = Because("ValidationError") /\ r.latency < 0
  BY <1>1 DEF CheckLatency
<1>4. /\ \A id \in Ids(r) : Insufficient(id) \in Refusals
      /\ Because("ValidationError") \in Refusals
      /\ None \notin Refusals
  BY <1>1, RefusalAssumption DEF Refusals
<1>5. /\ DOMAIN checks = 1..(n + 1)
      /\ \A k \in 1..n : checks[k] = CheckData(r, r.instruments[k])
      /\ checks[n + 1] = CheckLatency(r)
      /\ checks \in Seq(S)
  <2> DEFINE first == [k \in DOMAIN r.instruments |-> CheckData(r, r.instruments[k])]
  <2>1. \A k \in 1..n : CheckData(r, r.instruments[k]) \in S
    BY <1>1, <1>2, <1>4 DEF Optional
  <2>2. CheckLatency(r) \in S
    BY <1>3, <1>4 DEF Optional
  <2>3. first = [k \in 1..n |-> CheckData(r, r.instruments[k])]
    BY <1>1
  <2> HIDE DEF S, n
  <2>4. first \in Seq(S) /\ Len(first) = n
    BY <1>1, <2>1, <2>3
  <2>5. checks = Append(first, CheckLatency(r))
    BY DEF LateChecks
  <2>6. \A k \in 1..n : first[k] = CheckData(r, r.instruments[k])
    BY <2>3
  <2> HIDE DEF first, checks
  <2> QED BY <1>1, <2>2, <2>4, <2>5, <2>6
<1> HIDE DEF checks, n, S
<1>6. CASE FirstFailure(checks) = None /\ \A k \in DOMAIN checks : checks[k] = None
  <2>1. CheckLatency(r) = None /\ \A k \in 1..n : CheckData(r, r.instruments[k]) = None
    BY <1>1, <1>5, <1>6
  <2>2. \A k \in 1..n : HasPriceData(r, r.instruments[k].id)
    BY <1>1, <1>2, <1>4, <2>1
  <2>3. \A id \in Ids(r) : HasPriceData(r, id)
    BY <1>1, <2>2 DEF Ids
  <2> QED BY <1>3, <1>4, <1>6, <2>1, <2>3 DEF checks
<1>7. ASSUME FirstFailure(checks) # None,
             NEW k \in DOMAIN checks, checks[k] = FirstFailure(checks)
      PROVE  \/ \E id \in Ids(r) : FirstFailure(checks) = Insufficient(id)
                                   /\ ~HasPriceData(r, id)
             \/ FirstFailure(checks) = Because("ValidationError") /\ r.latency < 0
  <2>1. CASE k \in 1..n
    BY <1>1, <1>2, <1>5, <1>7, <2>1
  <2>2. CASE k = n + 1
    BY <1>3, <1>5, <1>7, <2>2
  <2> QED BY <1>1, <1>5, <1>7, <2>1, <2>2
<1> QED BY <1>5, <1>6, <1>7, FirstFailureIsFirst DEF checks

(* The engines are those of all ids if all declarations are order books.    *)
LEMMA AllHaveEngines ==
    ASSUME NEW r, IsRequest(r), \A k \in DOMAIN r.instruments : Clean(r.instruments[k])
    PROVE  EnginesOf(r) = Ids(r)
<1> SUFFICES ASSUME NEW id \in Ids(r)
             PROVE  InstrumentMap(r)[id].formation = "Clob"
  BY DEF EnginesOf
<1> DEFINE S == {k \in DOMAIN r.instruments : r.instruments[k].id = id}
           last == Max(S)
<1>1. S # {}
  BY DEF Ids
<1>2. S \in SUBSET Nat /\ IsFiniteSet(S)
  <2>1. DOMAIN r.instruments = 1..Len(r.instruments) /\ Len(r.instruments) \in Nat
    BY DEF IsRequest
  <2>2. IsFiniteSet(DOMAIN r.instruments)
    BY <2>1, FS_Interval
  <2>3. S \subseteq DOMAIN r.instruments
    OBVIOUS
  <2> QED BY <2>1, <2>2, <2>3, FS_Subset
<1>3. last \in S
  BY <1>1, <1>2, MaxIsGreatest
<1>4. InstrumentMap(r)[id] = r.instruments[last]
  BY DEF InstrumentMap
<1> HIDE DEF last
<1> QED BY <1>3, <1>4 DEF Clean

(***************************************************************************)
(* What the checks of the validator come to, early returns, kinds of error *)
(* and the order of the steps aside.                                       *)
(***************************************************************************)
Runnable(r) ==
    /\ EnginesOf(r) = Ids(r)
    /\ \A k \in DOMAIN r.instruments :
          r.instruments[k].formation = "Clob" /\ ~Inconsistent(r.instruments[k].caps)
    /\ \A id \in Ids(r) : HasPriceData(r, id)
    /\ TimesInOrder(r)
    /\ r.latency >= 0

(* What validate returns for the requests that can be run, and the others. *)
LEMMA RunnableIsAccepted ==
    ASSUME NEW r, IsRequest(r)
    PROVE  Runnable(r) <=>
             /\ FirstFailure(EarlyChecks(r)) = None
             /\ WithoutEvents(r) = {}
             /\ FirstFailure(LateChecks(r)) = None
<1> DEFINE AllClean == \A k \in DOMAIN r.instruments : Clean(r.instruments[k])
           AllPriced == \A id \in Ids(r) : HasPriceData(r, id)
<1>1. FirstFailure(EarlyChecks(r)) = None <=> AllClean /\ TimesInOrder(r)
  <2>1. None # Because("EngineNotImplemented") /\ None # Because("ValidationError")
    BY RefusalAssumption DEF Refusals
  <2> QED BY <2>1, EarlyChecksAre DEF Clean
<1>2. FirstFailure(LateChecks(r)) = None <=> AllPriced /\ r.latency >= 0
  <2>1. /\ \A id \in Ids(r) : None # Insufficient(id)
        /\ None # Because("ValidationError")
    <3>1. Ids(r) \subseteq Instruments
      <4>1. \A k \in DOMAIN r.instruments : r.instruments[k] \in Declaration
        BY DEF IsRequest
      <4> QED BY <4>1 DEF Ids, Declaration
    <3> QED BY <3>1, RefusalAssumption DEF Refusals
  <2>2. r.latency \in Int
    BY DEF IsRequest
  <2> QED BY <2>1, <2>2, LateChecksAre
<1>3. AllPriced => WithoutEvents(r) = {}
  BY DEF HasPriceData, WithoutEvents, IdsOfEvents
<1>4. AllClean => EnginesOf(r) = Ids(r)
  BY AllHaveEngines
<1>5. Runnable(r) <=> EnginesOf(r) = Ids(r) /\ AllClean /\ AllPriced
                        /\ TimesInOrder(r) /\ r.latency >= 0
  BY DEF Runnable, Clean
<1> HIDE DEF AllClean, AllPriced
<1> QED BY <1>1, <1>2, <1>3, <1>4, <1>5

(* Together: a request is let through exactly if nothing is missing. *)
LEMMA VerdictsAre ==
    ASSUME NEW r, IsRequest(r)
    PROVE  /\ Verdicts(r) \subseteq Refusals \union {Accept}
           /\ Accept \notin Refusals
           /\ Runnable(r) => Verdicts(r) = {Accept}
           /\ ~Runnable(r) => Accept \notin Verdicts(r)
<1> DEFINE early == FirstFailure(EarlyChecks(r))
           late  == FirstFailure(LateChecks(r))
<1>1. Accept \notin Refusals
  BY DEF Accept, Refusals, Because, Insufficient
<1>2. Ids(r) \subseteq Instruments
  <2>1. \A k \in DOMAIN r.instruments : r.instruments[k] \in Declaration
    BY DEF IsRequest
  <2> QED BY <2>1 DEF Ids, Declaration
<1>3. early \in Optional(Refusals)
  BY EarlyChecksAre DEF Refusals, Optional
<1>4. late \in Optional(Refusals)
  BY <1>2, LateChecksAre DEF Refusals, Optional
<1>5. \A id \in WithoutEvents(r) : Insufficient(id) \in Refusals
  BY <1>2 DEF WithoutEvents, Refusals
<1>6. /\ early # None => Verdicts(r) = {early}
      /\ early = None /\ WithoutEvents(r) # {} =>
            Verdicts(r) = {Insufficient(id) : id \in WithoutEvents(r)}
      /\ early = None /\ WithoutEvents(r) = {} =>
            Verdicts(r) = {IF late = None THEN Accept ELSE late}
  BY DEF Verdicts
<1>7. Runnable(r) <=> early = None /\ WithoutEvents(r) = {} /\ late = None
  BY RunnableIsAccepted
<1> HIDE DEF early, late
<1> QED BY <1>1, <1>3, <1>4, <1>5, <1>6, <1>7 DEF Optional

-----------------------------------------------------------------------------
(* The loop *)

Started == phase \in {"events", "settle", "done"}

(***************************************************************************)
(* What holds between any two steps of the loop.  The clock is never ahead *)
(* of an event that is still to come, unless the event is older than the   *)
(* clock's start; it stands at the run's end when engines are settled.     *)
(***************************************************************************)
RequestInv ==
    /\ phase \in {"new", "refused", "ready", "events", "settle", "done"}
    /\ request \in Requests
    /\ verdict \in Optional(Refusals \union {Accept})
    /\ phase # "new" => verdict \in Verdicts(request)
    /\ phase # "new" => (phase = "refused" <=> verdict # Accept)

StreamInv ==
    /\ stream = IF Started THEN SortedStream(request.events) ELSE <<>>
    /\ pos \in 1..(Len(stream) + 1)
    /\ ~Started => pos = 1 /\ now = ClockStart
    /\ phase \in {"settle", "done"} =>
          now = MaxTime /\ \A k \in pos..Len(stream) : stream[k].ts > MaxTime

ClockInv ==
    /\ phase \in {"ready", "events"} => ClockStart <= now /\ now <= MaxTime
    /\ \A k \in pos..Len(stream) : now <= ClockStart \/ now <= stream[k].ts

BatchInv ==
    /\ queue \in Seq(OrderSpecs \union StrayOrders)
    /\ Len(queue) <= MaxBatch
    /\ gateOpen \in BOOLEAN
    /\ queue # <<>> => phase = "events" /\ now >= TimeStart
    /\ phase \notin {"settle", "done"} => Running
    /\ view.ts \in Timestamp /\ DOMAIN view = {"ts", "bars", "quotes", "marks", "trades"}
    /\ DOMAIN view.bars = Names

LoopInv == RequestInv /\ StreamInv /\ ClockInv /\ BatchInv

(* What is known of a request that has been let through. *)
LEMMA AcceptedRequest ==
    ASSUME NEW r \in Requests, Accept \in Verdicts(r)
    PROVE  /\ Runnable(r)
           /\ r.timeStart = TimeStart /\ r.timeEnd = MaxTime
           /\ ClockStart <= TimeStart /\ TimeStart < MaxTime
<1>1. /\ IsRequest(r)
      /\ \/ <<r.timeStart, r.timeEnd, r.warmupStart, r.latency>>
                = <<TimeStart, MaxTime, WarmupStart, Latency>>
         \/ ~Acceptable(r)
  BY RunAssumption
<1>2. Runnable(r) /\ Acceptable(r)
  BY <1>1, VerdictsAre DEF Acceptable
<1>3. r.timeStart = TimeStart /\ r.timeEnd = MaxTime /\ r.warmupStart = WarmupStart
  BY <1>1, <1>2
<1>4. TimesInOrder(r)
  BY <1>2 DEF Runnable
<1>5. ClockStart = IF WarmupStart # None THEN WarmupStart ELSE TimeStart
  BY RunAssumption
<1>6. TimeStart \in Nat
  BY RunAssumption DEF Timestamp
<1> QED BY <1>2, <1>3, <1>4, <1>5, <1>6 DEF TimesInOrder

(* What is known of the stream. *)
LEMMA StreamIsSorted ==
    ASSUME RequestInv, StreamInv
    PROVE  /\ stream \in Seq(Events)
           /\ Len(stream) \in Nat /\ pos \in Nat /\ DOMAIN stream = 1..Len(stream)
           /\ \A k \in 1..Len(stream) : /\ stream[k].ts \in Nat
                                        /\ stream[k].instrument \in Names
                                        /\ stream[k].payload \in Payloads
           /\ \A j, k \in 1..Len(stream) : j < k => stream[j].ts <= stream[k].ts
           /\ \A k \in 1..Len(stream) :
                 \E m \in DOMAIN request.events : stream[k] = request.events[m]
<1>1. request.events \in Seq(Events)
  BY RunAssumption DEF RequestInv, Events
<1>2. CASE Started
  <2>1. stream \in Seq(Events) /\ Len(stream) = Len(request.events)
    BY <1>1, <1>2, StreamIsAStableSort DEF StreamInv
  <2>2. DOMAIN stream = 1..Len(stream) /\ DOMAIN request.events = DOMAIN stream
    BY <1>1, <2>1
  <2>3. \A j, k \in 1..Len(stream) : j < k => stream[j].ts <= stream[k].ts
    BY <1>1, <1>2, <2>2, StreamIsAStableSort DEF StreamInv
  <2>4. \A e \in Events : e.ts \in Nat /\ e.instrument \in Names /\ e.payload \in Payloads
    BY DEF Events, Event, Timestamp
  <2>5. PICK at : StableSort(request.events, stream, at)
    BY <1>1, <1>2, StreamIsAStableSort DEF StreamInv
  <2>6. \A k \in DOMAIN request.events : /\ at[k] \in DOMAIN request.events
                                        /\ stream[k] = request.events[at[k]]
    BY <2>5 DEF StableSort, Bijection, Injection
  <2>7. Len(stream) \in Nat /\ pos \in Nat
    BY <2>1 DEF StreamInv
  <2>8. ASSUME NEW k \in 1..Len(stream)
        PROVE  /\ stream[k].ts \in Nat
               /\ stream[k].instrument \in Names
               /\ stream[k].payload \in Payloads
    <3>1. stream[k] \in Events
      BY <2>1
    <3> QED BY <2>4, <3>1
  <2>9. ASSUME NEW k \in 1..Len(stream)
        PROVE  \E m \in DOMAIN request.events : stream[k] = request.events[m]
    BY <2>2, <2>6
  <2> QED BY <2>1, <2>2, <2>3, <2>7, <2>8, <2>9, Zenon
<1>3. CASE ~Started
  <2>1. stream = <<>> /\ pos = 1
    BY <1>3 DEF StreamInv
  <2>2. Len(stream) = 0 /\ stream \in Seq(Events) /\ DOMAIN stream = 1..0 /\ 1..0 = {}
    BY <2>1
  <2> QED BY <2>1, <2>2
<1> QED BY <1>2, <1>3

(* What taking an event does to the clock. *)
LEMMA TakenEvent ==
    ASSUME Inv, LoopInv, TakeEvent
    PROVE  /\ pos \in 1..Len(stream) /\ pos' = pos + 1
           /\ stream[pos].ts \in 0..MaxTime
           /\ now' = Max({now, stream[pos].ts})
           /\ now' \in Nat /\ now <= now' /\ stream[pos].ts <= now' /\ now' <= MaxTime
           /\ now' = now \/ now' = stream[pos].ts
           /\ \A k \in pos'..Len(stream) : now' <= ClockStart \/ now' <= stream[k].ts
<1> DEFINE ts == stream[pos].ts
           later == Max({now, ts})
<1>1. /\ pos \in Nat /\ Len(stream) \in Nat /\ pos >= 1
      /\ \A k \in 1..Len(stream) : stream[k].ts \in Nat
      /\ \A j, k \in 1..Len(stream) : j < k => stream[j].ts <= stream[k].ts
  <2>1. pos \in 1..(Len(stream) + 1)
    BY DEF LoopInv, StreamInv
  <2> QED BY <2>1, StreamIsSorted DEF LoopInv
<1>2. pos <= Len(stream) /\ ts <= MaxTime /\ now' = later /\ pos' = pos + 1
  BY DEF TakeEvent, MoreEvents, AdvanceClock
<1>3. now \in Nat /\ MaxTime \in Nat /\ ClockStart \in Nat
  BY EngineAssumption DEF Inv, TypeOK, Timestamp
<1>4. pos \in 1..Len(stream) /\ ts \in Nat
  BY <1>1, <1>2
<1>5. later \in {now, ts} /\ now <= later /\ ts <= later
  <2> HIDE DEF ts
  <2>1. now \in Int /\ ts \in Int
    BY <1>3, <1>4
  <2> QED BY <2>1, PairExtrema
<1>6. now <= MaxTime
  BY DEF TakeEvent, LoopInv, ClockInv
<1>7. \A k \in pos..Len(stream) : now <= ClockStart \/ now <= stream[k].ts
  BY DEF LoopInv, ClockInv
<1>8. \A k \in (pos + 1)..Len(stream) : ts <= stream[k].ts
  BY <1>1, <1>4
<1> HIDE DEF later, ts
<1>9. \A k \in (pos + 1)..Len(stream) : later <= ClockStart \/ later <= stream[k].ts
  <2> SUFFICES ASSUME NEW k \in (pos + 1)..Len(stream)
               PROVE  later <= ClockStart \/ later <= stream[k].ts
    OBVIOUS
  <2>1. ts <= stream[k].ts /\ (now <= ClockStart \/ now <= stream[k].ts)
    BY <1>1, <1>7, <1>8
  <2> QED BY <1>5, <2>1
<1>10. later \in Nat /\ later <= MaxTime
  BY <1>2, <1>3, <1>4, <1>5, <1>6
<1>11. ts \in 0..MaxTime /\ now <= now' /\ ts <= now' /\ now' \in Nat /\ now' <= MaxTime
       /\ (now' = now \/ now' = ts)
  BY <1>2, <1>3, <1>4, <1>5, <1>10
<1> QED BY <1>2, <1>4, <1>9, <1>11, Zenon DEF later, ts

(***************************************************************************)
(* The steps of the loop as the engines see them: data that may be older   *)
(* than the clock, a clock that may move by itself, orders, settlements.   *)
(***************************************************************************)
DataStep(i, ts, p) == Running /\ now' = Max({now, ts}) /\ HandleEvent(i, ts, p)

TimeStep(ts) ==
    /\ Running
    /\ now' = Max({now, ts})
    /\ UNCHANGED <<marketVars, orderVars, runVars, account>>

LoopNext ==
    \/ \E i \in Instruments, ts \in 0..MaxTime, p \in Payloads : DataStep(i, ts, p)
    \/ \E ts \in 0..MaxTime : TimeStep(ts)
    \/ \E order \in OrderSpecs : OnSubmit(order)
    \/ \E i \in Instruments : OnSettle(i)

(* Every step of the loop calls one handler of one engine, or none. *)
LEMMA LoopSteps ==
    ASSUME Inv, LoopInv, [RunNext]_simVars
    PROVE  LoopNext \/ UNCHANGED vars
<1>1. CASE New \/ Execute \/ DropNext \/ Finish
  BY <1>1 DEF New, Execute, DropNext, Finish
<1>2. CASE ProcessEvent
  <2> DEFINE ev == stream[pos]
  <2>1. ev.instrument \in Instruments /\ HandleEvent(ev.instrument, ev.ts, ev.payload)
    BY <1>2 DEF ProcessEvent
  <2>2. ev.ts \in 0..MaxTime /\ now' = Max({now, ev.ts}) /\ pos \in 1..Len(stream)
    BY <1>2, TakenEvent DEF ProcessEvent
  <2>3. ev.payload \in Payloads
    BY <2>2, StreamIsSorted DEF LoopInv
  <2>4. Running
    BY <1>2 DEF ProcessEvent, TakeEvent, LoopInv, BatchInv
  <2> HIDE DEF ev
  <2>5. DataStep(ev.instrument, ev.ts, ev.payload)
    BY <2>1, <2>2, <2>4 DEF DataStep, ev
  <2> QED BY <2>1, <2>2, <2>3, <2>5 DEF LoopNext, ev
<1>3. CASE SkipEvent
  <2>1. stream[pos].ts \in 0..MaxTime /\ now' = Max({now, stream[pos].ts})
    BY <1>3, TakenEvent DEF SkipEvent
  <2>2. Running
    BY <1>3 DEF SkipEvent, TakeEvent, LoopInv, BatchInv
  <2>3. TimeStep(stream[pos].ts)
    BY <1>3, <2>1, <2>2 DEF SkipEvent, TimeStep
  <2> QED BY <2>1, <2>3 DEF LoopNext
<1>4. CASE SubmitNext
  <2>1. queue \in Seq(OrderSpecs \union StrayOrders) /\ queue # <<>>
    BY <1>4 DEF SubmitNext, LoopInv, BatchInv
  <2>2. Head(queue) \in OrderSpecs \union StrayOrders
    BY <2>1
  <2>3. Head(queue) \in OrderSpecs
    BY <1>4, <2>2, RunAssumption DEF SubmitNext
  <2>4. Running
    BY <1>4 DEF SubmitNext, LoopInv, BatchInv
  <2>5. OnSubmit(Head(queue))
    BY <1>4, <2>4 DEF SubmitNext, OnSubmit
  <2> QED BY <2>3, <2>5 DEF LoopNext
<1>5. CASE EndEvents
  <2>1. Running
    BY <1>5 DEF EndEvents, LoopInv, BatchInv
  <2>2. TimeStep(MaxTime)
    BY <1>5, <2>1 DEF EndEvents, AdvanceClock, TimeStep
  <2>3. MaxTime \in 0..MaxTime
    BY EngineAssumption
  <2> QED BY <2>2, <2>3 DEF LoopNext
<1>6. ASSUME NEW i \in Instruments, SettleNext(i)
      PROVE  LoopNext
  <2>1. OnSettle(i)
    BY <1>6 DEF SettleNext, OnSettle, LoopInv, StreamInv
  <2> QED BY <2>1 DEF LoopNext
<1>7. CASE UNCHANGED simVars
  BY <1>7 DEF simVars
<1> QED BY <1>1, <1>2, <1>3, <1>4, <1>5, <1>6, <1>7 DEF RunNext

(* The engines keep their invariant, however old the events are. *)
LEMMA LoopKeepsInv ==
    ASSUME Inv, LoopNext \/ UNCHANGED vars
    PROVE  Inv'
<1>0. now \in Nat /\ MaxTime \in Nat
  BY EngineAssumption DEF Inv, TypeOK, Timestamp
<1>1. ASSUME NEW ts \in 0..MaxTime
      PROVE  Max({now, ts}) \in Timestamp
  <2>1. now \in Int /\ ts \in Int
    BY <1>0
  <2>2. Max({now, ts}) \in {now, ts}
    BY <2>1, PairExtrema
  <2> QED BY <1>0, <2>2 DEF Timestamp
<1>2. ASSUME NEW i \in Instruments, NEW ts \in 0..MaxTime, NEW p \in Payloads,
             DataStep(i, ts, p)
      PROVE  Inv'
  <2>1. ts \in Timestamp
    BY DEF Timestamp
  <2> QED BY <1>1, <1>2, <2>1, EventInv DEF DataStep
<1>3. ASSUME NEW ts \in 0..MaxTime, TimeStep(ts)
      PROVE  Inv'
  <2>1. MarketOK'
    BY <1>1, <1>3 DEF TimeStep, marketVars, runVars, MarketOK, Inv, TypeOK
  <2> QED BY <1>3, <2>1, QuietInv DEF TimeStep, runVars
<1>4. ASSUME NEW order \in OrderSpecs, OnSubmit(order)
      PROVE  Inv'
  BY <1>4, SubmitInv
<1>5. ASSUME NEW i \in Instruments, OnSettle(i)
      PROVE  Inv'
  BY <1>5, SettleInv
<1>6. CASE UNCHANGED vars
  BY <1>6, NextInv
<1> QED BY <1>2, <1>3, <1>4, <1>5, <1>6 DEF LoopNext

(* A batch is bounded. *)
LEMMA BatchesAreBounded ==
    ASSUME Inv, NEW batch \in Batches
    PROVE  batch \in Seq(OrderSpecs \union StrayOrders) /\ Len(batch) <= MaxBatch
<1> DEFINE bound == Min({MaxBatch, MaxOrders - count})
<1>1. MaxBatch \in Nat /\ MaxOrders - count \in Int
  BY EngineAssumption, RunAssumption DEF Inv, TypeOK
<1>2. bound \in Int /\ bound <= MaxBatch
  <2>1. MaxBatch \in Int
    BY <1>1
  <2>2. bound \in {MaxBatch, MaxOrders - count} /\ bound <= MaxBatch
    BY <1>1, <2>1, PairExtrema
  <2> HIDE DEF bound
  <2> QED BY <1>1, <2>2
<1>3. PICK k \in 0..bound : batch \in [1..k -> OrderSpecs \union StrayOrders]
  BY DEF Batches
<1> HIDE DEF bound
<1> QED BY <1>1, <1>2, <1>3

(* The loop starts well. *)
LEMMA LoopInit == RunInit => LoopInv
<1> SUFFICES ASSUME RunInit PROVE LoopInv
  OBVIOUS
<1> USE DEF RunInit
<1>1. RequestInv
  BY DEF RequestInv, Optional
<1>2. Len(<<>>) = 0 /\ 1 \in 1..(0 + 1) /\ 1..0 = {}
  OBVIOUS
<1>3. stream = <<>> /\ pos = 1 /\ ~Started /\ phase = "new" /\ queue = <<>>
  BY DEF Started
<1>4. now = ClockStart
  BY DEF Init
<1>5. StreamInv
  BY <1>2, <1>3, <1>4, Zenon DEF StreamInv
<1>6. ClockInv
  BY <1>2, <1>3 DEF ClockInv
<1>7. BatchInv
  <2>1. Running
    BY DEF Init, Running
  <2>2. ClockStart \in Timestamp /\ MaxBatch \in Nat
    BY EngineAssumption, RunAssumption DEF Timestamp
  <2>3. /\ view.ts = ClockStart
        /\ DOMAIN view = {"ts", "bars", "quotes", "marks", "trades"}
        /\ DOMAIN view.bars = Names
    BY DEF NewView
  <2>4. <<>> \in Seq(OrderSpecs \union StrayOrders) /\ Len(queue) <= MaxBatch
    BY <1>2, <1>3, <2>2
  <2>5. gateOpen \in BOOLEAN
    OBVIOUS
  <2> HIDE DEF RunInit
  <2> QED BY <1>3, <2>1, <2>2, <2>3, <2>4, <2>5 DEF BatchInv
<1> QED BY <1>1, <1>5, <1>6, <1>7 DEF LoopInv

(* An event is shown to the view at its own time. *)
LEMMA ViewKeepsShape ==
    ASSUME NEW x \in Names, NEW ts, NEW p,
           DOMAIN view = {"ts", "bars", "quotes", "marks", "trades"},
           DOMAIN view.bars = Names,
           view' = UpdateView(view, x, ts, p)
    PROVE  /\ DOMAIN view' = DOMAIN view /\ DOMAIN view'.bars = Names
           /\ view'.ts = ts
           /\ view'.bars = IF p.type = "Bar"
                           THEN [view.bars EXCEPT ![x] = [close |-> p.close, ts |-> ts]]
                           ELSE view.bars
BY DEF UpdateView

(* Taking an event keeps the loop's invariant, whatever the strategy says. *)
LEMMA TakeKeepsLoop ==
    ASSUME Inv, LoopInv, TakeEvent, UNCHANGED settled,
           \/ queue' = queue
           \/ gateOpen' /\ queue' \in Batches
           \/ queue' = <<>>
    PROVE  LoopInv'
<1>1. /\ pos \in 1..Len(stream) /\ pos' = pos + 1
      /\ now' \in Nat /\ now <= now' /\ stream[pos].ts <= now' /\ now' <= MaxTime
      /\ \A k \in pos'..Len(stream) : now' <= ClockStart \/ now' <= stream[k].ts
      /\ stream[pos].ts \in 0..MaxTime
  BY TakenEvent
<1>2. phase = "events" /\ queue = <<>> /\ UNCHANGED <<phase, request, verdict, stream>>
  BY DEF TakeEvent, requestVars
<1>3. RequestInv'
  BY <1>2 DEF RequestInv, LoopInv
<1>4. Len(stream) \in Nat /\ stream[pos].instrument \in Names
  BY <1>1, StreamIsSorted DEF LoopInv
<1>5. StreamInv'
  <2>1. pos' \in 1..(Len(stream) + 1)
    BY <1>1, <1>4
  <2> QED BY <1>2, <2>1 DEF StreamInv, LoopInv, Started
<1>6. ClockInv'
  <2>1. ClockStart \in Nat /\ now \in Nat /\ ClockStart <= now
    BY <1>2, EngineAssumption DEF LoopInv, ClockInv, Inv, TypeOK, Timestamp
  <2> QED BY <1>1, <1>2, <2>1 DEF ClockInv
<1>7. BatchInv'
  <2>1. Running'
    BY <1>2 DEF LoopInv, BatchInv, Running
  <2>2. gateOpen' = (now' >= TimeStart)
    BY DEF TakeEvent, UpdateGate
  <2>3. /\ queue' \in Seq(OrderSpecs \union StrayOrders) /\ Len(queue') <= MaxBatch
        /\ queue' # <<>> => gateOpen'
    <3>1. queue \in Seq(OrderSpecs \union StrayOrders) /\ Len(queue) <= MaxBatch
      BY DEF LoopInv, BatchInv
    <3> QED BY <1>2, <3>1, BatchesAreBounded
  <2>4. /\ view'.ts \in Timestamp /\ DOMAIN view' = {"ts", "bars", "quotes", "marks", "trades"}
        /\ DOMAIN view'.bars = Names
    <3>1. view' = UpdateView(view, stream[pos].instrument, stream[pos].ts,
                             stream[pos].payload)
      BY DEF TakeEvent
    <3>2. DOMAIN view = {"ts", "bars", "quotes", "marks", "trades"} /\ DOMAIN view.bars = Names
      BY DEF LoopInv, BatchInv
    <3>3. stream[pos].ts \in Timestamp
      BY <1>1 DEF Timestamp
    <3>4. /\ DOMAIN view' = DOMAIN view /\ DOMAIN view'.bars = Names
          /\ view'.ts = stream[pos].ts
      BY <1>4, <3>1, <3>2, ViewKeepsShape
    <3> QED BY <3>2, <3>3, <3>4
  <2>5. gateOpen' \in BOOLEAN /\ (gateOpen' <=> now' >= TimeStart)
    <3> DEFINE open == now' >= TimeStart
    <3>1. open \in BOOLEAN
      OBVIOUS
    <3>2. gateOpen' = open
      BY <2>2
    <3> QED BY <3>1, <3>2, Zenon
  <2> QED BY <1>2, <2>1, <2>3, <2>4, <2>5 DEF BatchInv
<1> QED BY <1>3, <1>5, <1>6, <1>7 DEF LoopInv

(* Every step keeps the loop's invariant. *)
LEMMA LoopNextInv ==
    ASSUME Inv, LoopInv, [RunNext]_simVars
    PROVE  LoopInv'
<1>0. /\ now \in Nat /\ MaxTime \in Nat /\ ClockStart \in Nat
      /\ Len(stream) \in Nat /\ pos \in Nat /\ 1 <= pos /\ pos <= Len(stream) + 1
      /\ \A k \in 1..Len(stream) : stream[k].ts \in Nat
  <2>1. pos \in 1..(Len(stream) + 1)
    BY DEF LoopInv, StreamInv
  <2> QED BY <2>1, EngineAssumption, StreamIsSorted DEF LoopInv, Inv, TypeOK, Timestamp
<1>1. CASE New
  <2>1. /\ phase = "new" /\ verdict' \in Verdicts(request)
        /\ phase' = IF verdict' = Accept THEN "ready" ELSE "refused"
        /\ UNCHANGED <<now, settled, request, stream, pos, queue, gateOpen, view>>
    BY <1>1 DEF New, vars, runVars
  <2>2. request \in Requests /\ IsRequest(request)
    BY RunAssumption DEF LoopInv, RequestInv
  <2>3. Verdicts(request) \subseteq Refusals \union {Accept}
    BY <2>2, VerdictsAre
  <2>4. RequestInv'
    BY <2>1, <2>2, <2>3 DEF RequestInv, Optional
  <2>5. now = ClockStart /\ stream = <<>> /\ pos = 1 /\ ~Started'
    BY <2>1 DEF LoopInv, StreamInv, Started
  <2>6. StreamInv'
    BY <2>1, <2>5 DEF LoopInv, StreamInv, Started
  <2>7. phase' = "ready" => ClockStart <= MaxTime
    <3>1. phase' = "ready" => Accept \in Verdicts(request)
      BY <2>1
    <3>2. TimeStart \in Nat
      BY RunAssumption DEF Timestamp
    <3> QED BY <1>0, <2>2, <3>1, <3>2, AcceptedRequest
  <2>8. ClockInv'
    BY <1>0, <2>1, <2>5, <2>7 DEF ClockInv
  <2>9. BatchInv'
    BY <2>1 DEF LoopInv, BatchInv, Running
  <2> QED BY <2>4, <2>6, <2>8, <2>9 DEF LoopInv
<1>2. CASE Execute
  <2>1. /\ phase = "ready" /\ phase' = "events"
        /\ stream' = SortedStream(request.events)
        /\ UNCHANGED <<now, settled, request, verdict, pos, queue, gateOpen, view>>
    BY <1>2 DEF Execute, vars, runVars, requestVars
  <2>2. RequestInv'
    BY <2>1 DEF LoopInv, RequestInv
  <2>3. now = ClockStart /\ pos = 1 /\ Started'
    BY <2>1 DEF LoopInv, StreamInv, Started
  <2>4. Len(stream') \in Nat
    <3>1. request.events \in Seq(Events)
      BY RunAssumption DEF LoopInv, RequestInv, Events
    <3> QED BY <2>1, <3>1, StreamIsAStableSort
  <2>5. StreamInv'
    BY <2>1, <2>3, <2>4 DEF StreamInv
  <2>6. ClockInv'
    BY <1>0, <2>1, <2>3 DEF LoopInv, ClockInv
  <2>7. BatchInv'
    BY <2>1 DEF LoopInv, BatchInv, Running
  <2> QED BY <2>2, <2>5, <2>6, <2>7 DEF LoopInv
<1>3. CASE ProcessEvent
  <2>1. TakeEvent
    BY <1>3 DEF ProcessEvent
  <2>2. UNCHANGED settled
    BY <1>3 DEF ProcessEvent, HandleEvent, HandleBar, HandleQuote, HandleTrade, HandleBook,
       HandleMark, HandleStatus, HandleFees, HandleSignal, runVars
  <2>3. (gateOpen' /\ queue' \in Batches) \/ queue' = <<>>
    BY <1>3 DEF ProcessEvent
  <2> QED BY <2>1, <2>2, <2>3, TakeKeepsLoop
<1>4. CASE SkipEvent
  BY <1>4, TakeKeepsLoop DEF SkipEvent, runVars
<1>5. CASE SubmitNext \/ DropNext
  <2>1. /\ queue # <<>> /\ queue' = Tail(queue)
        /\ UNCHANGED <<now, settled, phase, request, verdict, stream, pos, gateOpen, view>>
    BY <1>5 DEF SubmitNext, DropNext, SubmitOrder, vars, runVars, requestVars
  <2>2. queue \in Seq(OrderSpecs \union StrayOrders) /\ Len(queue) <= MaxBatch
    BY DEF LoopInv, BatchInv
  <2>3. queue' \in Seq(OrderSpecs \union StrayOrders) /\ Len(queue') <= MaxBatch
    <3>1. Len(queue) \in Nat /\ MaxBatch \in Nat
      BY <2>2, RunAssumption
    <3>2. Tail(queue) \in Seq(OrderSpecs \union StrayOrders) /\ Len(Tail(queue)) = Len(queue) - 1
      BY <2>1, <2>2
    <3> QED BY <2>1, <2>2, <3>1, <3>2
  <2>4. BatchInv'
    BY <2>1, <2>3 DEF LoopInv, BatchInv, Running
  <2>5. RequestInv' /\ StreamInv' /\ ClockInv'
    BY <2>1 DEF LoopInv, RequestInv, StreamInv, ClockInv, Started
  <2> QED BY <2>4, <2>5 DEF LoopInv
<1>6. CASE EndEvents
  <2>1. /\ phase = "events" /\ phase' = "settle" /\ queue = <<>> /\ ~MoreEvents
        /\ now' = Max({now, MaxTime})
        /\ UNCHANGED <<settled, request, verdict, stream, pos, queue, gateOpen, view>>
    BY <1>6 DEF EndEvents, AdvanceClock, requestVars, runVars
  <2>2. now' = MaxTime
    <3> DEFINE later == Max({now, MaxTime})
    <3>1. now <= MaxTime
      BY <2>1 DEF LoopInv, ClockInv
    <3>2. now \in Int /\ MaxTime \in Int
      BY <1>0
    <3>3. later \in {now, MaxTime} /\ MaxTime <= later
      BY <3>2, PairExtrema
    <3> HIDE DEF later
    <3>4. later = MaxTime
      BY <3>1, <3>2, <3>3
    <3> QED BY <2>1, <3>4 DEF later
  <2>3. \A k \in pos..Len(stream) : stream[k].ts > MaxTime
    <3>1. \A j, k \in 1..Len(stream) : j < k => stream[j].ts <= stream[k].ts
      BY StreamIsSorted DEF LoopInv
    <3>2. pos <= Len(stream) => stream[pos].ts > MaxTime
      BY <1>0, <2>1 DEF MoreEvents
    <3> QED BY <1>0, <3>1, <3>2
  <2>4. RequestInv'
    BY <2>1 DEF LoopInv, RequestInv
  <2>5. StreamInv'
    BY <2>1, <2>2, <2>3 DEF LoopInv, StreamInv, Started
  <2>6. ClockInv'
    BY <1>0, <2>1, <2>2, <2>3 DEF ClockInv
  <2>7. BatchInv'
    BY <2>1 DEF LoopInv, BatchInv
  <2> QED BY <2>4, <2>5, <2>6, <2>7 DEF LoopInv
<1>7. ASSUME NEW i \in Instruments, SettleNext(i)
      PROVE  LoopInv'
  <2>1. /\ phase = "settle"
        /\ UNCHANGED <<now, phase, request, verdict, stream, pos, queue, gateOpen, view>>
    BY <1>7 DEF SettleNext, loopVars, requestVars
  <2>2. RequestInv' /\ StreamInv' /\ ClockInv'
    BY <2>1 DEF LoopInv, RequestInv, StreamInv, ClockInv, Started
  <2>3. BatchInv'
    BY <2>1 DEF LoopInv, BatchInv
  <2> QED BY <2>2, <2>3 DEF LoopInv
<1>8. CASE Finish
  <2>1. /\ phase = "settle" /\ phase' = "done"
        /\ UNCHANGED <<now, settled, request, verdict, stream, pos, queue, gateOpen, view>>
    BY <1>8 DEF Finish, vars, runVars, requestVars
  <2>2. RequestInv' /\ StreamInv' /\ ClockInv' /\ BatchInv'
    BY <2>1 DEF LoopInv, RequestInv, StreamInv, ClockInv, BatchInv, Started
  <2> QED BY <2>2 DEF LoopInv
<1>9. CASE UNCHANGED simVars
  BY <1>9 DEF simVars, vars, runVars, loopVars, requestVars, LoopInv, RequestInv, StreamInv,
     ClockInv, BatchInv, Started, Running
<1> QED BY <1>1, <1>2, <1>3, <1>4, <1>5, <1>6, <1>7, <1>8, <1>9 DEF RunNext

(***************************************************************************)
(* In every run, whatever the times of its events, the engines keep their  *)
(* invariant, conservation of orders included, and the loop its own.       *)
(***************************************************************************)
THEOREM LoopInvariant == RunSpec => [](Inv /\ LoopInv)
<1>1. RunInit => Inv /\ LoopInv
  BY InitInv, LoopInit DEF RunInit
<1>2. Inv /\ LoopInv /\ [RunNext]_simVars => (Inv /\ LoopInv)'
  BY LoopSteps, LoopKeepsInv, LoopNextInv
<1> QED BY <1>1, <1>2, PTL DEF RunSpec

-----------------------------------------------------------------------------
(* What the loop promises *)

(***************************************************************************)
(* The loop's own state is well typed.                                     *)
(***************************************************************************)
THEOREM RunTypeCorrect == RunSpec => []RunTypeOK
<1>1. Inv /\ LoopInv => RunTypeOK
  <2> SUFFICES ASSUME LoopInv PROVE RunTypeOK
    OBVIOUS
  <2>1. IsRequest(request)
    BY RunAssumption DEF LoopInv, RequestInv
  <2>2. DOMAIN stream = 1..Len(stream)
    BY StreamIsSorted DEF LoopInv
  <2>3. \A k \in DOMAIN queue : queue[k] \in OrderSpecs \union StrayOrders
    <3>1. queue \in Seq(OrderSpecs \union StrayOrders)
      BY DEF LoopInv, BatchInv
    <3> QED BY <3>1
  <2>4. verdict \in Optional({Accept} \union Refusals)
    BY DEF LoopInv, RequestInv, Optional
  <2> QED BY <2>1, <2>2, <2>3, <2>4
          DEF RunTypeOK, LoopInv, RequestInv, StreamInv, BatchInv
<1> QED BY <1>1, LoopInvariant, PTL

(***************************************************************************)
(* What execute() replays has an engine and data for every id, a clock     *)
(* that starts in time and ends later, and no negative latency: whatever   *)
(* is requested, also with ids declared several times.                     *)
(***************************************************************************)
THEOREM ReplayedRunsAreWellFormed == RunSpec => []RunsAreWellFormed
<1>1. LoopInv => RunsAreWellFormed
  <2> SUFFICES ASSUME LoopInv, phase \in {"events", "settle", "done"}
               PROVE  /\ EnginesOf(request) = Ids(request)
                      /\ \A id \in Ids(request) : \E k \in DOMAIN stream : stream[k].instrument = id
                      /\ request.warmupStart # None => request.warmupStart <= request.timeStart
                      /\ request.timeStart < request.timeEnd
                      /\ request.latency >= 0
    BY DEF RunsAreWellFormed
  <2>1. /\ request \in Requests /\ Accept \in Verdicts(request)
        /\ stream = SortedStream(request.events)
    BY DEF LoopInv, RequestInv, StreamInv, Started
  <2>2. Runnable(request) /\ IsRequest(request) /\ request.events \in Seq(Event(Payloads))
    BY <2>1, AcceptedRequest, RunAssumption
  <2>3. TimesInOrder(request) /\ EnginesOf(request) = Ids(request) /\ request.latency >= 0
    BY <2>2 DEF Runnable
  <2>4. /\ request.warmupStart # None => request.warmupStart <= request.timeStart
        /\ request.timeStart < request.timeEnd
    BY <2>2, <2>3 DEF TimesInOrder, IsRequest, Optional, Timestamp
  <2>5. \A id \in Ids(request) : \E k \in DOMAIN stream : stream[k].instrument = id
    <3> SUFFICES ASSUME NEW id \in Ids(request)
                 PROVE  \E k \in DOMAIN stream : stream[k].instrument = id
      OBVIOUS
    <3>1. PICK k \in DOMAIN request.events : request.events[k].instrument = id
      BY <2>2 DEF Runnable, HasPriceData
    <3>2. request.events \in Seq(Events)
      BY <2>2 DEF Events
    <3>3. PICK at : StableSort(request.events, stream, at)
      BY <2>1, <3>2, StreamIsAStableSort
    <3>4. DOMAIN stream = DOMAIN request.events
      BY <2>1, <3>2, StreamIsAStableSort
    <3>5. PICK p \in DOMAIN request.events : at[p] = k
      BY <3>1, <3>3 DEF StableSort, Bijection, Surjection
    <3>6. stream[p] = request.events[k]
      BY <3>3, <3>5 DEF StableSort
    <3> QED BY <3>1, <3>4, <3>5, <3>6
  <2> QED BY <2>3, <2>4, <2>5
<1> QED BY <1>1, LoopInvariant, PTL

(***************************************************************************)
(* The error that a caller gets names what is at fault with the request.   *)
(***************************************************************************)
THEOREM ErrorsNameTheFault == RunSpec => []RefusalNamesTheFault
<1> DEFINE r == request
           early == FirstFailure(EarlyChecks(r))
           late  == FirstFailure(LateChecks(r))
<1>1. LoopInv => RefusalNamesTheFault
  <2> SUFFICES ASSUME RequestInv, phase = "refused"
               PROVE  RefusalNamesTheFault
    BY DEF LoopInv, RefusalNamesTheFault
  <2>1. /\ IsRequest(r) /\ verdict \in Verdicts(r) /\ verdict # Accept
    BY RunAssumption DEF RequestInv
  <2>2. /\ Because("EngineNotImplemented").kind = "EngineNotImplemented"
        /\ Because("ValidationError").kind = "ValidationError"
        /\ \A id : Insufficient(id).kind = "DataSufficiencyError" /\ Insufficient(id).id = id
    BY DEF Because, Insufficient
  <2>3. /\ \A k \in DOMAIN r.instruments : r.instruments[k] \in ToSet(r.instruments)
        /\ \A d \in ToSet(r.instruments) : \E k \in DOMAIN r.instruments : d = r.instruments[k]
    BY DEF ToSet
  <2>4. TimesInOrder(r) <=> ~ \/ r.timeEnd <= r.timeStart
                              \/ r.warmupStart # None /\ r.warmupStart > r.timeStart
    <3>1. r.timeStart \in Nat /\ r.timeEnd \in Nat
      BY <2>1 DEF IsRequest, Timestamp
    <3>2. r.warmupStart # None => r.warmupStart \in Nat
      BY <2>1 DEF IsRequest, Optional, Timestamp
    <3> QED BY <3>1, <3>2 DEF TimesInOrder
  <2>5. TimesInOrder(r) => r.timeStart < r.timeEnd
    BY DEF TimesInOrder
  <2>6. CASE early # None
    <3>1. verdict = early
      BY <2>1, <2>6 DEF Verdicts
    <3>2. CASE early = Because("EngineNotImplemented")
      <4>1. \E d \in ToSet(r.instruments) : d.formation # "Clob"
        BY <2>1, <2>2, <2>3, <2>6, <3>2, EarlyChecksAre
      <4> QED BY <2>2, <3>1, <3>2, <4>1 DEF RefusalNamesTheFault
    <3>3. CASE early = Because("ValidationError")
      <4>1. (\E d \in ToSet(r.instruments) : Inconsistent(d.caps)) \/ ~TimesInOrder(r)
        BY <2>1, <2>2, <2>3, <2>6, <3>3, EarlyChecksAre
      <4> QED BY <2>2, <2>4, <3>1, <3>3, <4>1 DEF RefusalNamesTheFault
    <3> QED BY <2>1, <2>6, <3>2, <3>3, EarlyChecksAre
  <2>7. CASE early = None
    <3>1. /\ \A d \in ToSet(r.instruments) : d.formation = "Clob" /\ ~Inconsistent(d.caps)
          /\ r.timeStart < r.timeEnd
      <4>1. None # Because("EngineNotImplemented") /\ None # Because("ValidationError")
        BY RefusalAssumption DEF Refusals
      <4> QED BY <2>1, <2>3, <2>5, <2>7, <4>1, EarlyChecksAre DEF Clean
    <3>2. ASSUME NEW id \in Ids(r), verdict = Insufficient(id), ~HasPriceData(r, id)
          PROVE  RefusalNamesTheFault
      BY <2>2, <3>1, <3>2 DEF RefusalNamesTheFault
    <3>3. CASE WithoutEvents(r) # {}
      <4>1. PICK id \in WithoutEvents(r) : verdict = Insufficient(id)
        BY <2>1, <2>7, <3>3 DEF Verdicts
      <4>2. id \in Ids(r) /\ ~HasPriceData(r, id)
        BY DEF WithoutEvents, IdsOfEvents, HasPriceData
      <4> QED BY <3>2, <4>1, <4>2
    <3>4. CASE WithoutEvents(r) = {}
      <4>1. verdict = late /\ late # None
        BY <2>1, <2>7, <3>4 DEF Verdicts
      <4>2. CASE \E id \in Ids(r) : late = Insufficient(id) /\ ~HasPriceData(r, id)
        BY <3>2, <4>1, <4>2
      <4>3. CASE late = Because("ValidationError") /\ r.latency < 0
        BY <2>2, <4>1, <4>3 DEF RefusalNamesTheFault
      <4> QED BY <2>1, <4>1, <4>2, <4>3, LateChecksAre
    <3> QED BY <3>3, <3>4
  <2> QED BY <2>6, <2>7
<1> QED BY <1>1, LoopInvariant, PTL

(***************************************************************************)
(* No event inside the run is left behind by the loop.                     *)
(***************************************************************************)
THEOREM TheReplayIsComplete == RunSpec => []NothingInTheRunIsSkipped
<1>1. LoopInv => NothingInTheRunIsSkipped
  BY DEF LoopInv, StreamInv, NothingInTheRunIsSkipped
<1> QED BY <1>1, LoopInvariant, PTL

(***************************************************************************)
(* The loop implements OrderBookEngine: with all events at or after the    *)
(* start of the clock it is an environment that keeps the contract of the  *)
(* Engine trait, so what holds of the engine holds in the run.             *)
(***************************************************************************)
EventsFromStart ==
    \A r \in Requests : \A k \in DOMAIN r.events : r.events[k].ts >= ClockStart

(* Every step of the loop is one that the environment of OrderBookEngine takes. *)
LEMMA LoopKeepsContract ==
    ASSUME EventsFromStart, Inv, LoopInv, [RunNext]_simVars
    PROVE  [Next]_vars
<1>0. now \in Nat /\ MaxTime \in Nat /\ ClockStart \in Nat
  BY EngineAssumption DEF Inv, TypeOK, Timestamp
<1>1. ASSUME TakeEvent
      PROVE  /\ Running
             /\ stream[pos].ts \in now..MaxTime /\ now' = stream[pos].ts
             /\ stream[pos].payload \in Payloads
  <2>1. /\ pos \in 1..Len(stream)
        /\ stream[pos].ts \in 0..MaxTime
        /\ now' = now \/ now' = stream[pos].ts
        /\ stream[pos].ts <= now'
    BY <1>1, TakenEvent
  <2>2. Running /\ phase = "events"
    BY <1>1 DEF TakeEvent, LoopInv, BatchInv
  <2>3. stream[pos].payload \in Payloads
    BY <2>1, StreamIsSorted DEF LoopInv
  <2>4. stream[pos].ts >= ClockStart
    <3>1. PICK m \in DOMAIN request.events : stream[pos] = request.events[m]
      BY <2>1, StreamIsSorted DEF LoopInv
    <3> QED BY <3>1 DEF LoopInv, RequestInv, EventsFromStart
  <2>5. now <= ClockStart \/ now <= stream[pos].ts
    <3>1. pos \in pos..Len(stream)
      BY <2>1
    <3> QED BY <3>1 DEF LoopInv, ClockInv
  <2> QED BY <1>0, <2>1, <2>2, <2>3, <2>4, <2>5
<1>2. CASE ProcessEvent
  <2> DEFINE ev == stream[pos]
  <2>1. /\ TakeEvent /\ ev.instrument \in Instruments
        /\ HandleEvent(ev.instrument, ev.ts, ev.payload)
    BY <1>2 DEF ProcessEvent
  <2>2. OnEvent(ev.instrument, ev.ts, ev.payload)
    BY <1>0, <1>1, <2>1 DEF OnEvent
  <2> QED BY <1>1, <2>1, <2>2 DEF Next
<1>3. CASE SkipEvent
  <2>1. TakeEvent /\ UNCHANGED <<marketVars, orderVars, runVars, account>>
    BY <1>3 DEF SkipEvent
  <2>2. CASE now' = now
    BY <2>1, <2>2 DEF vars
  <2>3. CASE now' # now
    <3>1. now' \in (now + 1)..MaxTime
      BY <1>0, <1>1, <2>1, <2>3
    <3>2. OnClock(now')
      BY <1>1, <2>1 DEF OnClock
    <3> QED BY <3>1, <3>2 DEF Next
  <2> QED BY <2>2, <2>3
<1>4. CASE EndEvents
  <2>1. /\ Running /\ now' = MaxTime /\ now <= MaxTime
        /\ UNCHANGED <<marketVars, orderVars, runVars, account>>
    <3>1. LoopInv'
      BY LoopNextInv
    <3>2. phase' = "settle"
      BY <1>4 DEF EndEvents
    <3> QED BY <1>4, <3>1, <3>2 DEF EndEvents, LoopInv, BatchInv, ClockInv, StreamInv
  <2>2. CASE now = MaxTime
    BY <2>1, <2>2 DEF vars
  <2>3. CASE now # MaxTime
    <3>1. MaxTime \in (now + 1)..MaxTime
      BY <1>0, <2>1, <2>3
    <3>2. OnClock(MaxTime)
      BY <2>1 DEF OnClock
    <3> QED BY <3>1, <3>2 DEF Next
  <2> QED BY <2>2, <2>3
<1>5. CASE SubmitNext
  <2>1. \E order \in OrderSpecs : OnSubmit(order)
    <3>1. queue \in Seq(OrderSpecs \union StrayOrders) /\ queue # <<>> /\ Running
      BY <1>5 DEF SubmitNext, LoopInv, BatchInv
    <3>2. Head(queue) \in OrderSpecs \union StrayOrders
      BY <3>1
    <3>3. Head(queue) \in OrderSpecs
      BY <1>5, <3>2, RunAssumption DEF SubmitNext
    <3> QED BY <1>5, <3>1, <3>3 DEF SubmitNext, OnSubmit
  <2> QED BY <2>1 DEF Next
<1>6. ASSUME NEW i \in Instruments, SettleNext(i)
      PROVE  Next
  <2>1. OnSettle(i)
    BY <1>6 DEF SettleNext, OnSettle, LoopInv, StreamInv
  <2> QED BY <2>1 DEF Next
<1>7. CASE New \/ Execute \/ DropNext \/ Finish \/ UNCHANGED simVars
  BY <1>7 DEF New, Execute, DropNext, Finish, simVars
<1> QED BY <1>2, <1>3, <1>4, <1>5, <1>6, <1>7 DEF RunNext

(***************************************************************************)
(* A run implements OrderBookEngine: the loop advances the clock before it *)
(* calls an engine, submits only inside the run, and settles each engine   *)
(* once.  Events dated before the start of the clock would break it.       *)
(***************************************************************************)
THEOREM LoopImplementsEngine == EventsFromStart => (RunSpec => ImplementsEngine)
<1> SUFFICES ASSUME EventsFromStart
             PROVE  RunSpec => ImplementsEngine
  OBVIOUS
<1>1. RunInit => Init
  BY DEF RunInit
<1>2. Inv /\ LoopInv /\ [RunNext]_simVars => [Next]_vars
  BY LoopKeepsContract
<1> QED BY <1>1, <1>2, LoopInvariant, PTL DEF RunSpec, Spec, ImplementsEngine

-----------------------------------------------------------------------------
(* Prices: what the engines and the view know of the data *)

(* The steps of the run that show no event to an engine. *)
LEMMA QuietSteps ==
    ASSUME [RunNext]_simVars
    PROVE  \/ ProcessEvent
           \/ SkipEvent
           \/ Execute
           \/ UNCHANGED <<lastBar, lastTrade, markPrice, stream, pos, view>>
              /\ (Started' <=> Started)
<1> USE DEF vars, marketVars, runVars, orderVars, requestVars, loopVars, simVars, Started
<1>1. CASE New
  BY <1>1 DEF New
<1>2. CASE SubmitNext
  BY <1>2 DEF SubmitNext, SubmitOrder
<1>3. CASE DropNext
  BY <1>3 DEF DropNext
<1>4. CASE EndEvents
  BY <1>4 DEF EndEvents
<1>5. ASSUME NEW i \in Instruments, SettleNext(i)
      PROVE  UNCHANGED <<lastBar, lastTrade, markPrice, stream, pos, view>>
             /\ (Started' <=> Started)
  BY <1>5 DEF SettleNext, SettleEngine
<1>6. CASE Finish
  BY <1>6 DEF Finish
<1>7. CASE UNCHANGED simVars
  BY <1>7
<1> QED BY <1>1, <1>2, <1>3, <1>4, <1>5, <1>6, <1>7 DEF RunNext

(* What a handler does to the last prices of its engine. *)
LEMMA EventPrices ==
    ASSUME NEW i \in Instruments, NEW ts, NEW p, HandleEvent(i, ts, p)
    PROVE  /\ lastBar' = IF p.type \in {"Bar", "DerivedBar"}
                         THEN [lastBar EXCEPT ![i] = [close |-> p.close, ts |-> ts]]
                         ELSE lastBar
           /\ lastTrade' = CASE p.type \in {"Bar", "DerivedBar"} ->
                                  [lastTrade EXCEPT ![i] = p.close]
                             [] p.type = "Trade" -> [lastTrade EXCEPT ![i] = p.price]
                             [] OTHER -> lastTrade
           /\ markPrice' = IF p.type \in {"MarkUpdate", "Funding"}
                           THEN [markPrice EXCEPT ![i] = p.markPrice]
                           ELSE markPrice
<1>1. CASE p.type \in {"Bar", "DerivedBar"} /\ HandleBar(i, ts, p)
  BY <1>1 DEF HandleBar
<1>2. CASE p.type = "Quote" /\ HandleQuote(i, ts, p)
  BY <1>2 DEF HandleQuote
<1>3. CASE p.type = "Trade" /\ HandleTrade(i, ts, p.price)
  BY <1>3 DEF HandleTrade
<1>4. CASE p.type \in {"MarkUpdate", "Funding"} /\ HandleMark(i, p)
  BY <1>4 DEF HandleMark
<1> QED BY <1>1, <1>2, <1>3, <1>4 DEF HandleEvent, HandleBook, HandleStatus, HandleFees,
           HandleSignal

(***************************************************************************)
(* What a strategy sees in its view its engine has processed: the view's   *)
(* bar is not younger than the engine's, nor than any event to come.       *)
(***************************************************************************)
ViewInv ==
    \A i \in Instruments :
        /\ ~Started => view.bars[i] = None
        /\ view.bars[i] # None =>
              /\ lastBar[i] # None
              /\ view.bars[i].ts \in Nat
              /\ lastBar[i].ts >= view.bars[i].ts
              /\ \A k \in pos..Len(stream) : view.bars[i].ts <= stream[k].ts

(* What taking an event does to the bars of the view. *)
LEMMA TakenView ==
    ASSUME LoopInv, pos \in 1..Len(stream), TakeEvent
    PROVE  view'.bars = IF stream[pos].payload.type = "Bar"
                        THEN [view.bars EXCEPT ![stream[pos].instrument] =
                                [close |-> stream[pos].payload.close, ts |-> stream[pos].ts]]
                        ELSE view.bars
<1>1. view' = UpdateView(view, stream[pos].instrument, stream[pos].ts, stream[pos].payload)
  BY DEF TakeEvent
<1>2. DOMAIN view = {"ts", "bars", "quotes", "marks", "trades"} /\ DOMAIN view.bars = Names
  BY DEF LoopInv, BatchInv
<1>3. stream[pos].instrument \in Names
  BY StreamIsSorted DEF LoopInv
<1> QED BY <1>1, <1>2, <1>3, ViewKeepsShape

(* The bar an engine has just seen is the one the view then shows. *)
LEMMA ProcessKeepsView ==
    ASSUME Inv, LoopInv, ViewInv, ProcessEvent, NEW i \in Instruments, view'.bars[i] # None
    PROVE  /\ lastBar'[i] # None
           /\ view'.bars[i].ts \in Nat
           /\ lastBar'[i].ts >= view'.bars[i].ts
           /\ \A k \in pos'..Len(stream') : view'.bars[i].ts <= stream'[k].ts
<1> DEFINE x == stream[pos].instrument
           ts == stream[pos].ts
           p == stream[pos].payload
           bar == [close |-> p.close, ts |-> ts]
<1>1. TakeEvent /\ x \in Instruments /\ HandleEvent(x, ts, p)
  BY DEF ProcessEvent
<1>2. pos \in 1..Len(stream) /\ pos' = pos + 1
  BY <1>1, TakenEvent
<1>3. /\ Len(stream) \in Nat /\ pos \in Nat /\ pos >= 1 /\ pos <= Len(stream)
      /\ \A j, k \in 1..Len(stream) : j < k => stream[j].ts <= stream[k].ts
      /\ ts \in Nat /\ p \in Payloads
  BY <1>2, StreamIsSorted DEF LoopInv
<1>4. UNCHANGED stream
  BY <1>1 DEF TakeEvent
<1>5. \A k \in (pos + 1)..Len(stream) : ts <= stream[k].ts
  BY <1>3
<1>6. lastBar' = IF p.type \in {"Bar", "DerivedBar"} THEN [lastBar EXCEPT ![x] = bar] ELSE lastBar
  BY <1>1, EventPrices
<1>7. view'.bars = IF p.type = "Bar" THEN [view.bars EXCEPT ![x] = bar] ELSE view.bars
  BY <1>1, <1>2, TakenView
<1>8. DOMAIN lastBar = Instruments /\ DOMAIN view.bars = Names /\ i \in Names
  BY IdRankAssumption DEF Inv, TypeOK, LoopInv, BatchInv
<1>9. p.type \in {"Bar", "DerivedBar"} => bar # None
  <2>1. p.type \in {"Bar", "DerivedBar"} => p.close \in Price
    BY <1>3, PayloadTypes
  <2>2. p.type \in {"Bar", "DerivedBar"} => bar \in [close : Price, ts : Timestamp]
    BY <1>3, <2>1 DEF Timestamp
  <2> QED BY <2>2, RunAssumption
<1>10. bar.ts = ts
  OBVIOUS
<1> HIDE DEF bar, p, x, ts
<1>11. CASE p.type = "Bar" /\ i = x
  <2>1. view'.bars[i] = bar /\ lastBar'[i] = bar
    BY <1>6, <1>7, <1>8, <1>11
  <2> QED BY <1>2, <1>3, <1>4, <1>5, <1>9, <1>10, <1>11, <2>1
<1>12. CASE ~(p.type = "Bar" /\ i = x)
  <2>1. view'.bars[i] = view.bars[i]
    BY <1>7, <1>8, <1>12
  <2>2. (lastBar'[i] = bar /\ bar # None) \/ lastBar'[i] = lastBar[i]
    BY <1>6, <1>8, <1>9
  <2>3. /\ lastBar[i] # None
        /\ view.bars[i].ts \in Nat
        /\ lastBar[i].ts >= view.bars[i].ts
        /\ \A k \in pos..Len(stream) : view.bars[i].ts <= stream[k].ts
    BY <2>1 DEF ViewInv
  <2>4. view.bars[i].ts <= ts
    BY <1>3, <2>3 DEF ts
  <2>5. \A k \in (pos + 1)..Len(stream) : view.bars[i].ts <= stream[k].ts
    BY <1>3, <2>3
  <2> QED BY <1>2, <1>3, <1>4, <1>10, <2>1, <2>2, <2>3, <2>4, <2>5
<1> QED BY <1>11, <1>12

(* Of all steps only the two that consume an event touch the view or a bar. *)
LEMMA NextView ==
    ASSUME Inv, LoopInv, ViewInv, [RunNext]_simVars
    PROVE  ViewInv'
<1>0. LoopInv'
  BY LoopNextInv
<1>1. CASE ProcessEvent
  <2>1. Started'
    BY <1>1 DEF ProcessEvent, TakeEvent, Started
  <2> QED BY <1>1, <2>1, ProcessKeepsView DEF ViewInv
<1>2. CASE SkipEvent
  <2>1. TakeEvent /\ stream[pos].instrument \notin Instruments
        /\ UNCHANGED <<lastBar, stream, phase>>
    BY <1>2 DEF SkipEvent, TakeEvent, marketVars
  <2>2. pos \in 1..Len(stream) /\ pos' = pos + 1
    BY <2>1, TakenEvent
  <2>3. \A i \in Instruments : view'.bars[i] = view.bars[i]
    <3>1. DOMAIN view.bars = Names /\ Instruments \subseteq Names
      BY IdRankAssumption DEF LoopInv, BatchInv
    <3> QED BY <2>1, <2>2, <3>1, TakenView
  <2>4. pos \in Nat /\ Len(stream) \in Nat
    BY <2>2, StreamIsSorted DEF LoopInv
  <2>5. \A k \in pos'..Len(stream) : k \in pos..Len(stream)
    BY <2>2, <2>4
  <2> QED BY <2>1, <2>3, <2>5 DEF ViewInv, Started
<1>3. CASE Execute
  <2>1. ~Started /\ UNCHANGED <<view, lastBar>>
    BY <1>3 DEF Execute, Started, vars, marketVars
  <2> QED BY <2>1 DEF ViewInv
<1>4. CASE UNCHANGED <<lastBar, lastTrade, markPrice, stream, pos, view>>
           /\ (Started' <=> Started)
  BY <1>4 DEF ViewInv
<1> QED BY <1>1, <1>2, <1>3, <1>4, QuietSteps

(***************************************************************************)
(* No bar reaches the strategy before its engine has processed it.         *)
(***************************************************************************)
THEOREM TheViewIsNotAhead == RunSpec => []ViewNotAheadOfEngine
<1>1. RunInit => ViewInv
  <2>1. ASSUME RunInit
        PROVE  \A i \in Instruments : view.bars[i] = None
    BY <2>1, IdRankAssumption DEF RunInit, NewView
  <2> QED BY <2>1 DEF ViewInv
<1>2. Inv /\ LoopInv /\ ViewInv /\ [RunNext]_simVars => ViewInv'
  BY NextView
<1>3. ViewInv => ViewNotAheadOfEngine
  BY DEF ViewInv, ViewNotAheadOfEngine
<1> QED BY <1>1, <1>2, <1>3, LoopInvariant, PTL DEF RunSpec

(* The places in the replayed data where instrument i gets such an event. *)
SeenAt(i, types) ==
    {k \in 1..(pos - 1) : stream[k].instrument = i /\ stream[k].payload.type \in types}

(* The latest event of some types is the one seen at the greatest index. *)
LEMMA LatestIsSeen ==
    ASSUME RequestInv, StreamInv, NEW i, NEW types, SeenAt(i, types) # {}
    PROVE  /\ Max(SeenAt(i, types)) \in SeenAt(i, types)
           /\ \A k \in SeenAt(i, types) : k <= Max(SeenAt(i, types))
           /\ Latest(i, types) = stream[Max(SeenAt(i, types))].payload
           /\ Latest(i, types) \in Payloads /\ Latest(i, types).type \in types
           /\ Latest(i, types) # None
<1> DEFINE S == SeenAt(i, types)
<1>1. pos \in Nat /\ Len(stream) \in Nat /\ pos <= Len(stream) + 1
  BY StreamIsSorted DEF StreamInv
<1>2. S \subseteq 1..(pos - 1) /\ S \in SUBSET Nat
  BY <1>1 DEF SeenAt
<1>3. IsFiniteSet(S)
  <2>1. IsFiniteSet(1..(pos - 1))
    BY <1>1, FS_Interval
  <2> HIDE DEF S
  <2> QED BY <1>2, <2>1, FS_Subset
<1>4. Latest(i, types) = stream[Max(S)].payload
  BY DEF Latest, SeenAt
<1> HIDE DEF S
<1>5. Max(S) \in S /\ \A k \in S : k <= Max(S)
  BY <1>2, <1>3, MaxIsGreatest DEF S
<1>6. stream[Max(S)].payload.type \in types /\ Max(S) \in 1..(pos - 1)
  BY <1>5 DEF S, SeenAt
<1>7. Max(S) \in 1..Len(stream)
  BY <1>1, <1>6
<1>8. stream[Max(S)].payload \in Payloads
  BY <1>7, StreamIsSorted
<1>9. None \notin Payloads
  BY RunAssumption
<1> QED BY <1>4, <1>5, <1>6, <1>8, <1>9 DEF S

(* Reading on, the latest event of a kind is the one read, if it is one. *)
LEMMA LatestStep ==
    ASSUME RequestInv, StreamInv, RequestInv', StreamInv',
           pos \in 1..Len(stream), pos' = pos + 1, UNCHANGED stream,
           NEW i, NEW types
    PROVE  Latest(i, types)' =
             IF stream[pos].instrument = i /\ stream[pos].payload.type \in types
             THEN stream[pos].payload ELSE Latest(i, types)
<1> DEFINE S == SeenAt(i, types)
           here == stream[pos].instrument = i /\ stream[pos].payload.type \in types
<1>1. pos \in Nat /\ pos >= 1
  BY StreamIsSorted
<1>2. SeenAt(i, types)' = IF here THEN S \union {pos} ELSE S
  <2>1. SeenAt(i, types)' = {k \in 1..pos : stream[k].instrument = i
                                            /\ stream[k].payload.type \in types}
    BY <1>1 DEF SeenAt
  <2>2. 1..pos = 1..(pos - 1) \union {pos}
    BY <1>1
  <2> QED BY <2>1, <2>2 DEF SeenAt
<1>3. Latest(i, types)' = IF SeenAt(i, types)' = {} THEN None
                          ELSE stream[Max(SeenAt(i, types)')].payload
  BY DEF Latest, SeenAt
<1>4. Latest(i, types) = IF S = {} THEN None ELSE stream[Max(S)].payload
  BY DEF Latest, SeenAt
<1>5. CASE here
  <2>1. pos \in SeenAt(i, types)'
    BY <1>2, <1>5
  <2>2. \A k \in SeenAt(i, types)' : k \in Nat /\ k <= pos
    BY <1>1 DEF SeenAt
  <2>3. Max(SeenAt(i, types)') \in SeenAt(i, types)' /\ pos <= Max(SeenAt(i, types)')
    <3> DEFINE after == SeenAt(i, types)'
    <3>1. after \in SUBSET Nat /\ IsFiniteSet(after)
      <4>1. after \subseteq 1..pos
        BY <1>1 DEF SeenAt
      <4>2. IsFiniteSet(1..pos)
        BY <1>1, FS_Interval
      <4> HIDE DEF after
      <4>3. 1..pos \subseteq Nat
        OBVIOUS
      <4> QED BY <4>1, <4>2, <4>3, FS_Subset
    <3> HIDE DEF after
    <3>2. pos \in after => Max(after) \in after /\ pos <= Max(after)
      BY <3>1, MaxIsGreatest
    <3> QED BY <2>1, <3>2 DEF after
  <2>4. Max(SeenAt(i, types)') = pos
    BY <1>1, <2>2, <2>3
  <2> QED BY <1>3, <1>5, <2>1, <2>4
<1>6. CASE ~here
  BY <1>2, <1>3, <1>4, <1>6
<1> QED BY <1>5, <1>6

(***************************************************************************)
(* The prices an engine holds are those of the latest events of its own    *)
(* instrument, among the events read so far.                               *)
(***************************************************************************)
Marks  == {"MarkUpdate", "Funding"}
Trades == {"Bar", "DerivedBar", "Trade"}

PriceInv ==
    \A i \in Instruments :
        /\ markPrice[i] = IF Latest(i, Marks) = None THEN None
                          ELSE Latest(i, Marks).markPrice
        /\ lastTrade[i] = IF Latest(i, Trades) = None THEN None
                          ELSE IF Latest(i, Trades).type = "Trade" THEN Latest(i, Trades).price
                          ELSE Latest(i, Trades).close
        /\ lastBar[i] # None => Latest(i, Trades) # None

(* One more event was seen, and the handler took its price if it has one. *)
LEMMA ProcessKeepsPrices ==
    ASSUME Inv, LoopInv, PriceInv, ProcessEvent
    PROVE  PriceInv'
<1> DEFINE x == stream[pos].instrument
           p == stream[pos].payload
           bar == [close |-> p.close, ts |-> stream[pos].ts]
<1>1. TakeEvent /\ x \in Instruments /\ HandleEvent(x, stream[pos].ts, p)
  BY DEF ProcessEvent
<1>2. pos \in 1..Len(stream) /\ pos' = pos + 1 /\ UNCHANGED stream
  BY <1>1, TakenEvent DEF TakeEvent
<1>3. LoopInv'
  BY LoopNextInv DEF RunNext
<1>4. p \in Payloads /\ p # None
  BY <1>2, StreamIsSorted, RunAssumption DEF LoopInv
<1>5. \A i \in Instruments : \A types \in {Marks, Trades} :
         Latest(i, types)' = IF x = i /\ p.type \in types THEN p ELSE Latest(i, types)
  BY <1>2, <1>3, LatestStep DEF LoopInv
<1>6. /\ lastBar' = IF p.type \in {"Bar", "DerivedBar"}
                    THEN [lastBar EXCEPT ![x] = bar] ELSE lastBar
      /\ lastTrade' = CASE p.type \in {"Bar", "DerivedBar"} -> [lastTrade EXCEPT ![x] = p.close]
                        [] p.type = "Trade" -> [lastTrade EXCEPT ![x] = p.price]
                        [] OTHER -> lastTrade
      /\ markPrice' = IF p.type \in Marks THEN [markPrice EXCEPT ![x] = p.markPrice]
                      ELSE markPrice
  BY <1>1, EventPrices DEF Marks
<1>7. /\ DOMAIN lastBar = Instruments /\ DOMAIN lastTrade = Instruments
      /\ DOMAIN markPrice = Instruments
  BY DEF Inv, TypeOK
<1> HIDE DEF x, p, bar
<1> SUFFICES ASSUME NEW i \in Instruments
             PROVE  /\ markPrice'[i] = IF Latest(i, Marks)' = None THEN None
                                       ELSE Latest(i, Marks)'.markPrice
                    /\ lastTrade'[i] = IF Latest(i, Trades)' = None THEN None
                                       ELSE IF Latest(i, Trades)'.type = "Trade"
                                            THEN Latest(i, Trades)'.price
                                       ELSE Latest(i, Trades)'.close
                    /\ lastBar'[i] # None => Latest(i, Trades)' # None
  BY DEF PriceInv
<1>8. /\ Latest(i, Marks)' = IF x = i /\ p.type \in Marks THEN p ELSE Latest(i, Marks)
      /\ Latest(i, Trades)' = IF x = i /\ p.type \in Trades THEN p ELSE Latest(i, Trades)
  BY <1>5
<1>9. markPrice'[i] = IF x = i /\ p.type \in Marks THEN p.markPrice ELSE markPrice[i]
  BY <1>6, <1>7
<1>10. lastTrade'[i] = IF x = i /\ p.type \in Trades
                       THEN IF p.type = "Trade" THEN p.price ELSE p.close
                       ELSE lastTrade[i]
  BY <1>6, <1>7 DEF Trades
<1>11. lastBar'[i] # None => (x = i /\ p.type \in Trades) \/ lastBar[i] # None
  BY <1>6, <1>7 DEF Trades
<1> QED BY <1>4, <1>8, <1>9, <1>10, <1>11, Zenon DEF PriceInv

(* Nothing but an event moves a price. *)
LEMMA NextPrices ==
    ASSUME Inv, LoopInv, PriceInv, [RunNext]_simVars
    PROVE  PriceInv'
<1>0. LoopInv'
  BY LoopNextInv
<1>1. CASE ProcessEvent
  BY <1>1, ProcessKeepsPrices
<1>2. CASE SkipEvent
  <2>1. /\ TakeEvent /\ stream[pos].instrument \notin Instruments
        /\ UNCHANGED <<lastBar, lastTrade, markPrice, stream>>
    BY <1>2 DEF SkipEvent, TakeEvent, marketVars
  <2>2. pos \in 1..Len(stream) /\ pos' = pos + 1
    BY <2>1, TakenEvent
  <2>3. \A i \in Instruments : \A types : Latest(i, types)' = Latest(i, types)
    BY <1>0, <2>1, <2>2, LatestStep DEF LoopInv
  <2> QED BY <2>1, <2>3 DEF PriceInv
<1>3. CASE Execute
  <2>1. pos = 1 /\ pos' = 1 /\ UNCHANGED <<lastBar, lastTrade, markPrice>>
    BY <1>3 DEF Execute, LoopInv, StreamInv, Started, vars, marketVars
  <2>2. 1..(1 - 1) = {}
    OBVIOUS
  <2>3. \A i \in Instruments : \A types : Latest(i, types)' = None /\ Latest(i, types) = None
    BY <2>1, <2>2 DEF Latest
  <2> QED BY <2>1, <2>3 DEF PriceInv
<1>4. CASE UNCHANGED <<lastBar, lastTrade, markPrice, stream, pos, view>>
           /\ (Started' <=> Started)
  <2>1. \A i \in Instruments : \A types : Latest(i, types)' = Latest(i, types)
    BY <1>4 DEF Latest
  <2> QED BY <1>4, <2>1 DEF PriceInv
<1> QED BY <1>1, <1>2, <1>3, <1>4, QuietSteps

(***************************************************************************)
(* An engine settles at the last price of its own data, marks first.       *)
(***************************************************************************)
THEOREM LastPriceSettles == RunSpec => []SettlesAtLastPrice
<1>1. RunInit => PriceInv
  <2> SUFFICES ASSUME RunInit PROVE PriceInv
    OBVIOUS
  <2>1. 1..(1 - 1) = {} /\ pos = 1
    BY DEF RunInit
  <2>2. \A i \in Instruments : \A types : Latest(i, types) = None
    BY <2>1 DEF Latest
  <2>3. \A i \in Instruments : markPrice[i] = None /\ lastTrade[i] = None /\ lastBar[i] = None
    BY DEF RunInit, Init
  <2> QED BY <2>2, <2>3 DEF PriceInv
<1>2. Inv /\ LoopInv /\ PriceInv /\ [RunNext]_simVars => PriceInv'
  BY NextPrices
<1>3. Inv /\ LoopInv /\ PriceInv => SettlesAtLastPrice
  <2> SUFFICES ASSUME Inv, LoopInv, PriceInv, NEW i \in Instruments
               PROVE  SettlePrice(i) =
                        CASE Latest(i, Marks) # None -> Latest(i, Marks).markPrice
                          [] Latest(i, Marks) = None /\ Latest(i, Trades) # None ->
                                 IF Latest(i, Trades).type = "Trade"
                                 THEN Latest(i, Trades).price ELSE Latest(i, Trades).close
                          [] OTHER -> None
    BY DEF SettlesAtLastPrice, Marks, Trades
  <2> DEFINE mark  == Latest(i, Marks)
             trade == Latest(i, Trades)
  <2>1. /\ mark # None => mark \in Payloads /\ mark.type \in Marks
        /\ trade # None => trade \in Payloads /\ trade.type \in Trades
    <3>1. \A types : SeenAt(i, types) = {} => Latest(i, types) = None
      BY DEF Latest, SeenAt
    <3> QED BY <3>1, LatestIsSeen DEF LoopInv
  <2>2. /\ mark # None => mark.markPrice \in Price
        /\ trade # None => IF trade.type = "Trade" THEN trade.price \in Price
                           ELSE trade.close \in Price
    BY <2>1, PayloadTypes DEF Marks, Trades
  <2>3. None \notin Price
    BY NoneAssumption DEF Price
  <2>4. /\ markPrice[i] = IF mark = None THEN None ELSE mark.markPrice
        /\ lastTrade[i] = IF trade = None THEN None
                          ELSE IF trade.type = "Trade" THEN trade.price ELSE trade.close
        /\ lastBar[i] # None => trade # None
    BY DEF PriceInv
  <2> HIDE DEF mark, trade
  <2>5. CASE mark # None
    BY <2>2, <2>3, <2>4, <2>5 DEF SettlePrice, mark
  <2>6. CASE mark = None /\ trade # None
    <3>1. markPrice[i] = None /\ lastTrade[i] # None
      BY <2>2, <2>3, <2>4, <2>6
    <3> QED BY <2>4, <2>6, <3>1 DEF SettlePrice, mark, trade
  <2>7. CASE mark = None /\ trade = None
    <3>1. markPrice[i] = None /\ lastTrade[i] = None /\ lastBar[i] = None
      BY <2>4, <2>7
    <3>2. SettlePrice(i) = None
      BY <3>1 DEF SettlePrice
    <3> QED BY <2>7, <3>2 DEF mark, trade
  <2> QED BY <2>5, <2>6, <2>7
<1> QED BY <1>1, <1>2, <1>3, LoopInvariant, PTL DEF RunSpec

-----------------------------------------------------------------------------
(* The engines in the run *)

(***************************************************************************)
(* What the engines and the account promise rests on no contract of their  *)
(* environment but that the clock does not move back, which the loop keeps *)
(* even for data older than the clock's start.                             *)
(***************************************************************************)
EngineInv == LatencyInv /\ FairInv /\ MatchInv /\ OpenInv /\ SettledEmpty /\ BarInv

(* Each call of an engine keeps what was proved of it, whatever the clock. *)
LEMMA LoopKeepsEngines ==
    ASSUME Inv, EngineInv, LoopNext \/ UNCHANGED vars
    PROVE  EngineInv'
<1> USE DEF EngineInv
<1>0. now \in Nat /\ MaxTime \in Nat
  BY EngineAssumption DEF Inv, TypeOK, Timestamp
<1>1. ASSUME NEW ts \in 0..MaxTime
      PROVE  Max({now, ts}) \in Nat /\ now <= Max({now, ts})
  <2>1. now \in Int /\ ts \in Int
    BY <1>0
  <2>2. Max({now, ts}) \in {now, ts} /\ now <= Max({now, ts})
    BY <2>1, PairExtrema
  <2> QED BY <1>0, <2>2
<1>2. ASSUME NEW i \in Instruments, NEW ts \in 0..MaxTime, NEW p \in Payloads,
             DataStep(i, ts, p)
      PROVE  EngineInv'
  <2>1. Running /\ HandleEvent(i, ts, p) /\ ts \in Timestamp
        /\ now' \in Nat /\ now <= now'
    BY <1>1, <1>2 DEF DataStep, Timestamp
  <2>2. DataFillsRespectLatency' /\ UNCHANGED <<count, orders>>
    BY <2>1, EventKeepsLatency
  <2>3. UNCHANGED settled
    BY <2>1 DEF HandleEvent, HandleBar, HandleQuote, HandleTrade, HandleBook,
       HandleMark, HandleStatus, HandleFees, HandleSignal, runVars
  <2>4. LatencyInv'
    BY <2>1, <2>2, QuietKeepsTime DEF LatencyInv
  <2>5. FairInv'
    BY <2>1, EventIsFair DEF LatencyInv
  <2>6. MatchInv'
    BY <2>1, EventMatches DEF LatencyInv
  <2>7. OpenInv' /\ SettledEmpty'
    BY <2>1, <2>3, RunningOpens, RunningIsUnsettled
  <2>8. BarInv'
    <3>1. ts \in Nat /\ ts <= now'
      <4>1. now \in Int /\ ts \in Int
        BY <1>0
      <4> QED BY <1>2, <4>1, PairExtrema DEF DataStep
    <3> QED BY <2>1, <3>1, EventKeepsBars DEF LatencyInv
  <2> QED BY <2>4, <2>5, <2>6, <2>7, <2>8
<1>3. ASSUME NEW ts \in 0..MaxTime, TimeStep(ts)
      PROVE  EngineInv'
  <2>1. /\ Running /\ UNCHANGED <<log, count, orders, settled, account>>
        /\ now' \in Nat /\ now <= now'
    BY <1>1, <1>3 DEF TimeStep, orderVars, runVars
  <2>2. LatencyInv'
    BY <2>1, QuietKeepsTime, QuietKeepsLatency DEF LatencyInv
  <2>3. FairInv'
    BY <2>1, QuietRecords
  <2>4. SameMoney(account', account)
    BY <2>1 DEF SameMoney
  <2>5. SettledEmpty'
    BY <2>1, RunningIsUnsettled
  <2>6. BarInv'
    BY <1>3, <2>1, DroppingKeepsBars DEF TimeStep, marketVars, orderVars, runVars
  <2> QED BY <2>1, <2>2, <2>3, <2>4, <2>5, <2>6, QuietMatch, RunningOpens
<1>4. ASSUME [Next]_vars
      PROVE  EngineInv'
  <2>1. LatencyInv' /\ FairInv' /\ MatchInv' /\ OpenInv'
    BY <1>4, NextLatency, NextFair, NextMatches DEF LatencyInv
  <2>2. SettledEmpty' /\ BarInv'
    BY <1>4, NextSettled, NextBars DEF LatencyInv
  <2> QED BY <2>1, <2>2
<1>5. ASSUME NEW order \in OrderSpecs, OnSubmit(order)
      PROVE  EngineInv'
  BY <1>4, <1>5 DEF Next
<1>6. ASSUME NEW i \in Instruments, OnSettle(i)
      PROVE  EngineInv'
  BY <1>4, <1>6 DEF Next
<1>7. CASE UNCHANGED vars
  BY <1>4, <1>7
<1> QED BY <1>2, <1>3, <1>5, <1>6, <1>7 DEF LoopNext

(* So they hold in every run. *)
LEMMA EnginesInTheRun == RunSpec => []EngineInv
<1>1. RunInit => EngineInv
  <2>1. Init => LatencyInv
    BY EngineAssumption DEF Init, LatencyInv, TimeInv, Submitted, DataFillsRespectLatency, Fills
  <2>2. Init => FairInv
    BY DEF Init, FairInv, Fills
  <2>3. Init => SettledEmpty /\ BarInv
    BY DEF Init, SettledEmpty, BarInv, ImmediateOrdersEndAtABar
  <2> QED BY <2>1, <2>2, <2>3, InitMatches DEF RunInit, EngineInv
<1>2. Inv /\ LoopInv /\ EngineInv /\ [RunNext]_simVars => EngineInv'
  BY LoopSteps, LoopKeepsEngines
<1> QED BY <1>1, <1>2, LoopInvariant, PTL DEF RunSpec

(***************************************************************************)
(* In a run, whatever its data are, also data dated before the clock's     *)
(* start: orders are conserved, fills keep the latency rule, the limits,   *)
(* the stops and the fee rates, market, Ioc and Fok orders do not outlive  *)
(* a bar they were active for, the account agrees with the trade records,  *)
(* settlement leaves no order behind, and what is open in the end was      *)
(* bought or sold by it.                                                   *)
(***************************************************************************)
THEOREM EngineGuarantees ==
    RunSpec => [](/\ OrderConservation /\ DataFillsRespectLatency
                  /\ LimitPriceRespected /\ StopNeverImproved /\ MakerOnlyIfRested
                  /\ ImmediateOrdersEndAtABar /\ AccountMatchesRecords
                  /\ SettlementConcludes /\ OpenAtEndWasBuffered)
<1>1. FairInv => LimitPriceRespected /\ StopNeverImproved /\ MakerOnlyIfRested
  BY DEF FairInv, FairFill, LimitKept, StopKept, RateFollows,
     LimitPriceRespected, StopNeverImproved, MakerOnlyIfRested
<1>2. OpenInv => OpenAtEndWasBuffered
  BY DEF OpenInv, OpenAtEndWasBuffered
<1>3. Inv /\ EngineInv => /\ OrderConservation /\ DataFillsRespectLatency
                          /\ LimitPriceRespected /\ StopNeverImproved /\ MakerOnlyIfRested
                          /\ ImmediateOrdersEndAtABar /\ AccountMatchesRecords
                          /\ SettlementConcludes /\ OpenAtEndWasBuffered
  BY <1>1, <1>2, EmptyIsConcluded DEF Inv, EngineInv, LatencyInv, MatchInv, BarInv
<1> QED BY <1>3, LoopInvariant, EnginesInTheRun, PTL

-----------------------------------------------------------------------------
(* The steps of the engines in the run *)

RecordsKept ==
    \A n \in OrderIds : log[n] # <<>> => log'[n] = log[n] /\ orders'[n] = orders[n]

(* Each call of an engine is a step of the lifecycle and changes no record. *)
LEMMA LoopStepsKeep ==
    ASSUME Inv, Inv', TimeInv, FairInv, LoopNext \/ UNCHANGED vars
    PROVE  /\ RecordsKept /\ NewFillsInsideBook
           /\ Lifecycle!Next \/ AbstractState' = AbstractState
<1>1. ASSUME [Next]_vars
      PROVE  /\ RecordsKept /\ NewFillsInsideBook
             /\ Lifecycle!Next \/ AbstractState' = AbstractState
  <2>1. RecordsKept
    BY <1>1, StepKeepsRecords DEF RecordsKept
  <2>2. NewFillsInsideBook
    BY <1>1, NextFair
  <2>3. [Lifecycle!Next]_AbstractState
    BY <1>1, StepSimulates
  <2> QED BY <2>1, <2>2, <2>3 DEF AbstractState
<1>2. ASSUME NEW i \in Instruments, NEW ts \in 0..MaxTime, NEW p \in Payloads,
             DataStep(i, ts, p)
      PROVE  /\ RecordsKept /\ NewFillsInsideBook
             /\ Lifecycle!Next \/ AbstractState' = AbstractState
  <2>1. HandleEvent(i, ts, p)
    BY <1>2 DEF DataStep
  <2>2. /\ UNCHANGED <<count, orders>>
        /\ UNCHANGED orderVars \/ \E B, R : Retires(i, B, R, ts)
    BY <2>1, EventRetires
  <2>3. RecordsKept
    BY <2>2, RetiringKeepsRecords DEF RecordsKept, orderVars
  <2>4. NewFillsInsideBook
    BY <2>1, EventIsFair
  <2>5. Lifecycle!Conclude \/ AbstractState' = AbstractState
    BY <2>2, QuietStutters, RetiringConcludes
  <2> QED BY <2>3, <2>4, <2>5 DEF Lifecycle!Next
<1>3. ASSUME NEW ts, TimeStep(ts)
      PROVE  /\ RecordsKept /\ NewFillsInsideBook
             /\ Lifecycle!Next \/ AbstractState' = AbstractState
  <2>1. UNCHANGED orderVars /\ UNCHANGED <<log, count, orders>>
    BY <1>3 DEF TimeStep, orderVars, runVars
  <2>2. NewFillsInsideBook
    BY <2>1, QuietRecords
  <2> QED BY <2>1, <2>2, QuietStutters DEF RecordsKept
<1> QED BY <1>1, <1>2, <1>3 DEF LoopNext, Next

(***************************************************************************)
(* In a run, whatever its data are, also data dated before the clock's     *)
(* start: each order goes through the lifecycle that OrderLifecycle        *)
(* promises, its record is final, and a market order that executes against *)
(* levels gets no more than they display.                                  *)
(***************************************************************************)
THEOREM RunImplementsLifecycle ==
    RunSpec => ImplementsLifecycle /\ RecordsAreFinal /\ MarketFillsInsideBook
<1>1. RunInit => Lifecycle!Init
  <2> SUFFICES ASSUME RunInit PROVE Lifecycle!Init
    OBVIOUS
  <2>1. Inv /\ Submitted = {}
    BY InitInv DEF RunInit, Init, Submitted
  <2>2. \A n \in OrderIds : OrderState(n) = "new"
    BY <2>1, StateFromLog
  <2> QED BY <2>2 DEF Lifecycle!Init
<1>2. ASSUME Inv, Inv', LoopInv, EngineInv, [RunNext]_simVars
      PROVE  /\ [RecordsKept]_vars /\ [NewFillsInsideBook]_vars
             /\ [Lifecycle!Next]_AbstractState
  <2>1. TimeInv /\ FairInv
    BY <1>2 DEF EngineInv, LatencyInv
  <2>2. LoopNext \/ UNCHANGED vars
    BY <1>2, LoopSteps
  <2> QED BY <1>2, <2>1, <2>2, LoopStepsKeep DEF AbstractState
<1>3. RunSpec => [][RecordsKept]_vars /\ [][NewFillsInsideBook]_vars
                 /\ [][Lifecycle!Next]_AbstractState
  BY <1>2, LoopInvariant, EnginesInTheRun, PTL DEF RunSpec
<1>4. RecordsKept <=> \A n \in OrderIds : log[n] # <<>> =>
                          log'[n] = log[n] /\ orders'[n] = orders[n]
  BY DEF RecordsKept
<1>5. NewFillsInsideBook <=>
        \A n \in NewFills :
          LET o == orders'[n]
              r == log'[n][Len(log'[n])]
          IN  r.via \in {"book", "quote"} /\ o.type = "Market" =>
                  InsideBook(Opposing(book'[o.instrument], o.side), r)
  BY DEF NewFillsInsideBook
<1>6. RunSpec => RecordsAreFinal
  BY <1>3, <1>4, PTL DEF RecordsAreFinal
<1>7. RunSpec => MarketFillsInsideBook
  BY <1>3, <1>5, PTL DEF MarketFillsInsideBook
<1>8. RunSpec => ImplementsLifecycle
  BY <1>1, <1>3, PTL DEF RunSpec, ImplementsLifecycle, Lifecycle!Spec, AbstractState
<1> QED BY <1>6, <1>7, <1>8

-----------------------------------------------------------------------------
(* The end of the run *)

(* When the run is done every engine has been settled. *)
AllSettled == phase = "done" => \A i \in Instruments : settled[i]

LEMMA NextAllSettled == LoopInv /\ AllSettled /\ [RunNext]_simVars => AllSettled'
<1> SUFFICES ASSUME LoopInv, AllSettled, [RunNext]_simVars, phase' = "done"
             PROVE  \A i \in Instruments : settled'[i]
  BY DEF AllSettled
<1>1. CASE Finish
  BY <1>1 DEF Finish, vars, runVars
<1>2. CASE UNCHANGED simVars
  BY <1>2 DEF simVars, loopVars, vars, runVars, AllSettled
<1>3. ASSUME RunNext, ~Finish
      PROVE  FALSE
  <2>1. queue # <<>> => phase = "events"
    BY DEF LoopInv, BatchInv
  <2> QED BY <1>3, <2>1 DEF RunNext, New, Execute, ProcessEvent, SkipEvent, TakeEvent,
             SubmitNext, DropNext, EndEvents, SettleNext, loopVars
<1> QED BY <1>1, <1>2, <1>3

(***************************************************************************)
(* A run that is done has concluded every order it submitted, unless its   *)
(* engine never saw a price: the end that every run comes to is one with   *)
(* nothing left open.                                                      *)
(***************************************************************************)
THEOREM DoneLeavesNothingOpen ==
    RunSpec => [](phase = "done" => \A n \in Submitted : Concluded(n) \/ Unpriced(n))
<1>1. RunInit => AllSettled
  BY DEF RunInit, AllSettled
<1>2. Inv /\ EngineInv /\ AllSettled =>
        (phase = "done" => \A n \in Submitted : Concluded(n) \/ Unpriced(n))
  <2> SUFFICES ASSUME Inv, EngineInv, AllSettled, phase = "done", NEW n \in Submitted
               PROVE  Concluded(n) \/ Unpriced(n)
    OBVIOUS
  <2>1. SettlementConcludes
    BY EmptyIsConcluded DEF EngineInv
  <2>2. orders[n].instrument \in Instruments
    BY DEF EngineInv, LatencyInv, TimeInv, SubmittedOrder, Order
  <2> QED BY <2>1, <2>2 DEF SettlementConcludes, AllSettled, Unpriced
<1> QED BY <1>1, <1>2, NextAllSettled, LoopInvariant, EnginesInTheRun, PTL DEF RunSpec

(* A run that has begun has finitely many instruments: it listed them. *)
LEMMA InstrumentsListed ==
    ASSUME LoopInv, Started
    PROVE  IsFiniteSet(Instruments)
<1>1. request \in Requests /\ Accept \in Verdicts(request)
  BY DEF LoopInv, RequestInv, Started
<1>2. Runnable(request)
  BY <1>1, AcceptedRequest
<1>3. IsRequest(request) /\ Acceptable(request)
  BY <1>1, <1>2, RunAssumption, VerdictsAre DEF Acceptable
<1>4. Ids(request) = Instruments
  BY <1>1, <1>3, RunAssumption
<1> DEFINE list == request.instruments
           K == 1..Len(list)
           f == [k \in K |-> list[k].id]
<1>5. Len(list) \in Nat /\ DOMAIN list = K
  BY <1>3 DEF IsRequest
<1>6. Instruments = {list[k].id : k \in K}
  BY <1>4, <1>5 DEF Ids
<1> HIDE DEF list
<1>7. IsFiniteSet(K)
  BY <1>5, FS_Interval
<1>8. f \in Surjection(K, Instruments)
  BY <1>6 DEF Surjection
<1> HIDE DEF K, f
<1> QED BY <1>7, <1>8, FS_Surjection

(***************************************************************************)
(* What is left of a run, the parts of it first: a step takes away from    *)
(* one of these and adds at most to those that follow it.                  *)
(***************************************************************************)
PartsLeft ==
    CASE phase = "new" -> 4
      [] phase = "ready" -> 3
      [] phase = "events" -> 2
      [] phase = "settle" -> 1
      [] OTHER -> 0

EventsLeft  == Len(stream) + 1 - pos
OrdersLeft  == Len(queue)
EnginesLeft == Cardinality({i \in Instruments : ~settled[i]})

Closer ==
    \/ PartsLeft' < PartsLeft
    \/ PartsLeft' = PartsLeft /\ EventsLeft' < EventsLeft
    \/ /\ PartsLeft' = PartsLeft /\ EventsLeft' = EventsLeft
       /\ OrdersLeft' < OrdersLeft
    \/ /\ PartsLeft' = PartsLeft /\ EventsLeft' = EventsLeft /\ OrdersLeft' = OrdersLeft
       /\ EnginesLeft' < EnginesLeft

(* All of them are naturals; engines are counted once the run has begun. *)
LEMMA LeftIsNatural ==
    ASSUME LoopInv
    PROVE  /\ PartsLeft \in Nat /\ EventsLeft \in Nat /\ OrdersLeft \in Nat
           /\ Started => EnginesLeft \in Nat
<1>1. PartsLeft \in Nat
  BY DEF PartsLeft
<1>2. EventsLeft \in Nat
  <2>1. pos \in 1..(Len(stream) + 1) /\ Len(stream) \in Nat
    BY StreamIsSorted DEF LoopInv, StreamInv
  <2> QED BY <2>1 DEF EventsLeft
<1>3. OrdersLeft \in Nat
  BY DEF OrdersLeft, LoopInv, BatchInv
<1>4. ASSUME Started
      PROVE  EnginesLeft \in Nat
  <2>1. IsFiniteSet({i \in Instruments : ~settled[i]})
    BY <1>4, InstrumentsListed, FS_Subset
  <2> QED BY <2>1, FS_CardinalityType DEF EnginesLeft
<1> QED BY <1>1, <1>2, <1>3, <1>4

(* Every step that is one brings the run closer to its end. *)
LEMMA StepsAreCloser ==
    ASSUME Inv, LoopInv, RunNext
    PROVE  Closer
<1>1. CASE New \/ Execute \/ EndEvents \/ Finish
  <2>1. PartsLeft' < PartsLeft
    BY <1>1 DEF New, Execute, EndEvents, Finish, PartsLeft
  <2> QED BY <2>1 DEF Closer
<1>2. CASE ProcessEvent \/ SkipEvent
  <2>1. TakeEvent
    BY <1>2 DEF ProcessEvent, SkipEvent
  <2>2. phase' = phase /\ stream' = stream /\ pos' = pos + 1
        /\ pos \in Nat /\ Len(stream) \in Nat
    BY <2>1, StreamIsSorted DEF TakeEvent, LoopInv
  <2>3. PartsLeft' = PartsLeft
    BY <2>2 DEF PartsLeft
  <2>4. EventsLeft' < EventsLeft
    BY <2>2 DEF EventsLeft
  <2> QED BY <2>3, <2>4 DEF Closer
<1>3. CASE SubmitNext \/ DropNext
  <2>1. /\ queue # <<>> /\ queue' = Tail(queue)
        /\ phase' = phase /\ stream' = stream /\ pos' = pos
    BY <1>3 DEF SubmitNext, DropNext
  <2>2. queue \in Seq(OrderSpecs \union StrayOrders)
    BY DEF LoopInv, BatchInv
  <2>3. OrdersLeft' < OrdersLeft
    BY <2>1, <2>2 DEF OrdersLeft
  <2>4. PartsLeft' = PartsLeft /\ EventsLeft' = EventsLeft
    BY <2>1 DEF PartsLeft, EventsLeft
  <2> QED BY <2>3, <2>4 DEF Closer
<1>4. ASSUME NEW i \in Instruments, SettleNext(i)
      PROVE  Closer
  <2> DEFINE open == {j \in Instruments : ~settled[j]}
  <2>1. /\ phase = "settle" /\ ~settled[i] /\ settled' = [settled EXCEPT ![i] = TRUE]
        /\ UNCHANGED <<phase, stream, pos, queue>>
    BY <1>4 DEF SettleNext, SettleEngine, loopVars
  <2>2. {j \in Instruments : ~settled'[j]} = open \ {i} /\ i \in open
    BY <2>1 DEF Inv, TypeOK
  <2>3. IsFiniteSet(open)
    BY <2>1, InstrumentsListed, FS_Subset DEF Started
  <2> HIDE DEF open
  <2>4. Cardinality(open \ {i}) = Cardinality(open) - 1 /\ Cardinality(open) \in Nat
    BY <2>2, <2>3, FS_RemoveElement, FS_CardinalityType
  <2>5. EnginesLeft' < EnginesLeft
    BY <2>2, <2>4 DEF EnginesLeft, open
  <2>6. PartsLeft' = PartsLeft /\ EventsLeft' = EventsLeft /\ OrdersLeft' = OrdersLeft
    BY <2>1 DEF PartsLeft, EventsLeft, OrdersLeft
  <2> QED BY <2>5, <2>6 DEF Closer
<1> QED BY <1>1, <1>2, <1>3, <1>4 DEF RunNext

(***************************************************************************)
(* A run takes finitely many steps, for any request, any strategy and any  *)
(* number of instruments: each step brings a measure of naturals down, in  *)
(* lexicographic order.  No handler, no batch and no settlement can keep   *)
(* the loop going.  (That it can always go on until it is done is the      *)
(* other half of its termination.)                                         *)
(***************************************************************************)
THEOREM EveryStepIsCloserToTheEnd ==
    RunSpec => /\ [](/\ PartsLeft \in Nat /\ EventsLeft \in Nat /\ OrdersLeft \in Nat
                     /\ Started => EnginesLeft \in Nat)
               /\ [][Closer]_simVars
<1>1. Inv /\ LoopInv /\ [RunNext]_simVars => [Closer]_simVars
  BY StepsAreCloser
<1> QED BY <1>1, LeftIsNatural, LoopInvariant, PTL DEF RunSpec

-----------------------------------------------------------------------------
(* The dates of orders and records *)

(* A record dated inside the run, but for the latency of a book execution. *)
DatedInRun(r) ==
    r.ts \in TimeStart..(MaxTime + (IF r.via = "book" THEN Latency ELSE 0))

RecordsInv ==
    /\ \A n \in Submitted : orders[n].ts \in TimeStart..MaxTime
    /\ \A n \in OrderIds : log[n] # <<>> => DatedInRun(log[n][1])

(* Records of orders without one are dated in the run if their stamp is. *)
LEMMA StampsKept ==
    ASSUME RecordsInv, NEW fills, NEW rejects, NEW ts, NEW via,
           Record(fills, rejects, ts, via),
           \A n \in DOMAIN fills \union rejects : log[n] = <<>>,
           DOMAIN fills \union rejects # {} => DatedInRun([ts |-> ts, via |-> via])
    PROVE  \A n \in OrderIds : log'[n] # <<>> => DatedInRun(log'[n][1])
<1> SUFFICES ASSUME NEW n \in OrderIds, log'[n] # <<>>
             PROVE  DatedInRun(log'[n][1])
  OBVIOUS
<1>1. CASE n \in DOMAIN fills \union rejects
  <2>1. PICK r : log'[n] = Append(log[n], r) /\ r.ts = ts /\ r.via = via
    BY <1>1 DEF Record, FillRecord, RejectRecord
  <2>2. log'[n][1] = r
    BY <1>1, <2>1, FirstRecord
  <2> QED BY <1>1, <2>1, <2>2 DEF DatedInRun
<1>2. CASE n \notin DOMAIN fills \union rejects
  <2>1. log'[n] = log[n]
    BY <1>2 DEF Record
  <2> QED BY <2>1 DEF RecordsInv
<1> QED BY <1>1, <1>2

(* Data dated before the run's start finds no order to fill. *)
LEMMA EventsKeepDates ==
    ASSUME Inv, TimeInv, RecordsInv, NEW i \in Instruments, NEW ts \in 0..MaxTime, NEW p,
           HandleEvent(i, ts, p)
    PROVE  RecordsInv'
<1> DEFINE held == pending[i] \union resting[i]
<1>1. ASSUME NEW fills, NEW rejects, NEW via \in {"bar", "quote", "trade"},
             Record(fills, rejects, ts, via), UNCHANGED <<count, orders>>,
             DOMAIN fills \union rejects \subseteq held,
             \A n \in DOMAIN fills \union rejects : ActiveTs(n) <= ts
      PROVE  RecordsInv'
  <2>1. \A n \in DOMAIN fills \union rejects : log[n] = <<>>
    BY <1>1, HeldIsUnrecorded
  <2>2. ASSUME NEW n \in DOMAIN fills \union rejects
        PROVE  DatedInRun([ts |-> ts, via |-> via])
    <3>1. n \in Submitted
      BY <1>1, HeldIsSubmitted
    <3>2. orders[n].ts \in TimeStart..MaxTime
      BY <3>1 DEF RecordsInv
    <3>3. orders[n].ts + Latency <= ts
      BY <1>1 DEF ActiveTs
    <3>4. TimeStart \in Nat /\ Latency \in Nat /\ MaxTime \in Nat
      BY EngineAssumption, RunAssumption DEF Timestamp
    <3>5. TimeStart <= ts /\ ts <= MaxTime /\ ts \in Int
      BY <3>2, <3>3, <3>4
    <3> QED BY <1>1, <3>4, <3>5 DEF DatedInRun
  <2>3. \A n \in OrderIds : log'[n] # <<>> => DatedInRun(log'[n][1])
    BY <1>1, <2>1, <2>2, StampsKept
  <2> QED BY <1>1, <2>3 DEF RecordsInv, Submitted
<1>2. ASSUME UNCHANGED <<log, count, orders>>
      PROVE  RecordsInv'
  BY <1>2 DEF RecordsInv, Submitted
<1> HIDE DEF held
<1>3. CASE p.type \in {"Bar", "DerivedBar"} /\ HandleBar(i, ts, p)
  <2>1. Record(BarFills(i, ts, p), BarExpired(i, ts, p), ts, "bar")
        /\ UNCHANGED <<count, orders>>
    BY <1>3, BarStep
  <2>2. \A n \in DOMAIN BarFills(i, ts, p) \union BarExpired(i, ts, p) :
           n \in held /\ ActiveTs(n) <= ts
    BY DEF BarFills, BarExpired, BarBought, BarReached, BarChecked, Eligible, held
  <2> QED BY <1>1, <2>1, <2>2
<1>4. CASE p.type = "Quote" /\ HandleQuote(i, ts, p)
  <2>1. Record(QuoteFills(i, ts, p), {}, ts, "quote") /\ UNCHANGED <<count, orders>>
    BY <1>4, QuoteStep
  <2>2. \A n \in DOMAIN QuoteFills(i, ts, p) \union {} : n \in held /\ ActiveTs(n) <= ts
    BY DEF QuoteFills, Eligible, held
  <2> QED BY <1>1, <2>1, <2>2
<1>5. CASE p.type = "Trade" /\ HandleTrade(i, ts, p.price)
  <2>1. Record(TradeFills(i, ts, p.price), {}, ts, "trade") /\ UNCHANGED <<count, orders>>
    BY <1>5, TradeStep
  <2>2. \A n \in DOMAIN TradeFills(i, ts, p.price) \union {} :
           n \in held /\ ActiveTs(n) <= ts
    BY DEF TradeFills, TradeReached, Eligible, held
  <2> QED BY <1>1, <2>1, <2>2
<1>6. ASSUME NEW newBook, HandleBook(i, newBook)
      PROVE  RecordsInv'
  BY <1>2, <1>6 DEF HandleBook, orderVars, runVars
<1>7. CASE HandleMark(i, p)
  BY <1>2, <1>7 DEF HandleMark, orderVars, runVars
<1>8. CASE HandleStatus(i, p.status)
  BY <1>2, <1>8 DEF HandleStatus, orderVars, runVars
<1>9. CASE HandleFees(i, p)
  BY <1>2, <1>9 DEF HandleFees, orderVars, runVars
<1>10. CASE HandleSignal(i, p.type)
  BY <1>2, <1>10 DEF HandleSignal, orderVars, runVars
<1> QED BY <1>3, <1>4, <1>5, <1>6, <1>7, <1>8, <1>9, <1>10 DEF HandleEvent

(* An order is decided, and executed or refused, at the clock's time. *)
LEMMA SubmitKeepsDates ==
    ASSUME Inv, RecordsInv, NEW order \in Order, SubmitOrder(order),
           now \in TimeStart..MaxTime
    PROVE  RecordsInv'
<1> DEFINE n == count + 1
           one == [m \in {n} |-> ImmediateFill(order.instrument, order)]
<1>1. /\ n \in OrderIds /\ log[n] = <<>> /\ Submitted' = Submitted \union {n}
      /\ \A m \in OrderIds \ {n} : orders'[m] = orders[m]
  BY SubmitStores
<1>2. orders'[n].ts = now
  BY <1>1 DEF SubmitOrder, Inv, TypeOK
<1>3. \A m \in Submitted : m \in OrderIds
  BY EngineAssumption DEF Submitted, OrderIds, Inv, TypeOK
<1>4. \A m \in Submitted' : orders'[m].ts \in TimeStart..MaxTime
  BY <1>1, <1>2, <1>3 DEF RecordsInv
<1>5. \/ log' = log
      \/ \E via \in {"halted", "unfillable"} : Record(<<>>, {n}, now, via)
      \/ Record(one, {}, now + Latency, "book")
  BY DEF SubmitOrder, Conclude, Buffer, Rest
<1>6. DOMAIN one = {n} /\ DOMAIN <<>> = {}
  OBVIOUS
<1>7. now \in Nat /\ Latency \in Nat /\ TimeStart \in Nat /\ MaxTime \in Nat
  BY EngineAssumption, RunAssumption DEF Inv, TypeOK, Timestamp
<1>8. /\ DatedInRun([ts |-> now + Latency, via |-> "book"])
      /\ \A via \in {"halted", "unfillable"} : DatedInRun([ts |-> now, via |-> via])
  BY <1>7 DEF DatedInRun
<1> HIDE DEF n, one
<1>9. \A m \in OrderIds : log'[m] # <<>> => DatedInRun(log'[m][1])
  <2>1. CASE log' = log
    BY <2>1 DEF RecordsInv
  <2>2. ASSUME NEW via \in {"halted", "unfillable"}, Record(<<>>, {n}, now, via)
        PROVE  \A m \in OrderIds : log'[m] # <<>> => DatedInRun(log'[m][1])
    <3>1. \A m \in DOMAIN <<>> \union {n} : log[m] = <<>>
      BY <1>1
    <3> QED BY <1>8, <2>2, <3>1, StampsKept
  <2>3. CASE Record(one, {}, now + Latency, "book")
    BY <1>1, <1>6, <1>8, <2>3, StampsKept
  <2> QED BY <1>5, <2>1, <2>2, <2>3
<1> QED BY <1>4, <1>9 DEF RecordsInv

(* The settlement is dated at the run's end. *)
LEMMA SettleKeepsDates ==
    ASSUME Inv, RecordsInv, NEW i \in Instruments, SettleEngine(i), now = MaxTime,
           TimeStart <= MaxTime
    PROVE  RecordsInv'
<1>1. UNCHANGED <<count, orders>>
  BY DEF SettleEngine
<1>2. CASE UNCHANGED orderVars
  BY <1>1, <1>2 DEF RecordsInv, Submitted, orderVars
<1>3. CASE Record(SettleFills(i), resting[i], now, "settle")
  <2>1. DOMAIN SettleFills(i) = pending[i]
    BY DEF SettleFills
  <2>2. \A n \in DOMAIN SettleFills(i) \union resting[i] : log[n] = <<>>
    BY <2>1, HeldIsUnrecorded
  <2>3. DatedInRun([ts |-> now, via |-> "settle"])
    BY EngineAssumption, RunAssumption DEF DatedInRun, Timestamp
  <2>4. \A n \in OrderIds : log'[n] # <<>> => DatedInRun(log'[n][1])
    BY <1>3, <2>2, <2>3, StampsKept
  <2> QED BY <1>1, <2>4 DEF RecordsInv, Submitted
<1> QED BY <1>2, <1>3 DEF SettleEngine

(* Every step that records or decides anything does so inside the run. *)
LEMMA NextRecords ==
    ASSUME Inv, LoopInv, TimeInv, RecordsInv, [RunNext]_simVars
    PROVE  RecordsInv'
<1>1. ASSUME UNCHANGED <<log, count, orders>>
      PROVE  RecordsInv'
  BY <1>1 DEF RecordsInv, Submitted
<1>2. CASE ProcessEvent
  <2>1. TakeEvent /\ stream[pos].instrument \in Instruments
        /\ HandleEvent(stream[pos].instrument, stream[pos].ts, stream[pos].payload)
    BY <1>2 DEF ProcessEvent
  <2>2. stream[pos].ts \in 0..MaxTime
    BY <2>1, TakenEvent
  <2> QED BY <2>1, <2>2, EventsKeepDates
<1>3. CASE SubmitNext
  <2>1. queue \in Seq(OrderSpecs \union StrayOrders) /\ queue # <<>>
        /\ phase = "events" /\ now >= TimeStart /\ SubmitOrder(Head(queue))
    BY <1>3 DEF SubmitNext, LoopInv, BatchInv
  <2>2. Head(queue) \in Order
    <3>1. Head(queue) \in OrderSpecs \union StrayOrders
      BY <2>1
    <3> QED BY <1>3, <3>1, EngineAssumption, RunAssumption DEF SubmitNext
  <2>3. now \in TimeStart..MaxTime
    <3>1. now <= MaxTime
      BY <2>1 DEF LoopInv, ClockInv
    <3> QED BY <2>1, <3>1, EngineAssumption, RunAssumption DEF Timestamp, Inv, TypeOK
  <2> QED BY <2>1, <2>2, <2>3, SubmitKeepsDates
<1>4. ASSUME NEW i \in Instruments, SettleNext(i)
      PROVE  RecordsInv'
  <2>1. SettleEngine(i) /\ now = MaxTime /\ phase = "settle"
    BY <1>4 DEF SettleNext, LoopInv, StreamInv
  <2>2. TimeStart <= MaxTime
    <3>1. verdict = Accept /\ verdict \in Verdicts(request) /\ request \in Requests
      BY <2>1 DEF LoopInv, RequestInv
    <3>2. TimeStart < MaxTime
      BY <3>1, AcceptedRequest
    <3> QED BY <3>2, EngineAssumption, RunAssumption DEF Timestamp
  <2> QED BY <2>1, <2>2, SettleKeepsDates
<1>5. CASE New \/ Execute \/ SkipEvent \/ DropNext \/ EndEvents \/ Finish \/ UNCHANGED simVars
  BY <1>1, <1>5 DEF New, Execute, SkipEvent, DropNext, EndEvents, Finish, simVars,
     vars, orderVars, runVars
<1> QED BY <1>2, <1>3, <1>4, <1>5 DEF RunNext

(***************************************************************************)
(* No order is decided and nothing is recorded outside the run.            *)
(***************************************************************************)
THEOREM DatesAreInsideTheRun == RunSpec => []RecordsInsideRun
<1>1. RunInit => RecordsInv
  BY DEF RunInit, Init, RecordsInv, Submitted
<1>2. Inv /\ LoopInv /\ TimeInv /\ RecordsInv /\ [RunNext]_simVars => RecordsInv'
  BY NextRecords
<1>3. Inv /\ RecordsInv => RecordsInsideRun
  <2> SUFFICES ASSUME Inv, RecordsInv, NEW n \in Submitted
               PROVE  /\ orders[n].ts \in TimeStart..MaxTime
                      /\ Concluded(n) => DatedInRun(log[n][1])
    BY DEF RecordsInsideRun, DatedInRun
  <2>1. n \in OrderIds
    BY EngineAssumption DEF Submitted, OrderIds, Inv, TypeOK
  <2> QED BY <2>1 DEF RecordsInv, Concluded
<1>4. EngineInv => TimeInv
  BY DEF EngineInv, LatencyInv
<1> QED BY <1>1, <1>2, <1>3, <1>4, LoopInvariant, EnginesInTheRun, PTL DEF RunSpec

-----------------------------------------------------------------------------
(* The order of the replay *)

(* Of two events with different keys exactly one goes before the other. *)
LEMMA KeysDecide ==
    ASSUME NEW e \in Events, NEW f \in Events, Key(e) # Key(f)
    PROVE  Before(e, f) <=> ~Before(f, e)
<1>1. /\ e.ts \in Nat /\ e.seq \in Nat /\ e.instrument \in Names
      /\ f.ts \in Nat /\ f.seq \in Nat /\ f.instrument \in Names
  BY DEF Events, Event, Timestamp
<1>2. /\ IdRank[e.instrument] \in Nat /\ IdRank[f.instrument] \in Nat
      /\ IdRank[e.instrument] = IdRank[f.instrument] <=> e.instrument = f.instrument
  BY <1>1, IdRankAssumption
<1>3. ~(e.ts = f.ts /\ e.instrument = f.instrument /\ e.seq = f.seq)
  BY DEF Key
<1> QED BY <1>1, <1>2, <1>3 DEF Before

(* Only the identity rearranges 1..n and keeps the order. *)
LEMMA IncreasingIsIdentity ==
    ASSUME NEW n \in Nat, NEW f \in Bijection(1..n, 1..n),
           \A p, q \in 1..n : p < q => f[p] < f[q]
    PROVE  \A p \in 1..n : f[p] = p
<1> DEFINE S == {p \in 1..n : f[p] # p}
<1>0. /\ \A p \in 1..n : f[p] \in 1..n
      /\ \A p, q \in 1..n : f[p] = f[q] => p = q
      /\ \A k \in 1..n : \E p \in 1..n : f[p] = k
  BY DEF Bijection, Injection, Surjection, IsInjective
<1> SUFFICES ASSUME S # {} PROVE FALSE
  OBVIOUS
<1>1. S \in SUBSET Nat
  OBVIOUS
<1> DEFINE m == Min(S)
<1>2. m \in S /\ \A p \in S : m <= p
  <2> HIDE DEF S
  <2> QED BY <1>1, MinIsLeast
<1>3. m \in 1..n /\ f[m] # m
  BY <1>2
<1>4. \A p \in 1..n : p < m => f[p] = p
  BY <1>2, <1>3
<1> HIDE DEF m, S
<1>5. f[m] > m
  <2>1. f[m] \in 1..n
    BY <1>0, <1>3
  <2>2. f[m] < m => f[f[m]] = f[m]
    BY <1>4, <2>1
  <2>3. ~(f[m] < m)
    BY <1>0, <1>3, <2>1, <2>2
  <2> QED BY <1>3, <2>1, <2>3
<1>6. PICK q \in 1..n : f[q] = m
  BY <1>0, <1>3
<1>7. ~(q < m) /\ q # m
  BY <1>3, <1>4, <1>6
<1>8. m < q
  BY <1>3, <1>7
<1>9. f[m] < f[q]
  BY <1>3, <1>8
<1>10. f[m] \in 1..n
  BY <1>0, <1>3
<1> QED BY <1>3, <1>5, <1>6, <1>9, <1>10

(* A sorted list without equal keys is in strict order. *)
LEMMA DistinctKeysAreOrdered ==
    ASSUME NEW events \in Seq(Events), NEW sorted \in Seq(Events),
           DOMAIN sorted = DOMAIN events, DistinctKeys(sorted),
           NEW at, StableSort(events, sorted, at),
           NEW p \in DOMAIN events, NEW q \in DOMAIN events, p < q
    PROVE  Before(sorted[p], sorted[q])
<1>1. Ahead(events, at[p], at[q]) /\ sorted[p] = events[at[p]] /\ sorted[q] = events[at[q]]
  BY DEF StableSort
<1>2. p \in Nat /\ q \in Nat /\ p # q /\ sorted[p] \in Events /\ sorted[q] \in Events
  OBVIOUS
<1>3. Key(sorted[p]) # Key(sorted[q])
  BY <1>2 DEF DistinctKeys
<1> QED BY <1>1, <1>2, <1>3, KeysDecide DEF Ahead

(* A list in strict order is what the sort makes of any shuffle of it. *)
LEMMA SortUndoesShuffles ==
    ASSUME NEW events \in Seq(Events),
           \A p, q \in DOMAIN events : p < q => Before(events[p], events[q]),
           DistinctKeys(events),
           NEW pi \in Bijection(DOMAIN events, DOMAIN events)
    PROVE  SortedStream([k \in DOMAIN events |-> events[pi[k]]]) = events
<1> DEFINE n == Len(events)
           D == DOMAIN events
           list == [k \in D |-> events[pi[k]]]
<1>1. n \in Nat /\ D = 1..n /\ \A k \in D : events[k] \in Events
  OBVIOUS
<1>2. /\ \A k \in D : pi[k] \in D
      /\ \A j, k \in D : pi[j] = pi[k] => j = k
      /\ \A k \in D : \E j \in D : pi[j] = k
  BY DEF Bijection, Injection, Surjection, IsInjective
<1> HIDE DEF n, D
<1>3. list \in Seq(Events) /\ DOMAIN list = D /\ \A k \in D : list[k] = events[pi[k]]
  BY <1>1, <1>2
<1> HIDE DEF list
<1> DEFINE sorted == SortedStream(list)
<1>4. sorted \in Seq(Events) /\ DOMAIN sorted = D
  <2>1. sorted \in Seq(Events) /\ Len(sorted) = Len(list)
    BY <1>3, StreamIsAStableSort
  <2> HIDE DEF sorted
  <2> QED BY <1>3, <2>1
<1>5. PICK at : StableSort(list, sorted, at)
  BY <1>3, StreamIsAStableSort
<1> HIDE DEF sorted
<1>6. /\ \A k \in D : at[k] \in D
      /\ \A j, k \in D : at[j] = at[k] => j = k
      /\ \A k \in D : \E j \in D : at[j] = k
  BY <1>3, <1>5 DEF StableSort, Bijection, Injection, Surjection, IsInjective
<1> DEFINE f == [p \in D |-> pi[at[p]]]
<1>7. f \in Bijection(D, D)
  <2>1. f \in [D -> D]
    BY <1>2, <1>6
  <2>2. \A j, k \in D : f[j] = f[k] => j = k
    BY <1>2, <1>6
  <2>3. \A k \in D : \E j \in D : f[j] = k
    <3> SUFFICES ASSUME NEW k \in D PROVE \E j \in D : f[j] = k
      OBVIOUS
    <3>1. PICK m \in D : pi[m] = k
      BY <1>2
    <3>2. PICK j \in D : at[j] = m
      BY <1>6
    <3> QED BY <3>1, <3>2
  <2> HIDE DEF f
  <2> QED BY <2>1, <2>2, <2>3 DEF Bijection, Injection, Surjection, IsInjective
<1>8. \A p \in D : sorted[p] = events[f[p]] /\ f[p] \in D
  BY <1>2, <1>3, <1>5, <1>6 DEF StableSort
<1>9. \A p, q \in D : p # q => f[p] # f[q]
  BY <1>2, <1>6
<1> HIDE DEF f
<1>10. DistinctKeys(sorted)
  <2>1. \A p, q \in D : p = q \/ Key(events[p]) # Key(events[q])
    BY DEF DistinctKeys, D
  <2> QED BY <1>4, <1>8, <1>9, <2>1 DEF DistinctKeys
<1>11. ASSUME NEW p \in D, NEW q \in D, p < q
       PROVE  f[p] < f[q]
  <2>1. Before(events[f[p]], events[f[q]])
    BY <1>3, <1>4, <1>5, <1>8, <1>10, <1>11, DistinctKeysAreOrdered
  <2>2. f[p] \in 1..n /\ f[q] \in 1..n /\ f[p] # f[q]
    BY <1>1, <1>8, <1>9, <1>11
  <2>3. ~(f[q] < f[p])
    <3>1. Key(events[f[p]]) # Key(events[f[q]])
      BY <1>8, <2>2 DEF DistinctKeys, D
    <3>2. ~Before(events[f[q]], events[f[p]])
      BY <1>1, <1>8, <2>1, <3>1, KeysDecide
    <3> QED BY <1>8, <3>2 DEF D
  <2> QED BY <2>2, <2>3
<1>12. \A p \in D : f[p] = p
  BY <1>1, <1>7, <1>11, IncreasingIsIdentity
<1>13. \A p \in D : sorted[p] = events[p]
  BY <1>8, <1>12
<1>14. sorted = events
  <2>1. sorted = [p \in D |-> sorted[p]] /\ events = [p \in D |-> events[p]]
    BY <1>4 DEF D
  <2> QED BY <1>13, <2>1
<1> QED BY <1>14 DEF sorted, list, D

(***************************************************************************)
(* The replay does not depend on the order in which the request lists its  *)
(* events, as long as no two of them have one key.                         *)
(***************************************************************************)
THEOREM TheReplayIsCanonical == RunSpec => []ReplayIsCanonical
<1>1. LoopInv => ReplayIsCanonical
  <2> SUFFICES ASSUME LoopInv, phase = "events", DistinctKeys(stream),
                      NEW pi \in Bijection(DOMAIN stream, DOMAIN stream)
               PROVE  SortedStream([k \in DOMAIN stream |-> stream[pi[k]]]) = stream
    BY DEF ReplayIsCanonical
  <2>1. stream = SortedStream(request.events)
    BY DEF LoopInv, StreamInv, Started
  <2>2. request.events \in Seq(Events)
    BY RunAssumption DEF LoopInv, RequestInv, Events
  <2>3. stream \in Seq(Events) /\ Len(stream) = Len(request.events)
    BY <2>1, <2>2, StreamIsAStableSort
  <2>4. PICK at : StableSort(request.events, stream, at)
    BY <2>1, <2>2, StreamIsAStableSort
  <2>5. DOMAIN stream = DOMAIN request.events
    BY <2>2, <2>3
  <2>6. \A p, q \in DOMAIN stream : p < q => Before(stream[p], stream[q])
    BY <2>2, <2>3, <2>4, <2>5, DistinctKeysAreOrdered
  <2> QED BY <2>3, <2>6, SortUndoesShuffles
<1> QED BY <1>1, LoopInvariant, PTL
=============================================================================
