----------------------------- MODULE EventStream -----------------------------
(***************************************************************************)
(* The ordered event stream of a run (core/event_stream.rs): the events of *)
(* the request sorted once by (ts_event, instrument_id, seq) and then read *)
(* from front to back.  The sort is stable.                                *)
(***************************************************************************)
EXTENDS Contracts, FiniteSets

CONSTANT IdRank     \* the lexicographic rank of every id that events may carry

Names == DOMAIN IdRank

ASSUME IdRankAssumption ==
    /\ Instruments \subseteq Names
    /\ \A x, y \in Names : IdRank[x] \in Nat /\ (IdRank[x] = IdRank[y] => x = y)

Event(Payload) == [ts : Timestamp, instrument : Names, seq : Nat, payload : Payload]

(* Fault: the sequence number does not take part in the comparison. *)
FaultIgnoreSeq(e, f) ==
    \/ e.ts < f.ts
    \/ e.ts = f.ts /\ IdRank[e.instrument] < IdRank[f.instrument]

(* The comparison the events are sorted by. *)
Before(e, f) ==
    \/ e.ts < f.ts
    \/ e.ts = f.ts /\ IdRank[e.instrument] < IdRank[f.instrument]
    \/ e.ts = f.ts /\ e.instrument = f.instrument /\ e.seq < f.seq

(* Where the k-th event of the request goes: behind all that precede it.   *)
(* Events that compare equal keep the order they were given in.            *)
Place(events, k) ==
    1 + Cardinality({ j \in DOMAIN events :
            \/ Before(events[j], events[k])
            \/ ~Before(events[k], events[j]) /\ j < k })

(* Fault: the events are taken as they come. *)
FaultUnsorted(events) == events

SortedStream(events) ==
    [p \in DOMAIN events |-> events[CHOOSE k \in DOMAIN events : Place(events, k) = p]]
=============================================================================
