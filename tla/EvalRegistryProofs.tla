------------------------- MODULE EvalRegistryProofs -------------------------
(***************************************************************************)
(* Single flight, the subscriber count, the ledger of what is kept and the *)
(* pins of EvalRegistry, for any callers, keys, sizes and cap.             *)
(*                                                                         *)
(* That two flights never run for one key follows from the map naming      *)
(* exactly the flights that run (FlightsNamed).  That the count is right   *)
(* needs in addition that no caller holds a flight that was forgotten      *)
(* (HoldersKeepFlights): a name that is used again starts with no holder.  *)
(***************************************************************************)
EXTENDS EvalRegistry, CollectionFacts

(* Holders are callers, so they can be counted.                            *)
LEMMA HoldersFinite ==
    \A f : IsFiniteSet(Holders(f)) /\ Cardinality(Holders(f)) \in Nat
<1> TAKE f
<1>1. Holders(f) \subseteq Callers
  BY DEF Holders
<1>2. QED
  BY <1>1, CallersAssumption, FS_Subset, FS_CardinalityType

(* A caller that takes hold of a flight is one holder more of it, and      *)
(* leaves the other flights' holders alone.                                *)
LEMMA HolderAdded ==
    ASSUME FlightsTyped, NEW c \in Callers, NEW f \in Flights,
           on[c] = NoFlight, on' = [on EXCEPT ![c] = f]
    PROVE  /\ Cardinality(Holders(f)') = Cardinality(Holders(f)) + 1
           /\ \A g \in Flights : g # f => Holders(g)' = Holders(g)
<1>0. NoFlight \notin Flights
  BY SizeAssumption
<1>1. Holders(f)' = Holders(f) \union {c} /\ c \notin Holders(f)
  BY <1>0 DEF Holders, FlightsTyped
<1>2. \A g \in Flights : g # f => Holders(g)' = Holders(g)
  BY <1>0 DEF Holders, FlightsTyped
<1>3. QED
  BY <1>1, <1>2, HoldersFinite, FS_AddElement

(* A caller that lets its flight go is one holder less of it.              *)
LEMMA HolderRemoved ==
    ASSUME FlightsTyped, NEW c \in Callers, on[c] \in Flights,
           on' = [on EXCEPT ![c] = NoFlight]
    PROVE  /\ Cardinality(Holders(on[c])) - 1 \in Nat
           /\ \A g \in Flights :
                 Cardinality(Holders(g)') =
                     IF g = on[c] THEN Cardinality(Holders(g)) - 1 ELSE Cardinality(Holders(g))
<1>0. NoFlight \notin Flights
  BY SizeAssumption
<1> DEFINE f == on[c]
<1>1. c \in Holders(f)
  BY DEF Holders
<1>2. Cardinality(Holders(f) \ {c}) = Cardinality(Holders(f)) - 1
      /\ Cardinality(Holders(f) \ {c}) \in Nat
  <2>1. IsFiniteSet(Holders(f))
    BY HoldersFinite
  <2>2. IsFiniteSet(Holders(f) \ {c})
        /\ Cardinality(Holders(f) \ {c}) = Cardinality(Holders(f)) - 1
    BY <2>1, <1>1, FS_RemoveElement
  <2>3. QED
    BY <2>2, FS_CardinalityType
<1>3. \A g \in Flights :
         Holders(g)' = IF g = f THEN Holders(g) \ {c} ELSE Holders(g)
  BY <1>0 DEF Holders, FlightsTyped
<1>4. QED
  BY <1>2, <1>3

(* A flight's name that is not in use is a flight record.                  *)
LEMMA UnusedTyped ==
    /\ Unused \in [key : Keys, stage : Stages, outcome : Outcomes, subscribers : Nat]
    /\ Unused.stage = "unused" /\ Unused.subscribers = 0
BY SizeAssumption DEF Unused, Stages, Outcomes

(* The new registry satisfies the invariant.                               *)
LEMMA InitIInv == Init => IInv
<1> SUFFICES ASSUME Init PROVE IInv
  OBVIOUS
<1>0. NoFlight \notin Flights
  BY SizeAssumption
<1>1. FlightsTyped
  BY UnusedTyped DEF Init, FlightsTyped, Attached
<1>2. HoldersKeepFlights
  BY DEF Init, HoldersKeepFlights
<1>3. FlightsNamed
  BY UnusedTyped DEF Init, FlightsNamed, InFlight, Live
<1>4. SubscribersCounted
  BY UnusedTyped DEF Init, SubscribersCounted
<1>5. QED
  BY <1>1, <1>2, <1>3, <1>4 DEF IInv

(* What only the kept results, the pins and the order see: nothing is      *)
(* added to what is kept.                                                  *)
LEMMA KeptOnly ==
    ASSUME IInv, UNCHANGED <<flights, flight, pc, on>>, done' \subseteq done
    PROVE  IInv'
<1>1. \A f : Holders(f)' = Holders(f)
  BY DEF Holders
<1>2. FlightsTyped' /\ HoldersKeepFlights' /\ FlightsNamed'
  BY DEF IInv, FlightsTyped, HoldersKeepFlights, FlightsNamed, InFlight, Live
<1>3. SubscribersCounted'
  BY <1>1 DEF IInv, SubscribersCounted
<1>4. QED
  BY <1>2, <1>3 DEF IInv

(* A caller attaches to the flight that runs.                              *)
LEMMA RunningIInv ==
    ASSUME IInv, NEW c \in Callers, NEW k \in Keys, NEW where \in Attached,
           pc[c] = "idle", Running(c, k, where)
    PROVE  IInv'
<1>0. NoFlight \notin Flights
  BY SizeAssumption
<1>1. PICK f \in Flights : f = flights[k] /\ Live(f) /\ on[c] = NoFlight
  BY <1>0 DEF IInv, FlightsTyped, FlightsNamed, HoldersKeepFlights, Running, InFlight
<1>2. /\ Cardinality(Holders(f)') = Cardinality(Holders(f)) + 1
      /\ \A g \in Flights : g # f => Holders(g)' = Holders(g)
  <2>1. FlightsTyped /\ on' = [on EXCEPT ![c] = f]
    BY <1>1 DEF IInv, Running
  <2>2. QED
    BY <1>1, <2>1, HolderAdded
<1>3. FlightsTyped'
  BY <1>1 DEF IInv, FlightsTyped, Running, Joined, inner
<1>4. \A g \in Flights : flight'[g].stage = flight[g].stage /\ flight'[g].key = flight[g].key
  BY <1>1 DEF IInv, FlightsTyped, Running
<1>5. HoldersKeepFlights'
  BY <1>0, <1>1, <1>4
  DEF IInv, FlightsTyped, HoldersKeepFlights, Running, Live, Attached
<1>6. FlightsNamed'
  BY <1>0, <1>1, <1>4 DEF IInv, FlightsTyped, FlightsNamed, Running, InFlight, Live, inner
<1>7. SubscribersCounted'
  <2>1. /\ flight \in [Flights -> [key : Keys, stage : Stages, outcome : Outcomes, subscribers : Nat]]
        /\ SubscribersCounted
        /\ flight' = [flight EXCEPT ![f].subscribers =
                         IF flight[f].stage = "evaluating" THEN @ + 1 ELSE 0]
    BY <1>1 DEF IInv, FlightsTyped, Running, Joined
  <2> SUFFICES ASSUME NEW g \in Flights, flight'[g].stage = "evaluating"
               PROVE  flight'[g].subscribers = Cardinality(Holders(g)')
    BY DEF SubscribersCounted
  <2>2. CASE g = f
    BY <1>1, <1>2, <1>4, <2>1, <2>2 DEF SubscribersCounted
  <2>3. CASE g # f
    BY <1>1, <1>2, <1>4, <2>1, <2>3 DEF SubscribersCounted
  <2>4. QED
    BY <2>2, <2>3
<1>8. QED
  BY <1>3, <1>5, <1>6, <1>7 DEF IInv

(* The first caller for a key starts a flight on a name nobody holds.      *)
LEMMA LeadIInv ==
    ASSUME IInv, NEW c \in Callers, NEW k \in Keys, NEW where \in Attached,
           NEW stage \in {"evaluating", "evaluated"},
           pc[c] = "idle", Lead(c, k, where, stage)
    PROVE  IInv'
<1>0. NoFlight \notin Flights
  BY SizeAssumption
<1> DEFINE new == [key |-> k, stage |-> stage,
                   subscribers |-> IF stage = "evaluated" THEN 0 ELSE 1,
                   outcome |-> IF stage = "evaluated" THEN "error" ELSE "none"]
<1>1. PICK f \in Flights :
         /\ f = CHOOSE g \in Flights : flight[g].stage = "unused"
         /\ flight[f].stage = "unused"
  BY DEF Lead
<1>2. /\ flights' = [flights EXCEPT ![k] = f]
      /\ flight' = [flight EXCEPT ![f] = new]
      /\ on' = [on EXCEPT ![c] = f]
      /\ pc' = [pc EXCEPT ![c] = where]
      /\ done' = done /\ k \notin done /\ flights[k] = NoFlight
  BY <1>1 DEF Lead, InFlight
<1>3. on[c] = NoFlight /\ Holders(f) = {}
  BY <1>0, <1>1 DEF IInv, FlightsTyped, HoldersKeepFlights, Holders
<1>4. /\ Cardinality(Holders(f)') = 1
      /\ \A g \in Flights : g # f => Holders(g)' = Holders(g)
  <2>1. Cardinality(Holders(f)) = 0
    BY <1>3, FS_EmptySet
  <2>2. FlightsTyped /\ on' = [on EXCEPT ![c] = f]
    BY <1>2 DEF IInv
  <2> HIDE DEF new
  <2>3. /\ Cardinality(Holders(f)') = Cardinality(Holders(f)) + 1
        /\ \A g \in Flights : g # f => Holders(g)' = Holders(g)
    BY <1>1, <1>3, <2>2, HolderAdded
  <2>4. QED
    BY <2>1, <2>3
<1>5. FlightsTyped'
  BY <1>1, <1>2 DEF IInv, FlightsTyped, Stages, Outcomes
<1>6. HoldersKeepFlights'
  BY <1>0, <1>1, <1>2, <1>3 DEF IInv, FlightsTyped, HoldersKeepFlights, Attached
<1>7. FlightsNamed'
  BY <1>0, <1>1, <1>2 DEF IInv, FlightsTyped, FlightsNamed, InFlight, Live
<1>8. SubscribersCounted'
  BY <1>1, <1>2, <1>4 DEF IInv, FlightsTyped, SubscribersCounted
<1>9. QED
  BY <1>5, <1>6, <1>7, <1>8 DEF IInv

(* An evaluation ends, whatever its outcome: its flight still runs.        *)
LEMMA EvaluatedIInv ==
    ASSUME IInv, NEW f \in Flights, Cancel(f) \/ Evaluate(f)
    PROVE  IInv'
<1>1. /\ flight' \in [Flights -> [key : Keys, stage : Stages, outcome : Outcomes, subscribers : Nat]]
      /\ \A g \in Flights :
            /\ g # f => flight'[g] = flight[g]
            /\ flight'[g].key = flight[g].key
            /\ g = f => flight'[g].stage = "evaluated"
  <2>1. FlightsTyped
    BY DEF IInv
  <2>2. CASE Cancel(f)
    BY <2>1, <2>2 DEF Cancel, FlightsTyped, Stages, Outcomes
  <2>3. CASE Evaluate(f)
    <3>1. PICK outcome \in {"ok", "error"} :
             flight' = [flight EXCEPT ![f] =
                [@ EXCEPT !.stage = "evaluated", !.outcome = outcome, !.subscribers = 0]]
      BY <2>3 DEF Evaluate
    <3>2. QED
      BY <2>1, <3>1 DEF FlightsTyped, Stages, Outcomes
  <2>4. QED
    BY <2>2, <2>3
<1>2. /\ flight[f].stage = "evaluating"
      /\ UNCHANGED <<flights, done, pc, on>>
      /\ \A g : Holders(g)' = Holders(g)
  BY DEF Cancel, Evaluate, inner, Holders
<1>3. FlightsTyped'
  BY <1>1, <1>2 DEF IInv, FlightsTyped
<1>4. HoldersKeepFlights'
  BY <1>1, <1>2 DEF IInv, FlightsTyped, HoldersKeepFlights
<1>5. FlightsNamed'
  BY <1>1, <1>2 DEF IInv, FlightsTyped, FlightsNamed, InFlight, Live
<1>6. SubscribersCounted'
  BY <1>1, <1>2 DEF IInv, SubscribersCounted
<1>7. QED
  BY <1>3, <1>4, <1>5, <1>6 DEF IInv

(* The leader takes its flight out and keeps its result.                   *)
LEMMA FinishIInv ==
    ASSUME IInv, NEW f \in Flights, Finish(f)
    PROVE  IInv'
<1>0. NoFlight \notin Flights
  BY SizeAssumption
<1> DEFINE k == flight[f].key
<1>1. k \in Keys /\ flight[f].stage = "evaluated" /\ flights[k] = f
  BY DEF Finish, IInv, FlightsTyped, FlightsNamed, Live
<1>2. done' \subseteq done \union {k}
  BY DEF Finish, Admit
<1>3. /\ flights' = [flights EXCEPT ![k] = NoFlight]
      /\ UNCHANGED <<pc, on>>
      /\ \A g : Holders(g)' = Holders(g)
  BY DEF Finish, Holders
<1>4. /\ flight'[f] \in [key : Keys, stage : Stages, outcome : Outcomes, subscribers : Nat]
      /\ flight'[f].stage = "removed"
      /\ flight' \in [Flights -> [key : Keys, stage : Stages, outcome : Outcomes, subscribers : Nat]]
      /\ \A g \in Flights : g # f => flight'[g] = flight[g]
  <2>1. flight[f].outcome \in Outcomes
    BY DEF IInv, FlightsTyped
  <2>2. QED
    BY <2>1, UnusedTyped DEF Finish, IInv, FlightsTyped, Stages
<1>5. FlightsTyped'
  BY <1>1, <1>2, <1>3, <1>4 DEF IInv, FlightsTyped
<1>6. HoldersKeepFlights'
  BY <1>3, <1>4 DEF IInv, FlightsTyped, HoldersKeepFlights
<1>7. FlightsNamed'
  <2>1. \A x \in Keys : InFlight(x)' =>
           x \notin done' /\ Live(flights[x])' /\ flight'[flights'[x]].key = x
    BY <1>0, <1>1, <1>2, <1>3, <1>4 DEF IInv, FlightsTyped, FlightsNamed, InFlight, Live
  <2>2. \A g \in Flights : Live(g)' => flights'[flight'[g].key] = g
    BY <1>1, <1>3, <1>4 DEF IInv, FlightsTyped, FlightsNamed, Live
  <2>3. QED
    BY <2>1, <2>2 DEF FlightsNamed
<1>8. SubscribersCounted'
  BY <1>3, <1>4 DEF IInv, SubscribersCounted
<1>9. QED
  BY <1>5, <1>6, <1>7, <1>8 DEF IInv

(* The waiters are told; a flight nobody holds is forgotten.               *)
LEMMA AnswerIInv ==
    ASSUME IInv, NEW f \in Flights, Answer(f)
    PROVE  IInv'
<1>1. /\ flight[f].stage = "removed"
      /\ UNCHANGED <<flights, done, pc, on>>
      /\ \A g : Holders(g)' = Holders(g)
  BY DEF Answer, inner, Holders
<1>2. /\ flight' \in [Flights -> [key : Keys, stage : Stages, outcome : Outcomes, subscribers : Nat]]
      /\ \A g \in Flights : g # f => flight'[g] = flight[g]
      /\ flight'[f].stage \in {"unused", "answered"}
      /\ flight'[f].stage = "unused" => Holders(f) = {}
  BY UnusedTyped DEF Answer, IInv, FlightsTyped, Stages
<1>3. FlightsTyped'
  BY <1>1, <1>2 DEF IInv, FlightsTyped
<1>4. HoldersKeepFlights'
  BY <1>1, <1>2 DEF IInv, FlightsTyped, HoldersKeepFlights, Holders
<1>5. FlightsNamed'
  BY <1>1, <1>2 DEF IInv, FlightsTyped, FlightsNamed, InFlight, Live
<1>6. SubscribersCounted'
  BY <1>1, <1>2 DEF IInv, SubscribersCounted
<1>7. QED
  BY <1>3, <1>4, <1>5, <1>6 DEF IInv

(* A caller lets its flight go.                                            *)
LEMMA LetGoIInv ==
    ASSUME IInv, NEW c \in Callers, pc[c] # "idle", LetGo(c)
    PROVE  IInv'
<1>0. NoFlight \notin Flights
  BY SizeAssumption
<1>1. PICK f \in Flights : f = on[c]
  BY DEF IInv, FlightsTyped, HoldersKeepFlights
<1>2. /\ on' = [on EXCEPT ![c] = NoFlight]
      /\ pc' = [pc EXCEPT ![c] = "idle"]
      /\ UNCHANGED <<flights, done>>
  BY DEF LetGo, inner
<1>3. /\ Cardinality(Holders(f)) - 1 \in Nat
      /\ \A g \in Flights :
            Cardinality(Holders(g)') =
                IF g = f THEN Cardinality(Holders(g)) - 1 ELSE Cardinality(Holders(g))
  BY <1>1, <1>2, HolderRemoved DEF IInv
<1>4. flight[f].stage # "unused"
  BY <1>0, <1>1 DEF IInv, HoldersKeepFlights
<1>5. flight' = [flight EXCEPT ![f] =
          IF flight[f].stage = "answered" /\ Holders(f) = {c} THEN Unused
          ELSE [flight[f] EXCEPT !.subscribers =
                   IF flight[f].stage = "evaluating" THEN flight[f].subscribers - 1 ELSE 0]]
  BY <1>1 DEF LetGo, Left, IInv, FlightsTyped
<1>6. /\ \A g \in Flights : g # f => flight'[g] = flight[g]
      /\ flight'[f].stage = "unused" => flight[f].stage = "answered" /\ Holders(f) = {c}
      /\ flight'[f].stage # "unused" =>
             /\ flight'[f].stage = flight[f].stage
             /\ flight'[f].key = flight[f].key
      /\ flight'[f].stage = "evaluating" => flight'[f].subscribers = Cardinality(Holders(f)) - 1
      /\ flight'[f] \in [key : Keys, stage : Stages, outcome : Outcomes, subscribers : Nat]
  <2>1. flight[f].stage = "evaluating" => flight[f].subscribers = Cardinality(Holders(f))
    BY DEF IInv, SubscribersCounted
  <2>2. QED
    BY <1>3, <1>4, <1>5, <2>1, UnusedTyped DEF IInv, FlightsTyped
<1>7. FlightsTyped'
  BY <1>2, <1>5, <1>6 DEF IInv, FlightsTyped
<1>8. HoldersKeepFlights'
  BY <1>0, <1>1, <1>2, <1>6 DEF IInv, FlightsTyped, HoldersKeepFlights, Holders
<1>9. FlightsNamed'
  BY <1>2, <1>4, <1>6 DEF IInv, FlightsTyped, FlightsNamed, InFlight, Live
<1>10. SubscribersCounted'
  BY <1>3, <1>6 DEF IInv, SubscribersCounted
<1>11. QED
  BY <1>7, <1>8, <1>9, <1>10 DEF IInv

(* A caller goes on to wait, and keeps the flight it holds.                *)
LEMMA StillHeldIInv ==
    ASSUME IInv, NEW c \in Callers, Wait(c) \/ SpawnFailed(c)
    PROVE  IInv'
<1>1. /\ UNCHANGED <<flights, done, flight, on>>
      /\ pc[c] # "idle"
      /\ \E where \in Attached : pc' = [pc EXCEPT ![c] = where]
      /\ \A g : Holders(g)' = Holders(g)
  BY DEF Wait, SpawnFailed, inner, Holders, Attached
<1>2. FlightsTyped' /\ HoldersKeepFlights'
  BY <1>1 DEF IInv, FlightsTyped, HoldersKeepFlights, Attached
<1>3. FlightsNamed' /\ SubscribersCounted'
  BY <1>1 DEF IInv, FlightsNamed, SubscribersCounted, InFlight, Live
<1>4. QED
  BY <1>2, <1>3 DEF IInv

(* Every step of the registry keeps the invariant.                         *)
LEMMA NextIInv == IInv /\ [Next]_vars => IInv'
<1> SUFFICES ASSUME IInv, [Next]_vars PROVE IInv'
  OBVIOUS
<1>1. CASE UNCHANGED vars
  BY <1>1, KeptOnly DEF vars, inner
<1>2. ASSUME NEW c \in Callers, NEW k \in Keys, GetOrEvaluate(c, k) \/ Subscribe(c, k)
      PROVE  IInv'
  <2>1. CASE Kept(c, k)
    BY <2>1, KeptOnly DEF Kept
  <2>2. CASE Running(c, k, "waiting") \/ Running(c, k, "subscribed")
    BY <1>2, <2>2, RunningIInv DEF GetOrEvaluate, Subscribe, Attached
  <2>3. CASE Lead(c, k, "leading", "evaluating") \/ Lead(c, k, "subscribed", "evaluating")
             \/ Lead(c, k, "failing", "evaluated")
    BY <1>2, <2>3, LeadIInv DEF GetOrEvaluate, Subscribe, Attached
  <2>4. QED
    BY <1>2, <2>1, <2>2, <2>3 DEF GetOrEvaluate, Subscribe
<1>3. ASSUME NEW f \in Flights, Cancel(f) \/ Evaluate(f) \/ Finish(f) \/ Answer(f)
      PROVE  IInv'
  BY <1>3, EvaluatedIInv, FinishIInv, AnswerIInv
<1>4. ASSUME NEW c \in Callers, Wait(c) \/ Unsubscribe(c) \/ Return(c) \/ SpawnFailed(c)
      PROVE  IInv'
  <2>1. CASE Wait(c) \/ SpawnFailed(c)
    BY <2>1, StillHeldIInv
  <2>2. CASE Unsubscribe(c) \/ Return(c)
    BY <2>2, LetGoIInv DEF Unsubscribe, Return
  <2>3. QED
    BY <1>4, <2>1, <2>2
<1>5. CASE EvictOldest
  BY <1>5, KeptOnly DEF EvictOldest
<1>6. ASSUME NEW k \in Keys, Pin(k) \/ Unpin(k) PROVE IInv'
  BY <1>6, KeptOnly DEF Pin, Unpin
<1>7. QED
  BY <1>1, <1>2, <1>3, <1>4, <1>5, <1>6 DEF Next

(* The inductive invariant of the registry.                                *)
THEOREM EvalInvariant == Spec => []IInv
<1>1. QED
  BY InitIInv, NextIInv, PTL DEF Spec

(* A key is evaluated once at a time, and never while its result is kept.  *)
THEOREM EvalOneRunPerKey == Spec => []OneRunPerKey
<1>1. IInv => OneRunPerKey
  <2> SUFFICES ASSUME IInv PROVE OneRunPerKey
    OBVIOUS
  <2>0. NoFlight \notin Flights
    BY SizeAssumption
  <2>1. \A f \in Flights : Live(f) =>
           flight[f].key \in Keys /\ flights[flight[f].key] = f /\ flight[f].key \notin done
    BY <2>0 DEF IInv, FlightsTyped, FlightsNamed, InFlight
  <2>2. QED
    BY <2>1 DEF OneRunPerKey
<1>2. QED
  BY <1>1, EvalInvariant, PTL

(* A running flight's counter is the number of callers that hold it: what  *)
(* somebody waits for is never cancelled.                                  *)
THEOREM EvalSubscribersCounted == Spec => []SubscribersCounted
<1>1. IInv => SubscribersCounted
  BY DEF IInv
<1>2. QED
  BY <1>1, EvalInvariant, PTL

(* A pinned evaluation is evicted neither for another one nor for the      *)
(* session cache.                                                          *)
THEOREM EvalPinnedStays == Spec => PinnedStays
<1>1. [Next]_vars => [\A k \in done : pins[k] > 0 => k \in done']_vars
  <2> SUFFICES ASSUME Next, NEW k \in done, pins[k] > 0 PROVE k \in done'
    BY DEF vars
  <2>1. \A i \in Candidates : order[i] # k
    BY DEF Candidates, Evictable
  <2>2. ASSUME NEW f \in Flights, Finish(f) PROVE k \in done'
    <3>1. \A i : k \notin Older(i)
      BY <2>1 DEF Older
    <3>2. \A x : k \notin Victims(x)
      BY <3>1 DEF Victims
    <3>3. QED
      BY <2>2, <3>2 DEF Finish, Admit
  <2>3. CASE EvictOldest
    BY <2>1, <2>3 DEF EvictOldest
  <2>4. QED
    BY <2>2, <2>3 DEF Next, GetOrEvaluate, Subscribe, Kept, Running, Lead, Cancel, Evaluate,
       Answer, Wait, Unsubscribe, Return, LetGo, SpawnFailed, Pin, Unpin, inner
<1>2. QED
  BY <1>1, PTL DEF Spec, PinnedStays
---------------------------------------------------------------------------
(* The ledger: order and resident tell of exactly what is kept.            *)

Ledger ==
    /\ order \in Seq(Keys) /\ Distinct(order) /\ Elements(order) = done
    /\ resident = Bytes(done)
    /\ pins \in [Keys -> Nat]

LEMMA KeptFinite ==
    ASSUME Ledger
    PROVE  /\ IsFiniteSet(done) /\ Cardinality(done) = Len(order) /\ done \subseteq Keys
<1>1. IsFiniteSet(done) /\ Cardinality(done) = Len(order)
  BY DistinctLength DEF Ledger
<1>2. done \subseteq Keys
  BY DEF Ledger, Elements
<1>3. QED
  BY <1>1, <1>2

LEMMA BytesIsTotal == \A T : Bytes(T) = Total(Size, T)
  BY DEF Bytes, Total

(* The bytes of a finite set of evaluations, and of what is left of it.    *)
LEMMA BytesLeft ==
    ASSUME NEW S \in SUBSET Keys, IsFiniteSet(S), NEW gone \in SUBSET S
    PROVE  /\ Bytes(S) \in Nat /\ Bytes(gone) \in Nat
           /\ Bytes(S \ gone) = Bytes(S) - Bytes(gone)
<1>1. \A x \in S : Size[x] \in Nat
  BY SizeAssumption
<1>3. \A T \in SUBSET S : Total(Size, T) \in Nat
  BY <1>1, TotalOfNats
<1>4. Total(Size, S) = Total(Size, gone) + Total(Size, S \ gone)
  BY <1>1, TotalDifference
<1>5. QED
  BY <1>3, <1>4, BytesIsTotal

LEMMA BytesAdded ==
    ASSUME NEW S \in SUBSET Keys, IsFiniteSet(S), NEW k \in Keys \ S
    PROVE  Bytes(S \union {k}) = Bytes(S) + Size[k]
<1> DEFINE T == S \union {k}
<1>1. \A x \in T : Size[x] \in Nat
  BY SizeAssumption
<1>2. IsFiniteSet(T)
  BY FS_AddElement
<1>3. Total(Size, T) = Size[k] + Total(Size, T \ {k})
  BY <1>1, <1>2, TotalOfNats
<1>4. T \ {k} = S /\ Total(Size, S) \in Nat /\ Size[k] \in Nat
  BY <1>1, <1>2, TotalOfNats
<1>5. QED
  BY <1>3, <1>4, BytesIsTotal

(* What is evicted is taken from the list, the set and the sum alike.      *)
LEMMA EvictedLedger ==
    ASSUME Ledger, NEW gone \in SUBSET done
    PROVE  /\ Select(order, Keys \ gone) \in Seq(Keys)
           /\ Distinct(Select(order, Keys \ gone))
           /\ Elements(Select(order, Keys \ gone)) = done \ gone
           /\ resident - Bytes(gone) = Bytes(done \ gone)
           /\ Bytes(done \ gone) \in Nat
<1>1. done \subseteq Keys /\ IsFiniteSet(done)
  BY KeptFinite
<1>2. done \intersect (Keys \ gone) = done \ gone
  BY <1>1
<1>3. /\ Select(order, Keys \ gone) \in Seq(Keys)
      /\ Distinct(Select(order, Keys \ gone))
      /\ Elements(Select(order, Keys \ gone)) = done \ gone
  BY <1>2, SelectElements DEF Ledger
<1>4. Bytes(done \ gone) = Bytes(done) - Bytes(gone)
  BY <1>1, BytesLeft
<1>5. Bytes(done \ gone) \in Nat
  <2>1. done \ gone \in SUBSET done
    OBVIOUS
  <2>2. QED
    BY <1>1, <2>1, BytesLeft
<1>6. QED
  BY <1>3, <1>4, <1>5 DEF Ledger

LEMMA OlderKept == ASSUME Ledger, NEW i PROVE Older(i) \subseteq done
  BY DEF Ledger, Older, Candidates, Elements

LEMMA VictimsKept == ASSUME Ledger, NEW k PROVE Victims(k) \subseteq done
  BY OlderKept DEF Victims

LEMMA AdmitLedger ==
    ASSUME Ledger, NEW k \in Keys \ done, Admit(k), UNCHANGED pins
    PROVE  Ledger'
<1>1. CASE Size[k] > Cap
  BY <1>1 DEF Admit, Ledger
<1>2. CASE ~ (Size[k] > Cap)
  <2> DEFINE gone == Victims(k)
             left == Select(order, Keys \ gone)
  <2>1. /\ done' = (done \ gone) \union {k}
        /\ order' = Append(left, k)
        /\ resident' = resident - Bytes(gone) + Size[k]
    BY <1>2 DEF Admit, Remaining
  <2>2. gone \subseteq done
    BY VictimsKept
  <2> HIDE DEF gone
  <2>3. /\ left \in Seq(Keys) /\ Distinct(left) /\ Elements(left) = done \ gone
        /\ resident - Bytes(gone) = Bytes(done \ gone) /\ Bytes(done \ gone) \in Nat
    BY <2>2, EvictedLedger
  <2> HIDE DEF left
  <2>4. order' \in Seq(Keys) /\ Distinct(order') /\ Elements(order') = done'
    BY <2>1, <2>3, AppendElements
  <2>5. resident' = Bytes(done')
    <3>1. done \ gone \in SUBSET Keys /\ IsFiniteSet(done \ gone)
      BY KeptFinite, FS_Subset
    <3>2. k \in Keys \ (done \ gone)
      OBVIOUS
    <3>3. QED
      BY <2>1, <2>3, <3>1, <3>2, BytesAdded
  <2>6. QED
    BY <2>4, <2>5 DEF Ledger
<1>3. QED
  BY <1>1, <1>2

LEMMA InitLedger == Init => Ledger
<1> SUFFICES ASSUME Init PROVE Ledger
  OBVIOUS
<1>1. order = <<>> /\ done = {} /\ resident = 0 /\ pins \in [Keys -> Nat]
  BY DEF Init
<1>2. <<>> \in Seq(Keys) /\ Distinct(<<>>) /\ Elements(<<>>) = {}
  BY DEF Distinct, Elements
<1>3. Bytes({}) = 0
  BY TotalSteps, FS_EmptySet, BytesIsTotal
<1>4. QED
  BY <1>1, <1>2, <1>3 DEF Ledger

\* A hit moves its evaluation to the end of the list.
LEMMA HitLedger ==
    ASSUME Ledger, NEW c, NEW k \in Keys, Kept(c, k)
    PROVE  Ledger'
<1> DEFINE left == Select(order, Keys \ {k})
<1>1. {k} \subseteq done
  BY DEF Kept
<1>2. left \in Seq(Keys) /\ Distinct(left) /\ Elements(left) = done \ {k}
  BY <1>1, EvictedLedger
<1>3. order' = Append(left, k) /\ UNCHANGED <<done, resident, pins>>
  BY DEF Kept
<1> HIDE DEF left
<1>4. order' \in Seq(Keys) /\ Distinct(order') /\ Elements(order') = done'
  <2>1. (done \ {k}) \union {k} = done
    BY <1>1
  <2>2. /\ Append(left, k) \in Seq(Keys)
        /\ Elements(Append(left, k)) = Elements(left) \union {k}
        /\ Distinct(left) /\ k \notin Elements(left) => Distinct(Append(left, k))
    BY <1>2, AppendElements
  <2>3. QED
    BY <1>2, <1>3, <2>1, <2>2
<1>5. QED
  BY <1>3, <1>4 DEF Ledger

LEMMA NextLedger == IInv /\ Ledger /\ [Next]_vars => Ledger'
<1> SUFFICES ASSUME IInv, Ledger, [Next]_vars PROVE Ledger'
  OBVIOUS
<1>1. CASE UNCHANGED <<done, order, resident, pins>>
  BY <1>1 DEF Ledger
<1>2. ASSUME NEW c \in Callers, NEW k \in Keys, GetOrEvaluate(c, k) \/ Subscribe(c, k)
      PROVE  Ledger'
  <2>1. CASE Kept(c, k)
    BY <2>1, HitLedger
  <2>2. CASE ~ Kept(c, k)
    BY <1>1, <1>2, <2>2 DEF GetOrEvaluate, Subscribe, Running, Lead, inner
  <2>3. QED
    BY <2>1, <2>2
<1>3. ASSUME NEW f \in Flights, Finish(f) PROVE Ledger'
  <2>1. flight[f].stage = "evaluated" /\ UNCHANGED pins
    BY <1>3 DEF Finish
  <2>2. flight[f].key \in Keys \ done
    BY <2>1, SizeAssumption DEF IInv, FlightsTyped, FlightsNamed, Live, InFlight
  <2>3. CASE Admit(flight[f].key)
    BY <2>1, <2>2, <2>3, AdmitLedger
  <2>4. CASE UNCHANGED <<done, order, resident>>
    BY <1>1, <2>1, <2>4
  <2>5. QED
    BY <1>3, <2>3, <2>4 DEF Finish
<1>4. CASE EvictOldest
  <2>1. PICK i \in Candidates : /\ done' = done \ {order[i]}
                                /\ order' = Select(order, Keys \ {order[i]})
                                /\ resident' = resident - Bytes({order[i]})
    BY <1>4 DEF EvictOldest, Remaining
  <2>2. {order[i]} \subseteq done /\ UNCHANGED pins
    BY <1>4 DEF Ledger, Elements, Candidates, EvictOldest
  <2>3. QED
    BY <2>1, <2>2, EvictedLedger DEF Ledger
<1>5. ASSUME NEW k \in Keys, Pin(k) \/ Unpin(k) PROVE Ledger'
  <2>1. UNCHANGED <<done, order, resident>> /\ pins' \in [Keys -> Nat]
    BY <1>5 DEF Pin, Unpin, Ledger
  <2>2. QED
    BY <2>1 DEF Ledger
<1>6. QED
  BY <1>1, <1>2, <1>3, <1>4, <1>5 DEF Next, vars, inner, Cancel, Evaluate, Answer, Wait,
     Unsubscribe, Return, LetGo, SpawnFailed

(* The list, its length and the bytes kept agree with what is kept, after  *)
(* any mix of admissions, hits and evictions.                              *)
THEOREM EvalLedgerExact == Spec => []LedgerExact
<1>1. Ledger => LedgerExact
  <2> SUFFICES ASSUME Ledger PROVE LedgerExact
    OBVIOUS
  <2>1. {order[i] : i \in DOMAIN order} = Elements(order)
    BY DEF Elements, Ledger
  <2>2. QED
    BY <2>1, KeptFinite DEF LedgerExact, Ledger
<1>2. QED
  BY <1>1, EvalInvariant, InitLedger, NextLedger, PTL DEF Spec

(* An evaluation goes in over the cap only when all that stay beside it    *)
(* are pinned.                                                             *)
LEMMA AdmitOverCap ==
    ASSUME Ledger, NEW k \in Keys, Admit(k)
    PROVE  \/ done' = done
           \/ /\ done' \ done \subseteq {k}
              /\ resident' <= Cap \/ \A x \in done' \ {k} : pins[x] > 0
<1>1. CASE Size[k] > Cap
  BY <1>1 DEF Admit
<1>2. CASE ~ (Size[k] > Cap)
  <2> DEFINE enough == {i \in 1 .. Len(order) + 1 : MakesRoom(Older(i), k)}
  <2>1. /\ done' = (done \ Victims(k)) \union {k}
        /\ resident' = resident - Bytes(Victims(k)) + Size[k]
    BY <1>2 DEF Admit, Remaining
  <2>2. CASE enough # {}
    <3>1. enough \in SUBSET Nat
      BY DEF Ledger
    <3>2. \E i \in enough : \A j \in enough : i <= j
      BY <2>2, <3>1, LeastNatural
    <3>3. \E i \in enough : Victims(k) = Older(i)
      BY <2>2, <3>2 DEF Victims
    <3>4. MakesRoom(Victims(k), k)
      BY <3>3
    <3>5. QED
      BY <2>1, <3>4 DEF MakesRoom
  <2>3. CASE enough = {}
    <3>1. Victims(k) = Older(Len(order) + 1)
      BY <2>3 DEF Victims
    <3>2. ASSUME NEW x \in done' \ {k} PROVE pins[x] > 0
      <4>1. x \in done /\ x \notin Older(Len(order) + 1)
        BY <2>1, <3>1
      <4>2. PICK i \in 1 .. Len(order) : x = order[i]
        BY <4>1 DEF Ledger, Elements
      <4>3. i < Len(order) + 1 /\ i \in DOMAIN order
        BY <4>2 DEF Ledger
      <4>4. ~ Evictable(x)
        BY <4>1, <4>2, <4>3 DEF Older, Candidates
      <4>5. pins[x] \in Nat
        BY <4>2, <4>3 DEF Ledger
      <4>6. QED
        BY <4>4, <4>5 DEF Evictable
    <3>3. QED
      BY <2>1, <3>2
  <2>4. QED
    BY <2>2, <2>3
<1>3. QED
  BY <1>1, <1>2

THEOREM EvalOverCapOnlyByPins == Spec => OverCapOnlyByPins
<1>1. Ledger /\ IInv /\ [Next]_vars =>
         [\A k \in done' \ done :
             resident' <= Cap \/ \A x \in done' \ {k} : pins[x] > 0]_vars
  <2> SUFFICES ASSUME Ledger, IInv, Next, NEW k \in done' \ done
               PROVE  resident' <= Cap \/ \A x \in done' \ {k} : pins[x] > 0
    BY DEF vars
  <2>1. PICK f \in Flights : Finish(f)
    BY DEF Next, GetOrEvaluate, Subscribe, Kept, Running, Lead, Cancel, Evaluate, Answer, Wait,
       Unsubscribe, Return, LetGo, SpawnFailed, EvictOldest, Pin, Unpin, inner
  <2>2. Admit(flight[f].key)
    BY <2>1 DEF Finish
  <2>3. flight[f].key \in Keys
    BY DEF IInv, FlightsTyped
  <2>4. QED
    BY <2>2, <2>3, AdmitOverCap
<1>2. QED
  BY <1>1, EvalInvariant, InitLedger, NextLedger, PTL DEF Spec, OverCapOnlyByPins
=============================================================================
