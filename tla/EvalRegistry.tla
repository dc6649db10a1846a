---------------------------- MODULE EvalRegistry ----------------------------
(***************************************************************************)
(* The process's workbook evaluations: tauri/src/eval_registry.rs.         *)
(*                                                                         *)
(* An evaluation is named by the hash of its inputs, its key.  The first   *)
(* caller for a key starts a flight; callers that come while it runs       *)
(* attach to it; a finished result is kept, least recently used out first, *)
(* up to a cap in bytes.  One TLA+ action is what one thread does under    *)
(* one lock.  Flights are Arcs: one is free again once it is answered and  *)
(* no caller holds it.                                                     *)
(***************************************************************************)
EXTENDS Selections, Integers, FiniteSetsExt

CONSTANTS
    Callers, Keys,
    Size,       \* per key: the bytes its evaluation holds
    Cap,        \* cap_bytes
    Flights,    \* names for the flights that exist at one time
    NoFlight,
    MaxPins     \* bound: pins at one time

ASSUME SizeAssumption ==
    /\ Keys # {} /\ Size \in [Keys -> Nat \ {0}]
    /\ Cap \in Nat
    /\ MaxPins \in Nat
    /\ NoFlight \notin Flights
ASSUME CallersAssumption == IsFiniteSet(Callers)

VARIABLES
    flights,    \* Inner::flights: per key, the flight running for it
    done,       \* Inner::done: the keys whose evaluation is kept
    order,      \* Inner::order: the same, least recently used first
    resident,   \* Inner::resident_bytes
    pins,       \* Inner::pinned: per key, its pins
    flight,     \* per flight: its key, stage and outcome, and its subscribers
                \* as long as the evaluation's observer reads them
    pc, on      \* per caller: where it is, and the flight it holds

inner == <<flights, done, order, resident, pins>>
vars == <<inner, flight, pc, on>>

Unused == [key |-> CHOOSE k \in Keys : TRUE, stage |-> "unused", outcome |-> "none",
           subscribers |-> 0]

Stages == {"unused", "evaluating", "evaluated", "removed", "answered"}
Outcomes == {"none", "ok", "error", "cancelled"}

Init ==
    /\ flights = [k \in Keys |-> NoFlight]
    /\ done = {} /\ order = <<>> /\ resident = 0
    /\ pins = [k \in Keys |-> 0]
    /\ flight = [f \in Flights |-> Unused]
    /\ pc = [c \in Callers |-> "idle"]
    /\ on = [c \in Callers |-> NoFlight]

---------------------------------------------------------------------------
(* attach: a kept result, the flight that runs, or a new one.              *)

\* A kept result is returned at once and is now the most recently used.
Kept(c, k) ==
    /\ k \in done
    /\ order' = Append(Select(order, Keys \ {k}), k)
    /\ UNCHANGED <<flights, done, resident, pins, flight, pc, on>>

\* Mutant of Joined: the caller is not counted.
JoinedUncounted(n) == n
Joined(n) == n + 1

\* Mutant of InFlight: the running flights are not looked at.
InFlightForgotten(k) == FALSE
InFlight(k) == flights[k] # NoFlight

Running(c, k, where) ==
    /\ k \notin done /\ InFlight(k)
    /\ flight' = [flight EXCEPT ![flights[k]].subscribers =
                     IF flight[flights[k]].stage = "evaluating" THEN Joined(@) ELSE 0]
    /\ pc' = [pc EXCEPT ![c] = where]
    /\ on' = [on EXCEPT ![c] = flights[k]]
    /\ UNCHANGED inner

\* The first caller's flight, evaluated on its own thread or the caller's.
Lead(c, k, where, stage) ==
    /\ k \notin done /\ ~ InFlight(k)
    /\ LET f == CHOOSE f \in Flights : flight[f].stage = "unused" IN
       /\ \E g \in Flights : flight[g].stage = "unused"
       /\ flights' = [flights EXCEPT ![k] = f]
       /\ flight' = [flight EXCEPT ![f] =
            [key |-> k, stage |-> stage,
             subscribers |-> IF stage = "evaluated" THEN 0 ELSE 1,
             outcome |-> IF stage = "evaluated" THEN "error" ELSE "none"]]
       /\ on' = [on EXCEPT ![c] = f]
    /\ pc' = [pc EXCEPT ![c] = where]
    /\ UNCHANGED <<done, order, resident, pins>>

GetOrEvaluate(c, k) ==
    /\ pc[c] = "idle"
    /\ Kept(c, k) \/ Running(c, k, "waiting") \/ Lead(c, k, "leading", "evaluating")

\* A flight whose thread cannot be spawned is finished by the caller.
Subscribe(c, k) ==
    /\ pc[c] = "idle"
    /\ \/ Kept(c, k)
       \/ Running(c, k, "subscribed")
       \/ Lead(c, k, "subscribed", "evaluating")
       \/ Lead(c, k, "failing", "evaluated")

---------------------------------------------------------------------------
(* The evaluation, outside every lock.                                     *)

\* The observer is asked at a definition boundary and finds nobody.
Cancel(f) ==
    /\ flight[f].stage = "evaluating"
    /\ flight[f].subscribers = 0
    /\ flight' = [flight EXCEPT ![f].stage = "evaluated", ![f].outcome = "cancelled"]
    /\ UNCHANGED <<inner, pc, on>>

\* It ends, fails or panics (the leader's Drop finishes it with an error); the
\* counter is not read any more.
Evaluate(f) ==
    /\ flight[f].stage = "evaluating"
    /\ \E outcome \in {"ok", "error"} :
          flight' = [flight EXCEPT ![f] =
                        [@ EXCEPT !.stage = "evaluated", !.outcome = outcome, !.subscribers = 0]]
    /\ UNCHANGED <<inner, pc, on>>

---------------------------------------------------------------------------
(* Leader::finish, and what is kept.                                       *)

\* Mutant of Evictable: the pins are not looked at.
EvictableAnyway(k) == TRUE
Evictable(k) == pins[k] = 0

Bytes(kept) == MapThenSumSet(LAMBDA k : Size[k], kept)

\* The evictable keys' places in order, and the keys of those before i.
Candidates == {i \in DOMAIN order : Evictable(order[i])}
Older(i) == {order[j] : j \in {x \in Candidates : x < i}}

\* Mutant of MakesRoom: the new evaluation is not counted.
MakesRoomForNothing(gone, k) == resident - Bytes(gone) <= Cap
MakesRoom(gone, k) == resident - Bytes(gone) + Size[k] <= Cap

\* What admit evicts: no more than makes room, all it can if nothing does.
Victims(k) ==
    LET enough == {i \in 1 .. Len(order) + 1 : MakesRoom(Older(i), k)} IN
    IF enough = {} THEN Older(Len(order) + 1)
    ELSE Older(CHOOSE i \in enough : \A j \in enough : i <= j)

\* Mutant of Remaining: the bytes given back are not taken off.
RemainingKept(gone) == resident
Remaining(gone) == resident - Bytes(gone)

Admit(k) ==
    IF Size[k] > Cap
    THEN UNCHANGED <<done, order, resident>>
    ELSE LET gone == Victims(k) IN
         /\ done' = (done \ gone) \union {k}
         /\ order' = Append(Select(order, Keys \ gone), k)
         /\ resident' = Remaining(gone) + Size[k]

\* Under the lock: the flight is taken out, an Ok result is kept.
Finish(f) ==
    /\ flight[f].stage = "evaluated"
    /\ flights' = [flights EXCEPT ![flight[f].key] = NoFlight]
    /\ IF flight[f].outcome = "ok" THEN Admit(flight[f].key)
       ELSE UNCHANGED <<done, order, resident>>
    /\ flight' = [flight EXCEPT ![f] = [Unused EXCEPT !.stage = "removed", !.outcome = flight[f].outcome]]
    /\ UNCHANGED <<pins, pc, on>>

Holders(f) == {c \in Callers : on[c] = f}

\* Mutant of Told: only a result wakes the waiters, an error does not.
ToldOfResultOnly(outcome) == outcome = "ok"
Told(outcome) == TRUE

\* The result is set and the waiters are woken.
Answer(f) ==
    /\ flight[f].stage = "removed" /\ Told(flight[f].outcome)
    /\ flight' = [flight EXCEPT ![f] =
                     IF Holders(f) = {} THEN Unused ELSE [@ EXCEPT !.stage = "answered"]]
    /\ UNCHANGED <<inner, pc, on>>

---------------------------------------------------------------------------
(* Callers that hold a flight.                                             *)

Left(n) == n - 1

\* The caller lets its flight go, which may be the last reference to it.
LetGo(c) ==
    LET f == on[c] IN
    /\ flight' = [flight EXCEPT ![f] =
          IF flight[f].stage = "answered" /\ Holders(f) = {c} THEN Unused
          ELSE [flight[f] EXCEPT !.subscribers =
                   IF flight[f].stage = "evaluating" THEN Left(@) ELSE 0]]
    /\ pc' = [pc EXCEPT ![c] = "idle"]
    /\ on' = [on EXCEPT ![c] = NoFlight]
    /\ UNCHANGED inner

\* Subscription::wait.
Wait(c) ==
    /\ pc[c] = "subscribed"
    /\ pc' = [pc EXCEPT ![c] = "waiting"]
    /\ UNCHANGED <<inner, flight, on>>

\* Subscription::drop, before its result came or after.
Unsubscribe(c) ==
    /\ pc[c] = "subscribed"
    /\ LetGo(c)

\* A caller that waits for the flight, or leads it on its own thread.
Return(c) ==
    /\ pc[c] \in {"waiting", "leading"}
    /\ flight[on[c]].stage = "answered"
    /\ LetGo(c)

\* subscribe returns after it has finished the flight it could not start.
SpawnFailed(c) ==
    /\ pc[c] = "failing"
    /\ flight[on[c]].stage = "answered"
    /\ pc' = [pc EXCEPT ![c] = "subscribed"]
    /\ UNCHANGED <<inner, flight, on>>

---------------------------------------------------------------------------
(* The session cache, which shares the memory.                             *)

EvictOldest ==
    /\ \E i \in Candidates :
          /\ \A j \in Candidates : i <= j
          /\ done' = done \ {order[i]}
          /\ order' = Select(order, Keys \ {order[i]})
          /\ resident' = Remaining({order[i]})
    /\ UNCHANGED <<flights, pins, flight, pc, on>>

Pin(k) ==
    /\ MapThenSumSet(LAMBDA x : pins[x], Keys) < MaxPins
    /\ pins' = [pins EXCEPT ![k] = @ + 1]
    /\ UNCHANGED <<flights, done, order, resident, flight, pc, on>>

Unpin(k) ==
    /\ pins[k] > 0
    /\ pins' = [pins EXCEPT ![k] = @ - 1]
    /\ UNCHANGED <<flights, done, order, resident, flight, pc, on>>

Next ==
    \/ \E c \in Callers, k \in Keys : GetOrEvaluate(c, k) \/ Subscribe(c, k)
    \/ \E f \in Flights : Cancel(f) \/ Evaluate(f) \/ Finish(f) \/ Answer(f)
    \/ \E c \in Callers : Wait(c) \/ Unsubscribe(c) \/ Return(c) \/ SpawnFailed(c)
    \/ EvictOldest
    \/ \E k \in Keys : Pin(k) \/ Unpin(k)

Spec == Init /\ [][Next]_vars

\* An evaluation ends, its leader finishes, a woken caller runs.
FairSpec ==
    /\ Spec
    /\ \A f \in Flights : WF_vars(Evaluate(f)) /\ WF_vars(Finish(f)) /\ WF_vars(Answer(f))
    /\ \A c \in Callers : WF_vars(Return(c))

---------------------------------------------------------------------------
Attached == {"waiting", "subscribed", "failing", "leading"}

(* The flights are well formed: no counter goes below zero.                *)
FlightsTyped ==
    /\ flights \in [Keys -> Flights \union {NoFlight}]
    /\ done \subseteq Keys
    /\ flight \in [Flights -> [key : Keys, stage : Stages, outcome : Outcomes,
                               subscribers : Nat]]
    /\ pc \in [Callers -> Attached \union {"idle"}]
    /\ on \in [Callers -> Flights \union {NoFlight}]

(* order and resident_bytes tell of exactly the evaluations in done, after *)
(* any mix of admissions, hits and evictions from either side.             *)
LedgerExact ==
    /\ {order[i] : i \in DOMAIN order} = done
    /\ Len(order) = Cardinality(done)
    /\ resident = Bytes(done)

(* A key is evaluated by one flight at a time, the one flights names, and  *)
(* never while a result for it is kept: no second run starts in the moment *)
(* a flight ends.                                                          *)
Live(f) == flight[f].stage \in {"evaluating", "evaluated"}
OneRunPerKey ==
    /\ \A f, g \in Flights : Live(f) /\ Live(g) /\ flight[f].key = flight[g].key => f = g
    /\ \A f \in Flights : Live(f) => flight[f].key \notin done

(* While it evaluates, a flight's counter is the number of callers that    *)
(* hold it: an evaluation somebody waits for is not cancelled, and one     *)
(* nobody waits for can be.                                                *)
SubscribersCounted ==
    \A f \in Flights :
        flight[f].stage = "evaluating" => flight[f].subscribers = Cardinality(Holders(f))

(* A pinned evaluation that is kept stays kept, whoever needs the room.    *)
PinnedStays ==
    [][\A k \in done : pins[k] > 0 => k \in done']_vars

(* What is kept is over the cap only by what is pinned: an evaluation is   *)
(* added above the cap only when all the others are pinned.                *)
OverCapOnlyByPins ==
    [][\A k \in done' \ done :
          resident' <= Cap \/ \A x \in done' \ {k} : pins[x] > 0]_vars

(* Every caller that waits is answered, whatever becomes of the evaluation *)
(* it waits for.                                                           *)
Answered == \A c \in Callers : pc[c] \in {"waiting", "leading"} ~> pc[c] = "idle"

(* The inductive strengthening: a caller that is attached holds a flight    *)
(* that is still there, and flights names exactly the flights that run.    *)
HoldersKeepFlights ==
    \A c \in Callers :
        /\ pc[c] = "idle" <=> on[c] = NoFlight
        /\ on[c] # NoFlight => flight[on[c]].stage # "unused"
FlightsNamed ==
    /\ \A k \in Keys : InFlight(k) =>
           k \notin done /\ Live(flights[k]) /\ flight[flights[k]].key = k
    /\ \A f \in Flights : Live(f) => flights[flight[f].key] = f

IInv ==
    /\ FlightsTyped
    /\ HoldersKeepFlights
    /\ FlightsNamed
    /\ SubscribersCounted

=============================================================================
