------------------------- MODULE SessionCacheProofs -------------------------
(***************************************************************************)
(* The session cache, for any callers, channels, sizes and readings of the *)
(* machine: what is decoded, granted, counted and resident.                *)
(*                                                                         *)
(* That a channel has one decode follows from what the callers claim: each *)
(* claim is in pending, and no two callers claim the same.  Eviction only  *)
(* ever takes from what is resident, so it cannot disturb this, whatever   *)
(* it chooses.  The counters count callers by where they are, and a step   *)
(* moves one caller.  That eviction ends within the ceiling needs what it  *)
(* does choose: order names every resident channel once, so the coldest    *)
(* that are not pinned, all of them at the worst, are all there is to drop.*)
(***************************************************************************)
EXTENDS SessionCache, CollectionFacts

Holding == Leading \union {"give back", "unclaim"}
ClaimedBy(m) == IF m.pc \in Holding THEN m.claims \union {m.ch} ELSE {}
Claimed(c) == ClaimedBy(call[c])

Shaped(s) ==
    /\ s = [entries |-> s.entries, order |-> s.order, axes |-> s.axes, pins |-> s.pins]
    /\ s.entries \in [Channels -> Nat]

Places == Holding \union {"idle", "claim", "admit", "queued", "running", "unpin"}
Tasks == {"none", "read", "prefetch", "lookup", "evaluate", "member"}
Calls == [pc : Places, task : Tasks, ch : Channels \union {NoChannel},
          claims : SUBSET AxisKeys, held : SUBSET AxisKeys, fresh : SUBSET AxisKeys, read : Nat]

\* Where a caller is tells whether it has a channel, and a claim on axes.
Placed(m) ==
    /\ m.pc \in Holding \union {"claim"} => m.task \in {"read", "prefetch", "lookup"}
    /\ m.pc \in Holding \union {"claim", "admit", "queued", "unpin"} => m.ch \in Channels
    /\ m.pc = "running" /\ m.task # "member" => m.ch \in Channels
    /\ m.pc \notin Holding => m.claims = {}

Typed ==
    /\ Shaped(cache)
    /\ call \in [Callers -> Calls]
    /\ \A c \in Callers : Placed(call[c])
    /\ file \in Nat

ClaimsHeld ==
    /\ \A c \in Callers : Claimed(c) \subseteq pending
    /\ \A c, d \in Callers : c # d => Claimed(c) \intersect Claimed(d) = {}
    /\ \A c \in Callers : call[c].pc \in Leading => call[c].ch \notin Resident(cache)

DecodesInv == Typed /\ ClaimsHeld

---------------------------------------------------------------------------
(* What eviction does to what is resident.                                 *)

LEMMA DropShape ==
    \A s : Shaped(s) => /\ Shaped(DropUnborrowed(s))
                        /\ Resident(DropUnborrowed(s)) = Resident(s)
                        /\ DropUnborrowed(s).pins = s.pins
  BY DEF Shaped, DropUnborrowed, Resident

LEMMA WithoutShape ==
    \A s, gone : Shaped(s) => /\ Shaped(Without(s, gone))
                              /\ Resident(Without(s, gone)) \subseteq Resident(s)
                              /\ Without(s, gone).pins = s.pins
<1> TAKE s, gone
<1> DEFINE entries == [x \in Channels |-> IF x \in gone THEN 0 ELSE s.entries[x]]
           order == Select(s.order, Channels \ gone)
<1>1. Without(s, gone) = [s EXCEPT !.entries = entries, !.order = order]
  BY DEF Without
<1> HIDE DEF order
<1>2. ASSUME Shaped(s)
      PROVE  Without(s, gone) = [entries |-> entries, order |-> order,
                                 axes |-> s.axes, pins |-> s.pins]
  BY <1>1, <1>2 DEF Shaped
<1>3. Shaped(s) => entries \in [Channels -> Nat]
  BY DEF Shaped
<1>4. QED
  BY <1>2, <1>3 DEF Shaped, Resident

LEMMA EvictedShape ==
    \A s, n : Shaped(s) => /\ Shaped(Evicted(s, n))
                           /\ Resident(Evicted(s, n)) \subseteq Resident(s)
                           /\ Evicted(s, n).pins = s.pins
<1> TAKE s, n
<1>1. SUFFICES ASSUME Shaped(s)
               PROVE  /\ Shaped(Evicted(s, n))
                      /\ Resident(Evicted(s, n)) \subseteq Resident(s)
                      /\ Evicted(s, n).pins = s.pins
  OBVIOUS
<1> DEFINE gone == Range(SubSeq(Coldest(s), 1, n))
<1>2. /\ Shaped(Without(s, gone)) /\ Resident(Without(s, gone)) \subseteq Resident(s)
      /\ Without(s, gone).pins = s.pins
  BY <1>1, WithoutShape
<1>3. /\ Shaped(DropUnborrowed(Without(s, gone)))
      /\ Resident(DropUnborrowed(Without(s, gone))) \subseteq Resident(s)
      /\ DropUnborrowed(Without(s, gone)).pins = s.pins
  BY <1>2, DropShape
<1>4. QED
  BY <1>1, <1>3 DEF Evicted

LEMMA EvictToBudgetShape ==
    \A s : Shaped(s) => /\ Shaped(EvictToBudget(s))
                        /\ Resident(EvictToBudget(s)) \subseteq Resident(s)
                        /\ EvictToBudget(s).pins = s.pins
<1> TAKE s
<1>1. SUFFICES ASSUME Shaped(s)
               PROVE  /\ Shaped(EvictToBudget(s))
                      /\ Resident(EvictToBudget(s)) \subseteq Resident(s)
                      /\ EvictToBudget(s).pins = s.pins
  OBVIOUS
<1>2. \A n : /\ Shaped(DropUnborrowed(Evicted(s, n)))
             /\ Resident(DropUnborrowed(Evicted(s, n))) \subseteq Resident(s)
             /\ DropUnborrowed(Evicted(s, n)).pins = s.pins
  BY <1>1, EvictedShape, DropShape
<1>3. QED
  BY <1>1, <1>2 DEF EvictToBudget

(* touch moves a channel in the order; insert may keep the new channel;    *)
(* insert_axis keeps no new channel.                                       *)
LEMMA TouchedShape ==
    \A s, x : Shaped(s) => /\ Shaped(Touched(s, x)) /\ Resident(Touched(s, x)) = Resident(s)
                           /\ Touched(s, x).pins = s.pins
<1> TAKE s, x
<1> DEFINE order == Append(Select(s.order, Channels \ {x}), x)
<1>1. Touched(s, x) = [s EXCEPT !.order = order]
  BY DEF Touched
<1> HIDE DEF order
<1>2. QED
  BY <1>1 DEF Shaped, Resident

LEMMA InsertedShape ==
    \A s, x, v : Shaped(s) /\ x \in Channels /\ v \in Nat =>
        /\ Shaped(Inserted(s, x, v))
        /\ Resident(Inserted(s, x, v)) \subseteq Resident(s) \union {x}
        /\ Inserted(s, x, v).pins = s.pins
<1> TAKE s, x, v
<1>1. SUFFICES ASSUME Shaped(s), x \in Channels, v \in Nat
               PROVE  /\ Shaped(Inserted(s, x, v))
                      /\ Resident(Inserted(s, x, v)) \subseteq Resident(s) \union {x}
                      /\ Inserted(s, x, v).pins = s.pins
  OBVIOUS
<1> DEFINE t == [Touched(s, x) EXCEPT !.entries[x] = v]
<1>2. /\ Shaped(Touched(s, x)) /\ Resident(Touched(s, x)) = Resident(s)
      /\ Touched(s, x).pins = s.pins
  BY <1>1, TouchedShape
<1>3. Shaped(t) /\ Resident(t) \subseteq Resident(s) \union {x} /\ t.pins = s.pins
  BY <1>1, <1>2 DEF Shaped, Resident
<1>4. /\ Shaped(EvictToBudget(t)) /\ Resident(EvictToBudget(t)) \subseteq Resident(t)
      /\ EvictToBudget(t).pins = t.pins
  BY <1>3, EvictToBudgetShape
<1>5. QED
  BY <1>3, <1>4 DEF Inserted

LEMMA AxisInsertedShape ==
    \A s, a, v : Shaped(s) =>
        /\ Shaped(AxisInserted(s, a, v))
        /\ Resident(AxisInserted(s, a, v)) \subseteq Resident(s)
        /\ AxisInserted(s, a, v).pins = s.pins
<1> TAKE s, a, v
<1>1. SUFFICES ASSUME Shaped(s)
               PROVE  /\ Shaped(AxisInserted(s, a, v))
                      /\ Resident(AxisInserted(s, a, v)) \subseteq Resident(s)
                      /\ AxisInserted(s, a, v).pins = s.pins
  OBVIOUS
<1> DEFINE t == [s EXCEPT !.axes[a] = v]
<1>2. Shaped(t) /\ Resident(t) = Resident(s) /\ t.pins = s.pins
  BY <1>1 DEF Shaped, Resident
<1>3. /\ Shaped(EvictToBudget(t)) /\ Resident(EvictToBudget(t)) \subseteq Resident(t)
      /\ EvictToBudget(t).pins = t.pins
  BY <1>2, EvictToBudgetShape
<1>4. QED
  BY <1>1, <1>2, <1>3 DEF AxisInserted

LEMMA MadeShape ==
    \A i : Shaped(cache) => /\ Shaped(Made(i).cache)
                            /\ Resident(Made(i).cache) \subseteq Resident(cache)
                            /\ Made(i).cache.pins = cache.pins
  BY EvictedShape DEF Made

LEMMA RoomShape ==
    Shaped(cache) => /\ Shaped(Room.cache) /\ Resident(Room.cache) \subseteq Resident(cache)
                     /\ Room.cache.pins = cache.pins
  BY MadeShape DEF Room

---------------------------------------------------------------------------
(* Steps that keep the claims apart.                                       *)

(* One caller moves; what it claims now nobody else claims, and nothing    *)
(* becomes resident that another is decoding.                              *)
LEMMA CallerMoves ==
    ASSUME DecodesInv, NEW c \in Callers,
           call' = [call EXCEPT ![c] = call'[c]], call'[c] \in Calls, Placed(call'[c]),
           Shaped(cache'), file' \in Nat,
           \A d \in Callers \ {c} : call[d].pc \in Leading => call[d].ch \notin Resident(cache'),
           call'[c].pc \in Leading => call'[c].ch \notin Resident(cache'),
           \A d \in Callers \ {c} : /\ Claimed(d) \subseteq pending'
                                    /\ Claimed(d) \intersect ClaimedBy(call'[c]) = {},
           ClaimedBy(call'[c]) \subseteq pending'
    PROVE  DecodesInv'
<1>1. \A d \in Callers \ {c} : call'[d] = call[d]
  BY DEF DecodesInv, Typed
<1>2. Typed'
  BY <1>1 DEF DecodesInv, Typed
<1>3. ClaimsHeld'
  <2>1. \A d \in Callers \ {c} : Claimed(d)' = Claimed(d)
    BY <1>1 DEF Claimed
  <2>2. Claimed(c)' = ClaimedBy(call'[c])
    BY DEF Claimed
  <2>3. QED
    BY <1>1, <2>1, <2>2 DEF DecodesInv, ClaimsHeld
<1>4. QED
  BY <1>2, <1>3 DEF DecodesInv

(* One caller moves without claiming anything, and nothing becomes         *)
(* resident.                                                               *)
LEMMA CallerMovesOn ==
    ASSUME DecodesInv, NEW c \in Callers,
           call' = [call EXCEPT ![c] = call'[c]], call'[c] \in Calls, Placed(call'[c]),
           Shaped(cache'), Resident(cache') \subseteq Resident(cache),
           file' = file, pending' = pending,
           ClaimedBy(call'[c]) \subseteq Claimed(c),
           call'[c].pc \in Leading => call[c].pc \in Leading /\ call'[c].ch = call[c].ch
    PROVE  DecodesInv'
<1>1. /\ \A d \in Callers : call[d].pc \in Leading => call[d].ch \notin Resident(cache')
      /\ \A d \in Callers : Claimed(d) \subseteq pending'
      /\ \A d \in Callers \ {c} : Claimed(d) \intersect ClaimedBy(call'[c]) = {}
  BY DEF DecodesInv, ClaimsHeld
<1>2. file' \in Nat /\ ClaimedBy(call'[c]) \subseteq pending'
  BY <1>1 DEF DecodesInv, Typed
<1>3. QED
  BY <1>1, <1>2, CallerMoves

(* Nobody moves, and nothing becomes resident.                             *)
LEMMA OnlyEvicts ==
    ASSUME DecodesInv, call' = call, pending' = pending, file' \in Nat,
           Shaped(cache'), Resident(cache') \subseteq Resident(cache)
    PROVE  DecodesInv'
  BY DEF DecodesInv, Typed, ClaimsHeld, Claimed

---------------------------------------------------------------------------
(* The invariant, action by action.                                        *)

LEMMA IdleFits ==
    Idle \in Calls /\ Placed(Idle) /\ ClaimedBy(Idle) = {} /\ Idle.pc \notin Leading
  BY DEF Idle, Calls, Places, Tasks, Placed, ClaimedBy, Holding, Leading

LEMMA InitDecodes == Init => DecodesInv
<1>1. SUFFICES ASSUME Init PROVE DecodesInv
  OBVIOUS
<1>2. call \in [Callers -> Calls] /\ \A c \in Callers : call[c] = Idle
  BY <1>1, IdleFits DEF Init
<1>3. Typed
  BY <1>1, <1>2, IdleFits DEF Init, Typed, Shaped
<1>4. ClaimsHeld
  BY <1>2, IdleFits DEF ClaimsHeld, Claimed
<1>5. QED
  BY <1>3, <1>4 DEF DecodesInv

(* A caller that returns from a read holds nothing any more.               *)
LEMMA ReturnFits ==
    ASSUME DecodesInv, NEW c \in Callers, call[c].pc \in {"claim", "unclaim"}, Return(c)
    PROVE  /\ call' = [call EXCEPT ![c] = call'[c]]
           /\ call'[c] \in Calls /\ Placed(call'[c])
           /\ ClaimedBy(call'[c]) = {} /\ call'[c].pc \notin Leading
<1>1. /\ call[c].task \in {"read", "prefetch", "lookup"} /\ call[c].ch \in Channels
      /\ call[c] \in Calls /\ call \in [Callers -> Calls]
  BY DEF DecodesInv, Typed, Placed, Holding
<1>2. CASE call[c].task = "read"
  <2>1. call' = [call EXCEPT ![c] = Idle]
    BY <1>2 DEF Return
  <2>2. QED
    BY <1>1, <2>1, IdleFits
<1>3. CASE call[c].task = "prefetch"
  <2> DEFINE m == [Idle EXCEPT !.pc = "admit", !.ch = call[c].ch]
  <2>1. call' = [call EXCEPT ![c] = m]
    BY <1>3 DEF Return
  <2>2. m \in Calls /\ Placed(m) /\ ClaimedBy(m) = {} /\ m.pc \notin Leading
    BY <1>1 DEF Idle, Calls, Places, Tasks, Placed, ClaimedBy, Holding, Leading
  <2>3. QED
    BY <1>1, <2>1, <2>2
<1>4. CASE call[c].task = "lookup"
  <2> DEFINE m == [Idle EXCEPT !.pc = "running", !.task = "evaluate", !.ch = call[c].ch]
  <2>1. call' = [call EXCEPT ![c] = m]
    BY <1>4 DEF Return
  <2>2. m \in Calls /\ Placed(m) /\ ClaimedBy(m) = {} /\ m.pc \notin Leading
    BY <1>1 DEF Idle, Calls, Places, Tasks, Placed, ClaimedBy, Holding, Leading
  <2>3. QED
    BY <1>1, <2>1, <2>2
<1>5. QED
  BY <1>1, <1>2, <1>3, <1>4

(* A caller that starts a read claims nothing yet.                         *)
LEMMA StartFits ==
    ASSUME DecodesInv, NEW c \in Callers, NEW task \in {"read", "prefetch", "lookup"},
           NEW x \in Channels, Start(c, task, x)
    PROVE  /\ call' = [call EXCEPT ![c] = call'[c]]
           /\ call'[c] \in Calls /\ Placed(call'[c])
           /\ ClaimedBy(call'[c]) = {} /\ call'[c].pc \notin Leading
<1> DEFINE m == [Idle EXCEPT !.pc = "claim", !.task = task, !.ch = x]
<1>1. call' = [call EXCEPT ![c] = m] /\ call \in [Callers -> Calls]
  BY DEF Start, DecodesInv, Typed
<1>2. m \in Calls /\ Placed(m) /\ ClaimedBy(m) = {} /\ m.pc \notin Leading
  BY DEF Idle, Calls, Places, Tasks, Placed, ClaimedBy, Holding, Leading
<1>3. QED
  BY <1>1, <1>2

LEMMA StepRead ==
    ASSUME DecodesInv, NEW c \in Callers, NEW x \in Channels, Read(c, x) PROVE DecodesInv'
<1>1. Start(c, "read", x) /\ cache' = cache /\ pending' = pending /\ file' = file
  BY DEF Read, world
<1>2. Shaped(cache') /\ Resident(cache') \subseteq Resident(cache)
  BY <1>1 DEF DecodesInv, Typed
<1>3. QED
  BY <1>1, <1>2, StartFits, CallerMovesOn

LEMMA StepPinInput ==
    ASSUME DecodesInv, NEW c \in Callers, NEW x \in Channels, PinInput(c, x) PROVE DecodesInv'
<1>1. /\ Start(c, "prefetch", x) /\ pending' = pending /\ file' = file
      /\ cache' = [cache EXCEPT !.pins = [cache.pins EXCEPT ![x] = @ + 1]]
  BY DEF PinInput, world
<1>2. Shaped(cache') /\ Resident(cache') \subseteq Resident(cache)
  BY <1>1 DEF DecodesInv, Typed, Shaped, Resident
<1>3. QED
  BY <1>1, <1>2, StartFits, CallerMovesOn

LEMMA StepHit ==
    ASSUME DecodesInv, NEW c \in Callers, Hit(c) PROVE DecodesInv'
<1>1. /\ call[c].pc = "claim" /\ Return(c) /\ pending' = pending /\ file' = file
      /\ cache' = Touched(cache, call[c].ch)
  BY DEF Hit, world
<1>2. Shaped(cache') /\ Resident(cache') \subseteq Resident(cache)
  BY <1>1, TouchedShape DEF DecodesInv, Typed
<1>3. QED
  BY <1>1, <1>2, ReturnFits, CallerMovesOn

LEMMA StepLead ==
    ASSUME DecodesInv, NEW c \in Callers, Lead(c) PROVE DecodesInv'
<1> DEFINE m == [call[c] EXCEPT !.pc = "reserve"]
<1>1. /\ call[c].pc = "claim" /\ call[c].ch \notin Resident(cache) /\ call[c].ch \notin pending
      /\ pending' = pending \union {call[c].ch} /\ cache' = cache /\ file' = file
      /\ call' = [call EXCEPT ![c] = m]
  BY DEF Lead, Unclaimed, Goto, world
<1>2. call[c] \in Calls /\ Placed(call[c]) /\ call \in [Callers -> Calls]
  BY DEF DecodesInv, Typed
<1>3. call'[c] = m /\ call' = [call EXCEPT ![c] = call'[c]]
  BY <1>1, <1>2
<1>4. m \in Calls /\ Placed(m) /\ ClaimedBy(m) = {call[c].ch} /\ m.ch = call[c].ch
  BY <1>1, <1>2 DEF Calls, Places, Placed, ClaimedBy, Holding, Leading
<1>5. Shaped(cache') /\ file' \in Nat
  BY <1>1 DEF DecodesInv, Typed
<1>6. /\ \A d \in Callers \ {c} : call[d].pc \in Leading => call[d].ch \notin Resident(cache')
      /\ \A d \in Callers \ {c} : /\ Claimed(d) \subseteq pending'
                                /\ Claimed(d) \intersect ClaimedBy(m) = {}
      /\ ClaimedBy(m) \subseteq pending'
  BY <1>1, <1>4 DEF DecodesInv, ClaimsHeld
<1>7. m.ch \notin Resident(cache')
  BY <1>1, <1>4
<1>8. QED
  BY <1>3, <1>4, <1>5, <1>6, <1>7, CallerMoves

(* A reader that only goes to its next place.                              *)
LEMMA GoesOn ==
    ASSUME DecodesInv, NEW c \in Callers, NEW where \in Holding, Goto(c, where),
           call[c].pc \in Leading \union {"give back"},
           where \in Leading => call[c].pc \in Leading,
           cache' = cache, pending' = pending, file' = file
    PROVE  DecodesInv'
<1> DEFINE m == [call[c] EXCEPT !.pc = where]
<1>1. call[c] \in Calls /\ Placed(call[c]) /\ call \in [Callers -> Calls]
  BY DEF DecodesInv, Typed
<1>2. call'[c] = m /\ call' = [call EXCEPT ![c] = call'[c]]
  BY <1>1 DEF Goto
<1>3. m \in Calls /\ Placed(m) /\ ClaimedBy(m) \subseteq Claimed(c) /\ m.ch = call[c].ch
  BY <1>1 DEF Calls, Places, Placed, Claimed, ClaimedBy, Holding, Leading
<1>4. m.pc \in Leading => call[c].pc \in Leading
  BY <1>1 DEF Calls
<1>5. Shaped(cache') /\ Resident(cache') \subseteq Resident(cache)
  BY DEF DecodesInv, Typed
<1>6. QED
  BY <1>2, <1>3, <1>4, <1>5, CallerMovesOn

LEMMA StepReserve ==
    ASSUME DecodesInv, NEW c \in Callers, Reserve(c) \/ NotReserved(c) \/ GiveBack(c)
    PROVE  DecodesInv'
<1>1. CASE Reserve(c)
  BY <1>1, GoesOn DEF Reserve, world, Leading, Holding
<1>2. CASE NotReserved(c)
  BY <1>2, GoesOn DEF NotReserved, world, Leading, Holding
<1>3. CASE GiveBack(c)
  BY <1>3, GoesOn DEF GiveBack, world, Leading, Holding
<1>4. QED
  BY <1>1, <1>2, <1>3

(* An axis is claimed only when nobody has claimed it.                     *)
LEMMA AxisClaimed ==
    ASSUME DecodesInv, NEW c \in Callers, NEW a \in AxisKeys, NEW next \in Leading,
           call[c].pc \in Leading, ClaimAxis(c, a, next)
    PROVE  DecodesInv'
<1> DEFINE mine == IF cache.axes[a] # 0 THEN {} ELSE {a}
           m == [call[c] EXCEPT !.claims = @ \union mine, !.pc = next]
<1>0. mine \subseteq {a} /\ mine \intersect pending = {}
  BY DEF ClaimAxis, Unclaimed
<1>1. /\ pending' = pending \union mine /\ call' = [call EXCEPT ![c] = m]
      /\ cache' = cache /\ file' = file
  BY DEF ClaimAxis, world
<1> HIDE DEF mine
<1>2. call[c] \in Calls /\ Placed(call[c]) /\ call \in [Callers -> Calls]
  BY DEF DecodesInv, Typed
<1>3. call'[c] = m /\ call' = [call EXCEPT ![c] = call'[c]]
  BY <1>1, <1>2
<1>4. /\ m.pc = next /\ m.task = call[c].task /\ m.ch = call[c].ch
      /\ m.claims = call[c].claims \union mine /\ m \in Calls
  BY <1>2, <1>0 DEF Calls, Places, Holding
<1> HIDE DEF m
<1>5. Placed(m) /\ ClaimedBy(m) = Claimed(c) \union mine
  BY <1>2, <1>4 DEF Placed, Claimed, ClaimedBy, Holding, Leading
<1>6. Shaped(cache') /\ file' \in Nat
  BY <1>1 DEF DecodesInv, Typed
<1>7. /\ \A d \in Callers : call[d].pc \in Leading => call[d].ch \notin Resident(cache')
      /\ \A d \in Callers \ {c} : /\ Claimed(d) \subseteq pending'
                                /\ Claimed(d) \intersect ClaimedBy(m) = {}
      /\ ClaimedBy(m) \subseteq pending'
  BY <1>1, <1>0, <1>5 DEF DecodesInv, ClaimsHeld
<1>8. QED
  BY <1>3, <1>4, <1>5, <1>6, <1>7, CallerMoves

LEMMA StepClaimAxes ==
    ASSUME DecodesInv, NEW c \in Callers, ClaimT(c) \/ ClaimRecorded(c) PROVE DecodesInv'
<1>1. CASE ClaimT(c)
  <2>1. "t" \in AxisKeys
    BY DEF AxisKeys
  <2>2. QED
    BY <1>1, <2>1, AxisClaimed DEF ClaimT, Leading
<1>2. CASE ClaimRecorded(c)
  <2>1. call[c].pc = "claim recorded" /\ ClaimAxis(c, Source[call[c].ch], "borrow")
    BY <1>2 DEF ClaimRecorded
  <2>2. Source[call[c].ch] \in AxisKeys
    BY <2>1 DEF AxisKeys, DecodesInv, Typed, Placed, Holding, Leading
  <2>3. QED
    BY <2>1, <2>2, AxisClaimed DEF Leading
<1>3. QED
  BY <1>1, <1>2

LEMMA StepBorrow ==
    ASSUME DecodesInv, NEW c \in Callers, Borrow(c) PROVE DecodesInv'
<1> DEFINE given == {a \in AxesOf(call[c].ch) : cache.axes[a] # 0}
           m == [call[c] EXCEPT !.pc = "read", !.held = given]
<1>1. /\ call[c].pc = "borrow" /\ call' = [call EXCEPT ![c] = m]
      /\ cache' = cache /\ pending' = pending /\ file' = file
  BY DEF Borrow, world
<1>2. call[c] \in Calls /\ Placed(call[c]) /\ call \in [Callers -> Calls]
  BY DEF DecodesInv, Typed
<1>3. given \subseteq AxisKeys
  BY <1>1, <1>2 DEF AxesOf, AxisKeys, Placed, Holding, Leading
<1>4. call'[c] = m /\ call' = [call EXCEPT ![c] = call'[c]]
  BY <1>1, <1>2
<1> HIDE DEF given
<1>5. m \in Calls /\ Placed(m) /\ ClaimedBy(m) = Claimed(c) /\ m.ch = call[c].ch
  BY <1>1, <1>2, <1>3 DEF Calls, Places, Placed, Claimed, ClaimedBy, Holding, Leading
<1> HIDE DEF m
<1>6. Shaped(cache') /\ Resident(cache') \subseteq Resident(cache) /\ call[c].pc \in Leading
  BY <1>1 DEF DecodesInv, Typed, Leading
<1>7. QED
  BY <1>1, <1>4, <1>5, <1>6, CallerMovesOn

LEMMA StepReadFile ==
    ASSUME DecodesInv, NEW c \in Callers, ReadFile(c) PROVE DecodesInv'
<1> DEFINE new == AxesOf(call[c].ch) \ call[c].held
           m == [call[c] EXCEPT !.pc = "insert", !.read = file, !.held = {}, !.fresh = new]
<1>1. /\ call[c].pc = "read" /\ call' = [call EXCEPT ![c] = m]
      /\ cache' = cache /\ pending' = pending /\ file' = file
  BY DEF ReadFile, world
<1>2. call[c] \in Calls /\ Placed(call[c]) /\ call \in [Callers -> Calls] /\ file \in Nat
  BY DEF DecodesInv, Typed
<1>3. new \subseteq AxisKeys
  BY <1>1, <1>2 DEF AxesOf, AxisKeys, Placed, Holding, Leading
<1>4. call'[c] = m /\ call' = [call EXCEPT ![c] = call'[c]]
  BY <1>1, <1>2
<1> HIDE DEF new
<1>5. m \in Calls /\ Placed(m) /\ ClaimedBy(m) = Claimed(c) /\ m.ch = call[c].ch
  BY <1>1, <1>2, <1>3 DEF Calls, Places, Placed, Claimed, ClaimedBy, Holding, Leading
<1> HIDE DEF m
<1>6. Shaped(cache') /\ Resident(cache') \subseteq Resident(cache) /\ call[c].pc \in Leading
  BY <1>1 DEF DecodesInv, Typed, Leading
<1>7. QED
  BY <1>1, <1>4, <1>5, <1>6, CallerMovesOn

(* Claims that are given up are taken from nobody else.                    *)
LEMMA StepReadFails ==
    ASSUME DecodesInv, NEW c \in Callers, ReadFails(c) PROVE DecodesInv'
<1> DEFINE m == [call[c] EXCEPT !.pc = "give back", !.claims = {}, !.held = {}]
<1>1. /\ call[c].pc \in {"claim t", "read"} /\ call' = [call EXCEPT ![c] = m]
      /\ cache' = cache /\ pending' = pending \ call[c].claims /\ file' = file
  BY DEF ReadFails, world
<1>2. /\ call[c] \in Calls /\ Placed(call[c]) /\ call \in [Callers -> Calls]
      /\ Shaped(cache') /\ file' \in Nat
  BY <1>1 DEF DecodesInv, Typed
<1>3. call'[c] = m /\ call' = [call EXCEPT ![c] = call'[c]]
  BY <1>1, <1>2
<1>4. /\ m \in Calls /\ Placed(m) /\ ClaimedBy(m) = {call[c].ch} /\ m.pc \notin Leading
      /\ Claimed(c) = call[c].claims \union {call[c].ch}
  BY <1>1, <1>2 DEF Calls, Places, Placed, Claimed, ClaimedBy, Holding, Leading
<1>5. call[c].ch \notin call[c].claims
  BY <1>1, <1>2, NamesAssumption DEF Calls, Placed, Holding, Leading
<1>6. /\ \A d \in Callers : call[d].pc \in Leading => call[d].ch \notin Resident(cache')
      /\ \A d \in Callers \ {c} : /\ Claimed(d) \subseteq pending'
                                /\ Claimed(d) \intersect ClaimedBy(m) = {}
      /\ ClaimedBy(m) \subseteq pending'
  BY <1>1, <1>4, <1>5 DEF DecodesInv, ClaimsHeld
<1>7. QED
  BY <1>2, <1>3, <1>4, <1>6, CallerMoves

LEMMA StepUnclaim ==
    ASSUME DecodesInv, NEW c \in Callers, Unclaim(c) PROVE DecodesInv'
<1>1. /\ call[c].pc = "unclaim" /\ Return(c) /\ cache' = cache /\ file' = file
      /\ pending' = pending \ (call[c].claims \union {call[c].ch})
  BY DEF Unclaim, world
<1>2. Shaped(cache') /\ file' \in Nat
  BY <1>1 DEF DecodesInv, Typed
<1>3. Claimed(c) = call[c].claims \union {call[c].ch}
  BY <1>1 DEF Claimed, ClaimedBy, Holding
<1>4. /\ \A d \in Callers : call[d].pc \in Leading => call[d].ch \notin Resident(cache')
      /\ \A d \in Callers \ {c} : Claimed(d) \subseteq pending'
  BY <1>1, <1>3 DEF DecodesInv, ClaimsHeld
<1>5. QED
  BY <1>1, <1>2, <1>4, ReturnFits, CallerMoves

(* What is inserted only its own caller was decoding.                      *)
LEMMA StepInsert ==
    ASSUME DecodesInv, NEW c \in Callers, Insert(c) PROVE DecodesInv'
<1> DEFINE me == call[c]
           Add(s, a) == IF a \in me.fresh THEN AxisInserted(s, a, me.read) ELSE s
           first == Inserted(cache, me.ch, me.read)
           m == [call[c] EXCEPT !.pc = "give back", !.fresh = {}, !.read = 0]
<1>1. /\ me.pc = "insert" /\ call' = [call EXCEPT ![c] = m]
      /\ pending' = pending /\ file' = file
      /\ cache' = Add(Add(first, "t"), Source[me.ch])
  BY DEF Insert, world
<1>2. /\ me \in Calls /\ Placed(me) /\ call \in [Callers -> Calls]
      /\ Shaped(cache) /\ file' \in Nat
  BY <1>1 DEF DecodesInv, Typed
<1>3. me.ch \in Channels /\ me.read \in Nat
  BY <1>1, <1>2 DEF Calls, Placed, Holding, Leading
<1>4. Shaped(first) /\ Resident(first) \subseteq Resident(cache) \union {me.ch}
  BY <1>2, <1>3, InsertedShape
<1> HIDE DEF me, first
<1>5. \A s, a : Shaped(s) => Shaped(Add(s, a)) /\ Resident(Add(s, a)) \subseteq Resident(s)
  BY AxisInsertedShape
<1>6. Shaped(cache') /\ Resident(cache') \subseteq Resident(cache) \union {me.ch}
  <2> HIDE DEF Add
  <2>1. Shaped(Add(first, "t")) /\ Resident(Add(first, "t")) \subseteq Resident(first)
    BY <1>4, <1>5
  <2>2. Shaped(cache') /\ Resident(cache') \subseteq Resident(Add(first, "t"))
    BY <1>1, <1>5, <2>1
  <2>3. QED
    BY <1>4, <2>1, <2>2
<1>7. call'[c] = m /\ call' = [call EXCEPT ![c] = call'[c]]
  BY <1>1, <1>2
<1>8. /\ m \in Calls /\ Placed(m) /\ ClaimedBy(m) = Claimed(c) /\ m.pc \notin Leading
      /\ me.ch \in Claimed(c)
  BY <1>1, <1>2 DEF me, Calls, Places, Placed, Claimed, ClaimedBy, Holding, Leading
<1> HIDE DEF m
<1>9. \A d \in Callers \ {c} : call[d].pc \in Leading => call[d].ch # me.ch
  <2>1. SUFFICES ASSUME NEW d \in Callers \ {c}, call[d].pc \in Leading
                 PROVE  call[d].ch # me.ch
    OBVIOUS
  <2>2. call[d].ch \in Claimed(d)
    BY <2>1 DEF Claimed, ClaimedBy, Holding
  <2>3. QED
    BY <1>8, <2>2 DEF DecodesInv, ClaimsHeld
<1>10. /\ \A d \in Callers \ {c} : call[d].pc \in Leading => call[d].ch \notin Resident(cache')
       /\ \A d \in Callers \ {c} : /\ Claimed(d) \subseteq pending'
                                 /\ Claimed(d) \intersect ClaimedBy(m) = {}
       /\ ClaimedBy(m) \subseteq pending'
  BY <1>1, <1>6, <1>8, <1>9 DEF DecodesInv, ClaimsHeld
<1>11. QED
  BY <1>2, <1>6, <1>7, <1>8, <1>10, CallerMoves

(* Between the reads a caller claims nothing; make_room only evicts.       *)
LEMMA Elsewhere ==
    ASSUME DecodesInv, NEW c \in Callers, NEW m \in Calls, Placed(m),
           m.pc \notin Holding, call' = [call EXCEPT ![c] = m],
           Shaped(cache'), Resident(cache') \subseteq Resident(cache),
           pending' = pending, file' = file
    PROVE  DecodesInv'
<1>1. call'[c] = m /\ call' = [call EXCEPT ![c] = call'[c]]
  BY DEF DecodesInv, Typed
<1>2. ClaimedBy(m) = {} /\ m.pc \notin Leading
  BY DEF ClaimedBy, Holding
<1>3. QED
  BY <1>1, <1>2, CallerMovesOn

LEMMA RoomEvicts ==
    ASSUME DecodesInv, \/ cache' = cache
                       \/ \E r \in {Room} : Dropped(r)
    PROVE  /\ Shaped(cache') /\ Resident(cache') \subseteq Resident(cache)
           /\ cache'.pins = cache.pins
  BY RoomShape DEF DecodesInv, Typed, Dropped

(* A caller at one of these places holds nothing.                          *)
LEMMA AdmittedFits ==
    ASSUME DecodesInv, NEW c \in Callers, NEW where \in {"queued", "running", "unpin"},
           call[c].pc \in {"admit", "queued"} \/ (call[c].pc = "running" /\ call[c].task # "member")
    PROVE  /\ [call[c] EXCEPT !.pc = where] \in Calls
           /\ Placed([call[c] EXCEPT !.pc = where])
           /\ [call[c] EXCEPT !.pc = where].pc \notin Holding
           /\ where = "running" => /\ [call[c] EXCEPT !.pc = where, !.task = "evaluate"] \in Calls
                                   /\ Placed([call[c] EXCEPT !.pc = where, !.task = "evaluate"])
                                   /\ [call[c] EXCEPT !.pc = where, !.task = "evaluate"].pc \notin Holding
<1>1. call[c] \in Calls /\ Placed(call[c])
  BY DEF DecodesInv, Typed
<1>2. QED
  BY <1>1 DEF Calls, Places, Tasks, Placed, Holding, Leading

LEMMA StepArrive ==
    ASSUME DecodesInv, NEW c \in Callers, Arrive(c) PROVE DecodesInv'
<1>1. call[c].pc = "admit" /\ pending' = pending /\ file' = file
  BY DEF Arrive, world
<1>2. Shaped(cache') /\ Resident(cache') \subseteq Resident(cache)
  <2>1. \/ cache' = cache
        \/ \E r \in {Room} : Dropped(r)
    BY DEF Arrive
  <2>2. QED
    BY <2>1, RoomEvicts
<1>3. CASE Queued(c)
  BY <1>1, <1>2, <1>3, AdmittedFits, Elsewhere DEF Queued, Goto
<1>4. CASE Admitted(c, "evaluate")
  BY <1>1, <1>2, <1>4, AdmittedFits, Elsewhere DEF Admitted
<1>5. QED
  BY <1>3, <1>4 DEF Arrive

LEMMA StepTryAgain ==
    ASSUME DecodesInv, NEW c \in Callers, TryAgain(c) PROVE DecodesInv'
<1>1. call[c].pc = "queued" /\ pending' = pending /\ file' = file
  BY DEF TryAgain, world
<1>2. Shaped(cache') /\ Resident(cache') \subseteq Resident(cache)
  <2>1. \/ cache' = cache
        \/ \E r \in {Room} : Dropped(r)
    BY DEF TryAgain
  <2>2. QED
    BY <2>1, RoomEvicts
<1>3. CASE WaitsOrLeaves(c)
  <2>1. CASE call' = call
    <3>1. file' \in Nat
      BY <1>1 DEF DecodesInv, Typed
    <3>2. QED
      BY <1>1, <1>2, <2>1, <3>1, OnlyEvicts
  <2>2. CASE Goto(c, "unpin")
    BY <1>1, <1>2, <2>2, AdmittedFits, Elsewhere DEF Goto
  <2>3. QED
    BY <1>3, <2>1, <2>2 DEF WaitsOrLeaves
<1>4. CASE Admitted(c, "evaluate")
  BY <1>1, <1>2, <1>4, AdmittedFits, Elsewhere DEF Admitted
<1>5. QED
  BY <1>3, <1>4 DEF TryAgain

LEMMA StepTryAdmit ==
    ASSUME DecodesInv, NEW c \in Callers, TryAdmit(c) PROVE DecodesInv'
<1>1. /\ call[c].pc = "idle" /\ pending' = pending /\ file' = file
      /\ \E r \in {Room} : Dropped(r)
      /\ call' = call \/ Admitted(c, "member")
  BY DEF TryAdmit, world
<1>2. Shaped(cache') /\ Resident(cache') \subseteq Resident(cache)
  BY <1>1, RoomEvicts
<1>3. CASE call' = call
  <2>1. file' \in Nat
    BY <1>1 DEF DecodesInv, Typed
  <2>2. QED
    BY <1>1, <1>2, <1>3, <2>1, OnlyEvicts
<1>4. CASE Admitted(c, "member")
  <2> DEFINE m == [call[c] EXCEPT !.pc = "running", !.task = "member"]
  <2>1. call[c] \in Calls /\ Placed(call[c])
    BY DEF DecodesInv, Typed
  <2>2. m \in Calls /\ Placed(m) /\ m.pc \notin Holding
    BY <1>1, <2>1 DEF Calls, Places, Tasks, Placed, Holding, Leading
  <2>3. QED
    <3>1. call' = [call EXCEPT ![c] = m] /\ pending' = pending /\ file' = file
      BY <1>1, <1>4 DEF Admitted
    <3>2. QED
      BY <1>2, <2>2, <3>1, Elsewhere
<1>5. QED
  BY <1>1, <1>3, <1>4

LEMMA StepRun ==
    ASSUME DecodesInv, NEW c \in Callers, Lookup(c) \/ EndRun(c) PROVE DecodesInv'
<1>1. /\ call[c].pc = "running" /\ cache' = cache /\ pending' = pending /\ file' = file
  BY DEF Lookup, EndRun, world
<1>2. /\ call[c] \in Calls /\ Placed(call[c])
      /\ Shaped(cache') /\ Resident(cache') \subseteq Resident(cache)
  BY <1>1 DEF DecodesInv, Typed
<1>3. CASE Lookup(c)
  <2>1. Start(c, "lookup", call[c].ch) /\ call[c].ch \in Channels
    BY <1>1, <1>2, <1>3 DEF Lookup, Placed
  <2>2. QED
    BY <1>1, <1>2, <2>1, StartFits, CallerMovesOn
<1>4. CASE EndRun(c) /\ call[c].task = "member"
  <2>1. call' = [call EXCEPT ![c] = Idle]
    BY <1>4 DEF EndRun
  <2>2. Idle.pc \notin Holding
    BY DEF Idle, Holding, Leading
  <2>3. QED
    BY <1>1, <1>2, <2>1, <2>2, IdleFits, Elsewhere
<1>5. CASE EndRun(c) /\ call[c].task # "member"
  <2>1. call' = [call EXCEPT ![c] = [call[c] EXCEPT !.pc = "unpin"]]
    BY <1>5 DEF EndRun
  <2>2. QED
    BY <1>1, <1>2, <1>5, <2>1, AdmittedFits, Elsewhere
<1>6. QED
  BY <1>3, <1>4, <1>5

LEMMA StepUnpin ==
    ASSUME DecodesInv, NEW c \in Callers, Unpin(c) PROVE DecodesInv'
<1> DEFINE s == [cache EXCEPT !.pins = [cache.pins EXCEPT ![call[c].ch] = @ - 1]]
<1>1. /\ cache' = EvictToBudget(s) /\ call' = [call EXCEPT ![c] = Idle]
      /\ pending' = pending /\ file' = file
  BY DEF Unpin, world
<1>2. Shaped(s) /\ Resident(s) = Resident(cache)
  BY DEF DecodesInv, Typed, Shaped, Resident
<1>3. Shaped(cache') /\ Resident(cache') \subseteq Resident(cache)
  BY <1>1, <1>2, EvictToBudgetShape
<1>4. Idle.pc \notin Holding
  BY DEF Idle, Holding, Leading
<1>5. QED
  BY <1>1, <1>3, <1>4, IdleFits, Elsewhere

(* The file, and the machine.                                              *)
LEMMA StepWorld ==
    ASSUME DecodesInv, Import \/ ImportDone \/ Reimport \/ ReimportDone \/ Probe
    PROVE  DecodesInv'
<1>1. call' = call /\ pending' = pending /\ (cache' = cache \/ InvalidateSession)
  BY DEF Import, ImportDone, Reimport, ReimportDone, Probe
<1>2. file' \in Nat
  BY DEF DecodesInv, Typed, Import, ImportDone, Reimport, ReimportDone, Probe
<1>3. Shaped(cache') /\ Resident(cache') \subseteq Resident(cache)
  <2>1. Shaped(cache)
    BY DEF DecodesInv, Typed
  <2>2. CASE cache' = cache
    BY <2>1, <2>2
  <2>3. CASE InvalidateSession
    <3>1. Shaped(Without(cache, Channels)) /\ Resident(Without(cache, Channels)) \subseteq Resident(cache)
      BY <2>1, WithoutShape
    <3>2. QED
      BY <2>3, <3>1, DropShape DEF InvalidateSession
  <2>4. QED
    BY <1>1, <2>2, <2>3
<1>4. QED
  BY <1>1, <1>2, <1>3, OnlyEvicts

LEMMA StepDecodes == DecodesInv /\ [Next]_vars => DecodesInv'
<1>1. SUFFICES ASSUME DecodesInv, [Next]_vars PROVE DecodesInv'
  OBVIOUS
<1>2. ASSUME NEW c \in Callers, NEW x \in Channels, Read(c, x) \/ PinInput(c, x)
      PROVE  DecodesInv'
  BY <1>1, <1>2, StepRead, StepPinInput
<1>3. ASSUME NEW c \in Callers, Reading(c) PROVE DecodesInv'
  BY <1>1, <1>3, StepHit, StepLead, StepReserve, StepClaimAxes, StepBorrow, StepReadFile,
     StepReadFails, StepInsert, StepUnclaim
     DEF Reading
<1>4. ASSUME NEW c \in Callers, TryAdmit(c) \/ Evaluating(c) PROVE DecodesInv'
  BY <1>1, <1>4, StepTryAdmit, StepArrive, StepTryAgain, StepRun, StepUnpin DEF Evaluating
<1>5. CASE UNCHANGED vars
  BY <1>1, <1>5 DEF vars, world, DecodesInv, Typed, ClaimsHeld, Claimed
<1>6. QED
  BY <1>1, <1>2, <1>3, <1>4, <1>5, StepWorld DEF Next

THEOREM DecodesKept == Spec => []DecodesInv
<1>1. QED
  BY InitDecodes, StepDecodes, PTL DEF Spec

(* However many callers ask for a channel at once, one of them decodes it, *)
(* and nobody decodes what is resident (channel, claim, InFlight).         *)
THEOREM OneDecodeAtATime == Spec => []OneDecodePerChannel
<1>1. DecodesInv => OneDecodePerChannel
  <2>1. SUFFICES ASSUME DecodesInv, NEW c \in Callers, call[c].pc \in Leading
                 PROVE  /\ call[c].ch \notin Resident(cache)
                        /\ \A d \in Callers \ {c} :
                              call[d].pc \in Leading => call[d].ch # call[c].ch
    BY DEF OneDecodePerChannel
  <2>2. \A d \in Callers : call[d].pc \in Leading => call[d].ch \in Claimed(d)
    BY DEF Claimed, ClaimedBy, Holding
  <2>3. QED
    BY <2>1, <2>2 DEF DecodesInv, ClaimsHeld
<1>2. QED
  BY <1>1, DecodesKept, PTL

---------------------------------------------------------------------------
(* The grants.  Reserve and make_room compare with the same budget, and    *)
(* that never exceeds the ceiling, whatever the machine reports.           *)

GrantsInv ==
    /\ inFlight \in Int /\ evalReserved \in Int /\ kept \in Nat
    /\ sample \in Samples
    /\ GrantsWithinCeiling

LEMMA MinOfTwo ==
    \A a, b \in Int : Min({a, b}) \in {a, b} /\ Min({a, b}) <= a /\ Min({a, b}) <= b
  BY DEF Min

LEMMA MinOfNats == ASSUME NEW T \in SUBSET Nat, T # {} PROVE Min(T) \in T
  BY LeastNatural DEF Min

LEMMA BudgetBelowCeiling ==
    ASSUME sample \in Samples, NEW n \in Int PROVE BudgetFor(n) \in Int /\ BudgetFor(n) <= Ceiling
<1> DEFINE own == Min({sample.own, n})
<1>1. sample.own \in Int /\ sample.available \in Int /\ Ceiling \in Int
  BY BytesAssumption
<1>2. own \in Int
  BY <1>1, MinOfTwo
<1> HIDE DEF own
<1>3. own + sample.available \in Int
  BY <1>1, <1>2
<1>4. QED
  BY <1>1, <1>3, MinOfTwo DEF BudgetFor, own

LEMMA AxisKeysFinite == IsFiniteSet(AxisKeys)
<1> DEFINE recorded == {Source[x] : x \in Channels}
           f == [x \in Channels |-> Source[x]]
<1>1. f \in Surjection(Channels, recorded)
  BY DEF Surjection
<1>2. IsFiniteSet(recorded)
  BY <1>1, FS_Surjection, NamesAssumption
<1>3. QED
  BY <1>2, FS_AddElement DEF AxisKeys

LEMMA BytesNatural == \A s : Bytes(s) \in Nat
<1>1. ASSUME NEW s
      PROVE  /\ Cardinality(Resident(s)) \in Nat
             /\ Cardinality({a \in AxisKeys : s.axes[a] # 0}) \in Nat
  BY AxisKeysFinite, FS_Subset, FS_CardinalityType, NamesAssumption DEF Resident
<1>2. \A i, j, k, l \in Nat : i * j + k * l \in Nat
  OBVIOUS
<1>3. QED
  BY <1>1, <1>2, BytesAssumption DEF Bytes

(* make_room gives up kept evaluations that there are, and no more.        *)
LEMMA RoomKeeps == ASSUME kept \in Nat PROVE Room.kept \in Nat
<1> DEFINE last == Droppable + kept
           T == {last} \union {i \in 0 .. last : Fits(Made(i)) \/ Futile(Made(i))}
<1>1. Droppable \in Nat
  BY FS_Subset, FS_CardinalityType, NamesAssumption DEF Droppable, Resident
<1>2. T \in SUBSET (0 .. last) /\ T # {}
  BY <1>1
<1>3. T \in SUBSET Nat
  BY <1>1, <1>2
<1> HIDE DEF T
<1>4. Min(T) \in 0 .. last
  BY <1>2, <1>3, MinOfNats
<1>5. \A i \in 0 .. last : Made(i).kept \in Nat
  BY <1>1 DEF Made
<1>6. Room = Made(Min(T))
  BY DEF Room, T
<1>7. QED
  BY <1>4, <1>5, <1>6

LEMMA FitsWithinCeiling ==
    ASSUME GrantsInv, Fits(Room) PROVE inFlight + evalReserved + EvalBytes <= Ceiling
<1> DEFINE b == Bytes(Room.cache)
           k == KeptBytes * Room.kept
           held == b + k + inFlight + evalReserved
<1>1. b \in Nat
  BY BytesNatural
<1>2. k \in Nat
  <2>1. Room.kept \in Nat
    BY RoomKeeps DEF GrantsInv
  <2>2. \A i, j \in Nat : i * j \in Nat
    OBVIOUS
  <2>3. QED
    BY <2>1, <2>2, BytesAssumption
<1>3. held + EvalBytes <= BudgetFor(held)
  BY DEF Fits, Accounted
<1> HIDE DEF b, k
<1>4. held \in Int
  BY <1>1, <1>2 DEF GrantsInv
<1>5. BudgetFor(held) \in Int /\ BudgetFor(held) <= Ceiling
  BY <1>4, BudgetBelowCeiling DEF GrantsInv
<1>6. QED
  BY <1>1, <1>2, <1>3, <1>5, BytesAssumption DEF GrantsInv

LEMMA DecodeFitsWithinCeiling ==
    ASSUME GrantsInv, DecodeFits PROVE inFlight + evalReserved + DecodeBytes <= Ceiling
<1> DEFINE b == Bytes(cache)
           k == KeptBytes * kept
           held == b + k + inFlight + evalReserved
<1>1. b \in Nat /\ k \in Nat
  <2>1. \A i, j \in Nat : i * j \in Nat
    OBVIOUS
  <2>2. QED
    BY <2>1, BytesNatural, BytesAssumption DEF GrantsInv
<1>2. inFlight + evalReserved + DecodeBytes <= BudgetFor(held)
  BY DEF DecodeFits, Accounted
<1> HIDE DEF b, k
<1>3. held \in Int
  BY <1>1 DEF GrantsInv
<1>4. BudgetFor(held) \in Int /\ BudgetFor(held) <= Ceiling
  BY <1>3, BudgetBelowCeiling DEF GrantsInv
<1>5. QED
  BY <1>2, <1>4, BytesAssumption DEF GrantsInv

LEMMA InitGrants == Init => GrantsInv
  BY BytesAssumption DEF Init, GrantsInv, GrantsWithinCeiling

(* make_room has been called, and the evaluation let in or not.            *)
LEMMA RoomGrants ==
    ASSUME GrantsInv, \E r \in {Room} : Dropped(r) /\ (Fits(r) \/ evalReserved' = evalReserved),
           \/ evalReserved' = evalReserved
           \/ evalReserved' = evalReserved + EvalBytes,
           inFlight' = inFlight, sample' = sample
    PROVE  GrantsInv'
<1>1. kept' \in Nat
  BY RoomKeeps DEF GrantsInv, Dropped
<1>2. evalReserved' = evalReserved + EvalBytes /\ evalReserved' # evalReserved
        => inFlight + evalReserved + EvalBytes <= Ceiling
  BY FitsWithinCeiling
<1>3. QED
  BY <1>1, <1>2, BytesAssumption DEF GrantsInv, GrantsWithinCeiling

LEMMA StepGrants == GrantsInv /\ [Next]_vars => GrantsInv'
<1>1. SUFFICES ASSUME GrantsInv, [Next]_vars PROVE GrantsInv'
  OBVIOUS
<1>2. CASE UNCHANGED <<ledger, kept, sample>>
  BY <1>1, <1>2 DEF ledger, GrantsInv, GrantsWithinCeiling
<1>3. ASSUME NEW c \in Callers, Reserve(c) PROVE GrantsInv'
  <2>1. /\ inFlight' = inFlight + DecodeBytes /\ evalReserved' = evalReserved
        /\ kept' = kept /\ sample' = sample
    BY <1>3 DEF Reserve, world
  <2>2. inFlight + evalReserved + DecodeBytes <= Ceiling
    BY <1>1, <1>3, DecodeFitsWithinCeiling DEF Reserve
  <2>3. QED
    BY <1>1, <2>1, <2>2, BytesAssumption DEF GrantsInv, GrantsWithinCeiling
<1>4. ASSUME NEW c \in Callers, GiveBack(c) PROVE GrantsInv'
  <2>1. /\ inFlight' = inFlight - DecodeBytes /\ evalReserved' = evalReserved
        /\ kept' = kept /\ sample' = sample
    BY <1>4 DEF GiveBack, Returned, world
  <2>2. QED
    BY <1>1, <2>1, BytesAssumption DEF GrantsInv, GrantsWithinCeiling
<1>5. ASSUME NEW c \in Callers, Arrive(c) PROVE GrantsInv'
  <2>1. inFlight' = inFlight /\ sample' = sample
    BY <1>5 DEF Arrive, world
  <2>2. CASE queue # <<>>
    BY <1>1, <1>5, <2>1, <2>2 DEF Arrive, Queued, GrantsInv, GrantsWithinCeiling
  <2>3. CASE queue = <<>>
    BY <1>1, <1>5, <2>1, <2>3, RoomGrants DEF Arrive, Queued, Admitted
  <2>4. QED
    BY <2>2, <2>3
<1>6. ASSUME NEW c \in Callers, TryAgain(c) PROVE GrantsInv'
  <2>1. inFlight' = inFlight /\ sample' = sample
    BY <1>6 DEF TryAgain, world
  <2>2. CASE Head(queue) # c
    BY <1>1, <1>6, <2>1, <2>2 DEF TryAgain, WaitsOrLeaves, GrantsInv, GrantsWithinCeiling
  <2>3. CASE Head(queue) = c
    BY <1>1, <1>6, <2>1, <2>3, RoomGrants DEF TryAgain, WaitsOrLeaves, Admitted
  <2>4. QED
    BY <2>2, <2>3
<1>7. ASSUME NEW c \in Callers, TryAdmit(c) PROVE GrantsInv'
  BY <1>1, <1>7, RoomGrants DEF TryAdmit, Admitted, world
<1>8. ASSUME NEW c \in Callers, EndRun(c) PROVE GrantsInv'
  BY <1>1, <1>8, BytesAssumption DEF EndRun, world, GrantsInv, GrantsWithinCeiling
<1>9. ASSUME NEW c \in Callers, Unpin(c) PROVE GrantsInv'
  BY <1>1, <1>9 DEF Unpin, ledger, world, GrantsInv, GrantsWithinCeiling
<1>10. CASE Probe
  BY <1>1, <1>10 DEF Probe, ledger, GrantsInv, GrantsWithinCeiling
<1>11. ASSUME NEW c \in Callers,
              \/ \E x \in Channels : Read(c, x) \/ PinInput(c, x)
              \/ Hit(c) \/ Lead(c) \/ NotReserved(c) \/ ClaimT(c) \/ ClaimRecorded(c) \/ Borrow(c)
              \/ ReadFile(c) \/ ReadFails(c) \/ Insert(c) \/ Unclaim(c) \/ Lookup(c)
       PROVE  UNCHANGED <<ledger, kept, sample>>
  BY <1>11 DEF Read, PinInput, Hit, Lead, NotReserved, ClaimT, ClaimRecorded, ClaimAxis, Borrow,
     ReadFile, ReadFails, Insert, Unclaim, Lookup, world
<1>12. ASSUME Import \/ ImportDone \/ Reimport \/ ReimportDone
       PROVE  UNCHANGED <<ledger, kept, sample>>
  BY <1>12 DEF Import, ImportDone, Reimport, ReimportDone
<1>13. CASE UNCHANGED vars
  BY <1>2, <1>13 DEF vars, world
<1>14. QED
  BY <1>1, <1>2, <1>3, <1>4, <1>5, <1>6, <1>7, <1>8, <1>9, <1>10, <1>11, <1>12, <1>13
     DEF Next, Reading, Evaluating

(* The decodes and evaluations that have been let in never amount to more  *)
(* than the ceiling (reserve, make_room, try_admit, admit).                *)
THEOREM GrantsBelowCeiling == Spec => []GrantsWithinCeiling
<1>1. GrantsInv => GrantsWithinCeiling
  BY DEF GrantsInv
<1>2. QED
  BY <1>1, InitGrants, StepGrants, PTL DEF Spec

---------------------------------------------------------------------------
(* The axes.  Whatever evicts drops only axes nobody reads through: of two *)
(* evictions the second leaves no more channels than the first.            *)

HasAxes(s) == s.axes \in [AxisKeys -> Nat]
Free(s, a) == /\ \A x \in Resident(s) : a \notin AxesOf(x)
              /\ \A c \in Callers : a \notin call[c].held
Frees(s, t) ==
    /\ Shaped(t) /\ HasAxes(t) /\ Resident(t) \subseteq Resident(s)
    /\ \A a \in AxisKeys : s.axes[a] # 0 /\ t.axes[a] = 0 => Free(t, a)

AxesStay == \A a \in AxisKeys : cache.axes[a] # 0 /\ cache'.axes[a] = 0 => Free(cache', a)

LEMMA FreesTwice == \A s, t, u : Frees(s, t) /\ Frees(t, u) => Frees(s, u)
  BY DEF Frees, Free

LEMMA FreesNothing == \A s : Shaped(s) /\ HasAxes(s) => Frees(s, s)
  BY DEF Frees

LEMMA DropFrees == \A s : Shaped(s) /\ HasAxes(s) => Frees(s, DropUnborrowed(s))
<1> TAKE s
<1> DEFINE t == DropUnborrowed(s)
           axes == [a \in AxisKeys |-> IF Borrowed(s, a) THEN s.axes[a] ELSE 0]
<1>1. SUFFICES ASSUME Shaped(s), HasAxes(s) PROVE Frees(s, t)
  OBVIOUS
<1>2. Shaped(t) /\ Resident(t) = Resident(s)
  BY <1>1, DropShape
<1>3. t.axes = axes
  BY <1>1 DEF DropUnborrowed, Shaped
<1>4. HasAxes(t)
  BY <1>1, <1>3 DEF HasAxes
<1>5. ASSUME NEW a \in AxisKeys, s.axes[a] # 0, t.axes[a] = 0 PROVE Free(t, a)
  <2>1. ~Borrowed(s, a)
    BY <1>3, <1>5
  <2>2. QED
    BY <1>2, <2>1 DEF Borrowed, Free
<1>6. QED
  BY <1>2, <1>4, <1>5 DEF Frees

LEMMA WithoutFrees == \A s, gone : Shaped(s) /\ HasAxes(s) => Frees(s, Without(s, gone))
<1> TAKE s, gone
<1> DEFINE t == Without(s, gone)
           order == Select(s.order, Channels \ gone)
<1>1. SUFFICES ASSUME Shaped(s), HasAxes(s) PROVE Frees(s, t)
  OBVIOUS
<1>2. Shaped(t) /\ Resident(t) \subseteq Resident(s)
  BY <1>1, WithoutShape
<1>3. t = [s EXCEPT !.entries = [x \in Channels |-> IF x \in gone THEN 0 ELSE s.entries[x]],
                    !.order = order]
  BY DEF Without
<1> HIDE DEF t, order
<1>4. t.axes = s.axes
  BY <1>1, <1>3 DEF Shaped
<1>5. QED
  BY <1>1, <1>2, <1>4 DEF Frees, HasAxes, t

LEMMA EvictedFrees == \A s, n : Shaped(s) /\ HasAxes(s) => Frees(s, Evicted(s, n))
<1> TAKE s, n
<1> DEFINE t == Without(s, Range(SubSeq(Coldest(s), 1, n)))
<1>1. SUFFICES ASSUME Shaped(s), HasAxes(s) PROVE Frees(s, Evicted(s, n))
  OBVIOUS
<1>2. Frees(s, t)
  BY <1>1, WithoutFrees
<1>3. Frees(t, DropUnborrowed(t))
  BY <1>2, DropFrees DEF Frees
<1>4. Evicted(s, n) = IF n = 0 THEN s ELSE DropUnborrowed(t)
  BY DEF Evicted
<1> HIDE DEF t
<1>5. QED
  BY <1>1, <1>2, <1>3, <1>4, FreesTwice, FreesNothing

LEMMA EvictToBudgetFrees == \A s : Shaped(s) /\ HasAxes(s) => Frees(s, EvictToBudget(s))
<1> TAKE s
<1>1. SUFFICES ASSUME Shaped(s), HasAxes(s) PROVE Frees(s, EvictToBudget(s))
  OBVIOUS
<1>2. ASSUME NEW n PROVE Frees(s, DropUnborrowed(Evicted(s, n)))
  <2>1. Frees(s, Evicted(s, n))
    BY <1>1, EvictedFrees
  <2>2. Frees(Evicted(s, n), DropUnborrowed(Evicted(s, n)))
    BY <2>1, DropFrees DEF Frees
  <2>3. QED
    BY <2>1, <2>2, FreesTwice
<1>3. QED
  BY <1>1, <1>2, FreesNothing DEF EvictToBudget

LEMMA AxisInsertedFrees ==
    \A s, a, v : Shaped(s) /\ HasAxes(s) /\ v \in Nat => Frees(s, AxisInserted(s, a, v))
<1> TAKE s, a, v
<1> DEFINE t == [s EXCEPT !.axes[a] = v]
<1>1. SUFFICES ASSUME Shaped(s), HasAxes(s), v \in Nat PROVE Frees(s, AxisInserted(s, a, v))
  OBVIOUS
<1>2. CASE s.axes[a] # 0
  BY <1>1, <1>2, FreesNothing DEF AxisInserted
<1>3. CASE s.axes[a] = 0
  <2>1. Shaped(t) /\ Resident(t) = Resident(s) /\ t.axes = [s.axes EXCEPT ![a] = v]
    BY <1>1 DEF Shaped, Resident
  <2>2. HasAxes(t) /\ \A b \in AxisKeys : b # a => t.axes[b] = s.axes[b]
    BY <1>1, <2>1 DEF HasAxes
  <2> HIDE DEF t
  <2>3. Frees(s, t)
    BY <1>3, <2>1, <2>2 DEF Frees
  <2>4. Frees(t, EvictToBudget(t))
    BY <2>1, <2>2, EvictToBudgetFrees
  <2>5. AxisInserted(s, a, v) = EvictToBudget(t)
    BY <1>3 DEF AxisInserted, t
  <2>6. QED
    BY <2>3, <2>4, <2>5, FreesTwice
<1>4. QED
  BY <1>2, <1>3

(* The steps: those that leave the axes alone, those that only evict, and  *)
(* insert, which frees axes only once the new channel is counted.          *)
LEMMA FreesStay ==
    ASSUME NEW s, s.axes = cache.axes, Frees(s, cache')
    PROVE  HasAxes(cache') /\ AxesStay
  BY DEF Frees, AxesStay

LEMMA InsertAxes ==
    ASSUME DecodesInv, HasAxes(cache), NEW c \in Callers, Insert(c)
    PROVE  HasAxes(cache') /\ AxesStay
<1> DEFINE me == call[c]
           Add(s, a) == IF a \in me.fresh THEN AxisInserted(s, a, me.read) ELSE s
           t == [Touched(cache, me.ch) EXCEPT !.entries[me.ch] = me.read]
           first == Inserted(cache, me.ch, me.read)
<1>1. me.pc = "insert" /\ cache' = Add(Add(first, "t"), Source[me.ch])
  BY DEF Insert
<1>2. me \in Calls /\ Placed(me) /\ Shaped(cache)
  BY DEF DecodesInv, Typed
<1>3. me.ch \in Channels /\ me.read \in Nat
  BY <1>1, <1>2 DEF Calls, Placed, Holding, Leading
<1>4. Shaped(Touched(cache, me.ch))
  BY <1>2, TouchedShape
<1>5. Touched(cache, me.ch).axes = cache.axes
  <2> DEFINE order == Append(Select(cache.order, Channels \ {me.ch}), me.ch)
  <2>1. Touched(cache, me.ch) = [cache EXCEPT !.order = order]
    BY DEF Touched
  <2> HIDE DEF order
  <2>2. QED
    BY <1>2, <2>1 DEF Shaped
<1>6. Shaped(t) /\ t.axes = cache.axes
  BY <1>3, <1>4, <1>5 DEF Shaped
<1> HIDE DEF t
<1>7. Frees(t, first)
  BY <1>6, EvictToBudgetFrees DEF Inserted, t, HasAxes
<1> HIDE DEF first, me
<1>8. \A s, a : Shaped(s) /\ HasAxes(s) => Frees(s, Add(s, a))
  BY <1>3, AxisInsertedFrees, FreesNothing
<1> HIDE DEF Add
<1>9. Frees(t, Add(first, "t"))
  BY <1>7, <1>8, FreesTwice DEF Frees
<1>10. Frees(Add(first, "t"), cache')
  BY <1>1, <1>8, <1>9 DEF Frees
<1>11. Frees(t, cache')
  BY <1>9, <1>10, FreesTwice
<1>12. QED
  BY <1>6, <1>11, FreesStay

LEMMA RoomAxes ==
    ASSUME DecodesInv, HasAxes(cache), cache' = cache \/ \E r \in {Room} : Dropped(r)
    PROVE  HasAxes(cache') /\ AxesStay
<1>1. Shaped(cache)
  BY DEF DecodesInv, Typed
<1>2. \A i : Frees(cache, Made(i).cache)
  BY <1>1, EvictedFrees DEF Made
<1>3. Frees(cache, cache')
  BY <1>1, <1>2, FreesNothing DEF Room, Dropped
<1>4. QED
  BY <1>3, FreesStay

LEMMA UnpinAxes ==
    ASSUME DecodesInv, HasAxes(cache), NEW c \in Callers, Unpin(c)
    PROVE  HasAxes(cache') /\ AxesStay
<1> DEFINE s == [cache EXCEPT !.pins = [cache.pins EXCEPT ![call[c].ch] = @ - 1]]
<1>1. cache' = EvictToBudget(s)
  BY DEF Unpin
<1>2. Shaped(s) /\ s.axes = cache.axes
  BY DEF DecodesInv, Typed, Shaped
<1> HIDE DEF s
<1>3. Frees(s, cache')
  BY <1>1, <1>2, EvictToBudgetFrees DEF HasAxes
<1>4. QED
  BY <1>2, <1>3, FreesStay

LEMMA InvalidateAxes ==
    ASSUME DecodesInv, HasAxes(cache), InvalidateSession
    PROVE  HasAxes(cache') /\ AxesStay
<1> DEFINE t == Without(cache, Channels)
<1>1. Shaped(cache)
  BY DEF DecodesInv, Typed
<1>2. Frees(cache, t)
  BY <1>1, WithoutFrees
<1> HIDE DEF t
<1>3. Frees(t, DropUnborrowed(t))
  BY <1>2, DropFrees DEF Frees
<1>4. Frees(cache, cache')
  BY <1>2, <1>3, FreesTwice DEF InvalidateSession, t
<1>5. QED
  BY <1>4, FreesStay

LEMMA SameAxes ==
    ASSUME HasAxes(cache), cache'.axes = cache.axes PROVE HasAxes(cache') /\ AxesStay
  BY DEF HasAxes, AxesStay

LEMMA StepAxes ==
    ASSUME DecodesInv, HasAxes(cache), [Next]_vars
    PROVE  HasAxes(cache') /\ AxesStay
<1>1. Shaped(cache)
  BY DEF DecodesInv, Typed
<1>2. ASSUME NEW c \in Callers, NEW x \in Channels, Read(c, x) \/ PinInput(c, x)
      PROVE  HasAxes(cache') /\ AxesStay
  <2>1. cache'.axes = cache.axes
    BY <1>1, <1>2 DEF Read, PinInput, Shaped
  <2>2. QED
    BY <2>1, SameAxes
<1>3. ASSUME NEW c \in Callers, Hit(c) PROVE HasAxes(cache') /\ AxesStay
  <2> DEFINE order == Append(Select(cache.order, Channels \ {call[c].ch}), call[c].ch)
  <2>1. cache' = [cache EXCEPT !.order = order]
    BY <1>3 DEF Hit, Touched
  <2> HIDE DEF order
  <2>2. cache'.axes = cache.axes
    BY <1>1, <2>1 DEF Shaped
  <2>3. QED
    BY <2>2, SameAxes
<1>4. ASSUME NEW c \in Callers,
             \/ Lead(c) \/ Reserve(c) \/ NotReserved(c) \/ ClaimT(c) \/ ClaimRecorded(c)
             \/ Borrow(c) \/ ReadFile(c) \/ ReadFails(c) \/ GiveBack(c) \/ Unclaim(c)
             \/ Lookup(c) \/ EndRun(c)
      PROVE  HasAxes(cache') /\ AxesStay
  BY <1>4, SameAxes DEF Lead, Reserve, NotReserved, ClaimT, ClaimRecorded, ClaimAxis, Borrow,
     ReadFile, ReadFails, GiveBack, Unclaim, Lookup, EndRun
<1>5. ASSUME NEW c \in Callers, Arrive(c) \/ TryAgain(c) \/ TryAdmit(c)
      PROVE  HasAxes(cache') /\ AxesStay
  BY <1>5, RoomAxes DEF Arrive, TryAgain, TryAdmit
<1>6. ASSUME Import \/ ImportDone \/ Reimport \/ ReimportDone \/ Probe
      PROVE  HasAxes(cache') /\ AxesStay
  BY <1>6, SameAxes, InvalidateAxes DEF Import, ImportDone, Reimport, ReimportDone, Probe
<1>7. CASE UNCHANGED vars
  BY <1>7, SameAxes DEF vars
<1>8. QED
  BY <1>2, <1>3, <1>4, <1>5, <1>6, <1>7, InsertAxes, UnpinAxes DEF Next, Reading, Evaluating

(* A time axis is dropped only when no resident channel and no decode      *)
(* reads through it (evict_unborrowed_axes), however evictions, inserts,   *)
(* admissions, unpinning and invalidation follow each other.               *)
THEOREM BorrowedAxes == Spec => BorrowedAxisStays
<1> DEFINE Stays ==
        \A a \in AxisKeys : cache.axes[a] # 0 /\ cache'.axes[a] = 0 =>
            /\ \A x \in Resident(cache') : a \notin AxesOf(x)
            /\ \A c \in Callers : a \notin call[c].held
<1>1. Init => HasAxes(cache)
  BY DEF Init, HasAxes
<1>2. DecodesInv /\ HasAxes(cache) /\ [Next]_vars => HasAxes(cache)' /\ [Stays]_vars
  BY StepAxes DEF AxesStay, Free
<1>3. QED
  BY InitDecodes, StepDecodes, <1>1, <1>2, PTL DEF Spec, BorrowedAxisStays
---------------------------------------------------------------------------
(* The counters.  Each counts callers by where they are; one step moves    *)
(* one caller, and changes the counters by what it takes or gives back.    *)

HoldsDecode(m) == m.pc \in Reserved
HoldsEval(m) == m.pc = "running" \/ m.task = "lookup"
Pins(m, x) ==
    /\ m.ch = x
    /\ \/ m.task \in {"prefetch", "lookup"}
       \/ m.pc \in {"admit", "queued", "unpin"}
       \/ m.pc = "running" /\ m.task # "member"

\* Where a caller is tells its task; a decode that inserts has read a version.
Tasked(m) ==
    /\ m.pc \in {"idle", "admit", "queued"} => m.task = "none"
    /\ m.pc = "running" => m.task \in {"evaluate", "member"}
    /\ m.pc = "unpin" => m.task \in {"none", "evaluate"}
    /\ m.pc = "insert" => m.read # 0
TaskedInv == file # 0 /\ \A c \in Callers : Tasked(call[c])

Decoding == {c \in Callers : HoldsDecode(call[c])}
Evaluators == {c \in Callers : HoldsEval(call[c])}
Pinners(x) == {c \in Callers : Pins(call[c], x)}
Waiting == {c \in Callers : call[c].pc = "queued"}

CountersInv ==
    /\ inFlight = DecodeBytes * Cardinality(Decoding)
    /\ evalReserved = EvalBytes * Cardinality(Evaluators)
    /\ cache.pins = [x \in Channels |-> Cardinality(Pinners(x))]
QueueInv ==
    /\ queue \in Seq(Callers) /\ Distinct(queue) /\ Elements(queue) = Waiting

LEMMA CallersFinite ==
    ASSUME NEW S \in SUBSET Callers PROVE IsFiniteSet(S) /\ Cardinality(S) \in Nat
  BY CallersAssumption, FS_Subset, FS_CardinalityType

(* Two sets that differ in one caller at most.                             *)
LEMMA OneCounted ==
    ASSUME NEW S \in SUBSET Callers, NEW T \in SUBSET Callers, NEW c \in Callers,
           \A d \in Callers \ {c} : d \in S <=> d \in T
    PROVE  /\ (c \in S <=> c \in T) => T = S
           /\ c \notin S /\ c \in T => Cardinality(T) = Cardinality(S) + 1
           /\ c \in S /\ c \notin T => Cardinality(T) = Cardinality(S) - 1
<1>1. (c \in S <=> c \in T) => T = S
  OBVIOUS
<1>2. c \notin S /\ c \in T => T = S \union {c}
  OBVIOUS
<1>3. c \in S /\ c \notin T => T = S \ {c}
  OBVIOUS
<1>4. c \notin S => Cardinality(S \union {c}) = Cardinality(S) + 1
  BY CallersFinite, FS_AddElement
<1>5. c \in S => Cardinality(S \ {c}) = Cardinality(S) - 1
  BY CallersFinite, FS_RemoveElement
<1>6. QED
  BY <1>1, <1>2, <1>3, <1>4, <1>5

LEMMA OneMore == \A b, n \in Int : b * (n + 1) = b * n + b /\ b * (n - 1) = b * n - b
  OBVIOUS

(* A caller moves; the counters follow.                                    *)
LEMMA CountersMove ==
    ASSUME CountersInv, DecodesInv, NEW c \in Callers, NEW m, call' = [call EXCEPT ![c] = m],
           \/ inFlight' = inFlight /\ (HoldsDecode(m) <=> HoldsDecode(call[c]))
           \/ inFlight' = inFlight + DecodeBytes /\ HoldsDecode(m) /\ ~HoldsDecode(call[c])
           \/ inFlight' = inFlight - DecodeBytes /\ ~HoldsDecode(m) /\ HoldsDecode(call[c]),
           \/ evalReserved' = evalReserved /\ (HoldsEval(m) <=> HoldsEval(call[c]))
           \/ evalReserved' = evalReserved + EvalBytes /\ HoldsEval(m) /\ ~HoldsEval(call[c])
           \/ evalReserved' = evalReserved - EvalBytes /\ ~HoldsEval(m) /\ HoldsEval(call[c]),
           \/ cache'.pins = cache.pins /\ \A x \in Channels : Pins(m, x) <=> Pins(call[c], x)
           \/ \E x \in Channels :
                 \/ /\ cache'.pins = [cache.pins EXCEPT ![x] = @ + 1]
                    /\ \A y \in Channels : Pins(m, y) <=> y = x
                    /\ \A y \in Channels : ~Pins(call[c], y)
                 \/ /\ cache'.pins = [cache.pins EXCEPT ![x] = @ - 1]
                    /\ \A y \in Channels : Pins(call[c], y) <=> y = x
                    /\ \A y \in Channels : ~Pins(m, y)
    PROVE  CountersInv'
<1>0. /\ call'[c] = m /\ \A d \in Callers \ {c} : call'[d] = call[d]
      /\ DecodeBytes \in Int /\ EvalBytes \in Int
  BY BytesAssumption DEF DecodesInv, Typed
<1>1. inFlight' = DecodeBytes * Cardinality(Decoding')
  <2>1. /\ Decoding \in SUBSET Callers /\ Decoding' \in SUBSET Callers
        /\ \A d \in Callers \ {c} : d \in Decoding <=> d \in Decoding'
        /\ c \in Decoding <=> HoldsDecode(call[c])
        /\ c \in Decoding' <=> HoldsDecode(m)
    BY <1>0 DEF Decoding
  <2>2. Cardinality(Decoding) \in Int
    BY <2>1, CallersFinite
  <2>3. QED
    BY <1>0, <2>1, <2>2, OneCounted, OneMore DEF CountersInv
<1>2. evalReserved' = EvalBytes * Cardinality(Evaluators')
  <2>1. /\ Evaluators \in SUBSET Callers /\ Evaluators' \in SUBSET Callers
        /\ \A d \in Callers \ {c} : d \in Evaluators <=> d \in Evaluators'
        /\ c \in Evaluators <=> HoldsEval(call[c])
        /\ c \in Evaluators' <=> HoldsEval(m)
    BY <1>0 DEF Evaluators
  <2>2. Cardinality(Evaluators) \in Int
    BY <2>1, CallersFinite
  <2>3. QED
    BY <1>0, <2>1, <2>2, OneCounted, OneMore DEF CountersInv
<1>3. cache'.pins = [x \in Channels |-> Cardinality(Pinners(x)')]
  <2>1. ASSUME NEW y \in Channels
        PROVE  /\ Pinners(y) \in SUBSET Callers /\ Pinners(y)' \in SUBSET Callers
               /\ \A d \in Callers \ {c} : d \in Pinners(y) <=> d \in Pinners(y)'
               /\ c \in Pinners(y) <=> Pins(call[c], y)
               /\ c \in Pinners(y)' <=> Pins(m, y)
    BY <1>0 DEF Pinners
  <2>2. ASSUME NEW y \in Channels
        PROVE  /\ (Pins(m, y) <=> Pins(call[c], y)) => Cardinality(Pinners(y)') = cache.pins[y]
               /\ Pins(m, y) /\ ~Pins(call[c], y) => Cardinality(Pinners(y)') = cache.pins[y] + 1
               /\ ~Pins(m, y) /\ Pins(call[c], y) => Cardinality(Pinners(y)') = cache.pins[y] - 1
    <3>1. cache.pins[y] = Cardinality(Pinners(y))
      BY DEF CountersInv
    <3>2. QED
      BY <2>1, <3>1, OneCounted
  <2>3. cache.pins = [y \in Channels |-> cache.pins[y]]
    BY DEF CountersInv
  <2>4. CASE cache'.pins = cache.pins /\ \A x \in Channels : Pins(m, x) <=> Pins(call[c], x)
    BY <2>2, <2>3, <2>4
  <2>5. ASSUME NEW x \in Channels, cache'.pins = [cache.pins EXCEPT ![x] = @ + 1],
               \A y \in Channels : Pins(m, y) <=> y = x,
               \A y \in Channels : ~Pins(call[c], y)
        PROVE  cache'.pins = [y \in Channels |-> Cardinality(Pinners(y)')]
    BY <2>2, <2>3, <2>5
  <2>6. ASSUME NEW x \in Channels, cache'.pins = [cache.pins EXCEPT ![x] = @ - 1],
               \A y \in Channels : Pins(call[c], y) <=> y = x,
               \A y \in Channels : ~Pins(m, y)
        PROVE  cache'.pins = [y \in Channels |-> Cardinality(Pinners(y)')]
    BY <2>2, <2>3, <2>6
  <2>7. QED
    BY <2>4, <2>5, <2>6
<1>4. QED
  BY <1>1, <1>2, <1>3 DEF CountersInv

(* Nobody moves, and no counter does.                                      *)
LEMMA CountersStay ==
    ASSUME CountersInv, call' = call, inFlight' = inFlight, evalReserved' = evalReserved,
           cache'.pins = cache.pins
    PROVE  CountersInv'
  BY DEF CountersInv, Decoding, Evaluators, Pinners

LEMMA QueueSame ==
    ASSUME QueueInv, queue' = queue, \A c \in Callers : call'[c].pc = "queued" <=> call[c].pc = "queued"
    PROVE  QueueInv'
  BY DEF QueueInv, Waiting

(* A caller takes its ticket, or gives it back.                            *)
LEMMA QueueJoined ==
    ASSUME QueueInv, NEW c \in Callers, call[c].pc # "queued", call'[c].pc = "queued",
           \A d \in Callers \ {c} : call'[d] = call[d], queue' = Append(queue, c)
    PROVE  QueueInv'
<1>1. c \notin Elements(queue)
  BY DEF QueueInv, Waiting
<1>2. Waiting' = Waiting \union {c}
  BY DEF Waiting
<1>3. queue \in Seq(Callers) /\ Distinct(queue) /\ Elements(queue) = Waiting
  BY DEF QueueInv
<1>4. queue' \in Seq(Callers) /\ Distinct(queue') /\ Elements(queue') = Waiting \union {c}
  BY <1>1, <1>3, AppendElements
<1>5. QED
  BY <1>2, <1>4 DEF QueueInv

LEMMA QueueLeft ==
    ASSUME QueueInv, NEW c \in Callers, call'[c].pc # "queued",
           \A d \in Callers \ {c} : call'[d] = call[d], queue' = Select(queue, Callers \ {c})
    PROVE  QueueInv'
<1>1. Waiting' = Waiting \intersect (Callers \ {c})
  BY DEF Waiting
<1>2. queue \in Seq(Callers) /\ Distinct(queue) /\ Elements(queue) = Waiting
  BY DEF QueueInv
<1>3. /\ queue' \in Seq(Callers) /\ Distinct(queue')
      /\ Elements(queue') = Waiting \intersect (Callers \ {c})
  BY <1>2, SelectElements
<1>4. QED
  BY <1>1, <1>3 DEF QueueInv

(* The steps that take and give back nothing.                              *)

MovesInv == TaskedInv /\ CountersInv /\ QueueInv

Quiet(c, m) ==
    /\ call' = [call EXCEPT ![c] = m]
    /\ Tasked(m) /\ m.pc # "queued"
    /\ HoldsDecode(m) <=> HoldsDecode(call[c])
    /\ HoldsEval(m) <=> HoldsEval(call[c])
    /\ \A x \in Channels : Pins(m, x) <=> Pins(call[c], x)

LEMMA TaskedMoves ==
    ASSUME DecodesInv, TaskedInv, NEW c \in Callers, NEW m, call' = [call EXCEPT ![c] = m],
           Tasked(m), file' # 0
    PROVE  /\ TaskedInv' /\ call'[c] = m
           /\ \A d \in Callers \ {c} : call'[d] = call[d]
<1>1. call'[c] = m /\ \A d \in Callers \ {c} : call'[d] = call[d]
  BY DEF DecodesInv, Typed
<1>2. QED
  BY <1>1 DEF TaskedInv

LEMMA QuietMoves ==
    ASSUME DecodesInv, MovesInv, NEW c \in Callers, call[c].pc # "queued",
           \E m : Quiet(c, m), UNCHANGED ledger, cache'.pins = cache.pins, file' # 0
    PROVE  MovesInv'
<1>1. PICK m : Quiet(c, m)
  OBVIOUS
<1>2. /\ call' = [call EXCEPT ![c] = m] /\ Tasked(m)
      /\ inFlight' = inFlight /\ evalReserved' = evalReserved /\ queue' = queue
  BY <1>1 DEF Quiet, ledger
<1>3. CountersInv'
  BY <1>1, <1>2, CountersMove DEF Quiet, MovesInv
<1>4. /\ TaskedInv' /\ call'[c] = m
      /\ \A d \in Callers \ {c} : call'[d] = call[d]
  BY <1>2, TaskedMoves DEF MovesInv
<1>5. QueueInv'
  BY <1>1, <1>2, <1>4, QueueSame DEF Quiet, MovesInv
<1>6. QED
  BY <1>3, <1>4, <1>5 DEF MovesInv

LEMMA QuietReturn ==
    ASSUME DecodesInv, NEW c \in Callers, call[c].pc \in {"claim", "unclaim"}, Return(c)
    PROVE  \E m : Quiet(c, m)
<1>1. /\ call[c].task \in {"read", "prefetch", "lookup"} /\ call[c].ch \in Channels
      /\ call[c] \in Calls /\ call \in [Callers -> Calls]
  BY DEF DecodesInv, Typed, Placed, Holding
<1>2. CASE call[c].task = "read"
  <2>1. call' = [call EXCEPT ![c] = Idle]
    BY <1>2 DEF Return
  <2>2. Quiet(c, Idle)
    BY <1>1, <1>2, <2>1 DEF Quiet, Idle, Tasked, HoldsDecode, HoldsEval, Pins, Reserved
  <2>3. QED
    BY <2>2
<1>3. CASE call[c].task = "prefetch"
  <2> DEFINE m == [Idle EXCEPT !.pc = "admit", !.ch = call[c].ch]
  <2>1. call' = [call EXCEPT ![c] = m]
    BY <1>3 DEF Return
  <2>2. Quiet(c, m)
    BY <1>1, <1>3, <2>1 DEF Quiet, Idle, Tasked, HoldsDecode, HoldsEval, Pins, Reserved
  <2>3. QED
    BY <2>2
<1>4. CASE call[c].task = "lookup"
  <2> DEFINE m == [Idle EXCEPT !.pc = "running", !.task = "evaluate", !.ch = call[c].ch]
  <2>1. call' = [call EXCEPT ![c] = m]
    BY <1>4 DEF Return
  <2>2. Quiet(c, m)
    BY <1>1, <1>4, <2>1 DEF Quiet, Idle, Tasked, HoldsDecode, HoldsEval, Pins, Reserved
  <2>3. QED
    BY <2>2
<1>5. QED
  BY <1>1, <1>2, <1>3, <1>4

LEMMA QuietStart ==
    ASSUME DecodesInv, TaskedInv, NEW c \in Callers, NEW task \in {"read", "lookup"},
           NEW x \in Channels, Start(c, task, x),
           task = "read" => call[c].pc = "idle",
           task = "lookup" => call[c].pc = "running" /\ call[c].task = "evaluate" /\ call[c].ch = x
    PROVE  \E m : Quiet(c, m)
<1> DEFINE m == [Idle EXCEPT !.pc = "claim", !.task = task, !.ch = x]
<1>1. call' = [call EXCEPT ![c] = m] /\ call[c] \in Calls /\ Tasked(call[c])
  BY DEF Start, DecodesInv, Typed, TaskedInv
<1>2. Quiet(c, m)
  BY <1>1 DEF Quiet, Idle, Tasked, HoldsDecode, HoldsEval, Pins, Reserved
<1>3. QED
  BY <1>2

\* Where a reader may go on to without taking or giving back anything.
LEMMA QuietReader ==
    ASSUME DecodesInv, NEW c \in Callers, NEW m, call' = [call EXCEPT ![c] = m],
           m.ch = call[c].ch, m.task = call[c].task, m.pc = "insert" => m.read # 0,
           \/ call[c].pc = "claim" /\ m.pc = "reserve"
           \/ call[c].pc = "reserve" /\ m.pc = "unclaim"
           \/ call[c].pc \in Reserved /\ m.pc \in Reserved
    PROVE  Quiet(c, m)
<1>1. m.task \in {"read", "prefetch", "lookup"}
  BY DEF DecodesInv, Typed, Placed, Holding, Leading, Reserved
<1>2. QED
  BY <1>1 DEF Quiet, Tasked, HoldsDecode, HoldsEval, Pins, Reserved

LEMMA MovesReading ==
    ASSUME DecodesInv, MovesInv, NEW c \in Callers,
           \/ \E x \in Channels : Read(c, x)
           \/ Hit(c) \/ Lead(c) \/ NotReserved(c) \/ ClaimT(c) \/ ClaimRecorded(c) \/ Borrow(c)
           \/ ReadFile(c) \/ ReadFails(c) \/ Insert(c) \/ Unclaim(c) \/ Lookup(c)
    PROVE  MovesInv'
<1>1. /\ UNCHANGED ledger /\ file' = file /\ file # 0
      /\ call[c] \in Calls /\ Placed(call[c]) /\ Shaped(cache)
  BY DEF MovesInv, TaskedInv, DecodesInv, Typed, Read, Hit, Lead, NotReserved, ClaimT,
     ClaimRecorded, ClaimAxis, Borrow, ReadFile, ReadFails, Insert, Unclaim, Lookup, world
<1>2. call[c].pc # "queued"
  BY DEF Read, Hit, Lead, NotReserved, ClaimT, ClaimRecorded, Borrow, ReadFile, ReadFails,
     Insert, Unclaim, Lookup
<1>3. cache'.pins = cache.pins
  <2>1. CASE Insert(c)
    <3> DEFINE me == call[c]
               Add(s, a) == IF a \in me.fresh THEN AxisInserted(s, a, me.read) ELSE s
               first == Inserted(cache, me.ch, me.read)
    <3>1. me.pc = "insert" /\ cache' = Add(Add(first, "t"), Source[me.ch])
      BY <2>1 DEF Insert
    <3>2. me.ch \in Channels /\ me.read \in Nat
      BY <1>1, <3>1 DEF Calls, Placed, Holding, Leading
    <3>3. Shaped(first) /\ first.pins = cache.pins
      BY <1>1, <3>2, InsertedShape
    <3> HIDE DEF first, me
    <3>4. \A s, a : Shaped(s) => Shaped(Add(s, a)) /\ Add(s, a).pins = s.pins
      BY AxisInsertedShape
    <3> HIDE DEF Add
    <3>5. QED
      BY <3>1, <3>3, <3>4
  <2>2. CASE Hit(c)
    BY <1>1, <2>2, TouchedShape DEF Hit
  <2>3. CASE ~Insert(c) /\ ~Hit(c)
    BY <2>3 DEF Read, Lead, NotReserved, ClaimT, ClaimRecorded, ClaimAxis, Borrow,
       ReadFile, ReadFails, Unclaim, Lookup
  <2>4. QED
    BY <2>1, <2>2, <2>3
<1>4. SUFFICES \E m : Quiet(c, m)
  BY <1>1, <1>2, <1>3, QuietMoves
<1>5. ASSUME NEW x \in Channels, Read(c, x) PROVE \E m : Quiet(c, m)
  BY <1>5, QuietStart DEF Read, MovesInv
<1>6. CASE Lookup(c)
  <2>1. call[c].ch \in Channels
    BY <1>1, <1>6 DEF Lookup, Placed
  <2>2. QED
    BY <1>6, <2>1, QuietStart DEF Lookup, MovesInv
<1>7. CASE Hit(c) \/ Unclaim(c)
  BY <1>7, QuietReturn DEF Hit, Unclaim
<1>8. CASE Lead(c)
  <2> DEFINE m == [call[c] EXCEPT !.pc = "reserve"]
  <2>1. call[c].pc = "claim" /\ call' = [call EXCEPT ![c] = m]
    BY <1>8 DEF Lead, Goto
  <2>2. QED
    BY <1>1, <2>1, QuietReader DEF Calls
<1>9. CASE NotReserved(c)
  <2> DEFINE m == [call[c] EXCEPT !.pc = "unclaim"]
  <2>1. call[c].pc = "reserve" /\ call' = [call EXCEPT ![c] = m]
    BY <1>9 DEF NotReserved, Goto
  <2>2. QED
    BY <1>1, <2>1, QuietReader DEF Calls
<1>10. ASSUME NEW a, NEW next \in {"claim recorded", "borrow"}, call[c].pc \in Reserved,
              ClaimAxis(c, a, next)
       PROVE  \E m : Quiet(c, m)
  <2> DEFINE mine == IF cache.axes[a] # 0 THEN {} ELSE {a}
             m == [call[c] EXCEPT !.claims = @ \union mine, !.pc = next]
  <2>1. call' = [call EXCEPT ![c] = m]
    BY <1>10 DEF ClaimAxis
  <2>2. m.pc = next /\ m.task = call[c].task /\ m.ch = call[c].ch
    BY <1>1 DEF Calls
  <2> HIDE DEF m
  <2>3. QED
    BY <1>10, <2>1, <2>2, QuietReader DEF Reserved
<1>11. CASE ClaimT(c) \/ ClaimRecorded(c)
  BY <1>10, <1>11 DEF ClaimT, ClaimRecorded, Reserved
<1>12. CASE Borrow(c)
  <2> DEFINE given == {a \in AxesOf(call[c].ch) : cache.axes[a] # 0}
             m == [call[c] EXCEPT !.pc = "read", !.held = given]
  <2>1. call[c].pc = "borrow" /\ call' = [call EXCEPT ![c] = m]
    BY <1>12 DEF Borrow
  <2> HIDE DEF given
  <2>2. m.pc = "read" /\ m.task = call[c].task /\ m.ch = call[c].ch
    BY <1>1 DEF Calls
  <2> HIDE DEF m
  <2>3. QED
    BY <2>1, <2>2, QuietReader DEF Reserved
<1>13. CASE ReadFile(c)
  <2> DEFINE new == AxesOf(call[c].ch) \ call[c].held
             m == [call[c] EXCEPT !.pc = "insert", !.read = file, !.held = {}, !.fresh = new]
  <2>1. call[c].pc = "read" /\ call' = [call EXCEPT ![c] = m]
    BY <1>13 DEF ReadFile
  <2> HIDE DEF new
  <2>2. m.pc = "insert" /\ m.task = call[c].task /\ m.ch = call[c].ch /\ m.read # 0
    BY <1>1 DEF Calls
  <2> HIDE DEF m
  <2>3. QED
    BY <2>1, <2>2, QuietReader DEF Reserved
<1>14. CASE ReadFails(c)
  <2> DEFINE m == [call[c] EXCEPT !.pc = "give back", !.claims = {}, !.held = {}]
  <2>1. call[c].pc \in {"claim t", "read"} /\ call' = [call EXCEPT ![c] = m]
    BY <1>14 DEF ReadFails
  <2>2. m.pc = "give back" /\ m.task = call[c].task /\ m.ch = call[c].ch
    BY <1>1 DEF Calls
  <2> HIDE DEF m
  <2>3. QED
    BY <2>1, <2>2, QuietReader DEF Reserved
<1>15. CASE Insert(c)
  <2> DEFINE m == [call[c] EXCEPT !.pc = "give back", !.fresh = {}, !.read = 0]
  <2>1. call[c].pc = "insert" /\ call' = [call EXCEPT ![c] = m]
    BY <1>15 DEF Insert
  <2>2. m.pc = "give back" /\ m.task = call[c].task /\ m.ch = call[c].ch
    BY <1>1 DEF Calls
  <2> HIDE DEF m
  <2>3. QED
    BY <2>1, <2>2, QuietReader DEF Reserved
<1>16. QED
  BY <1>5, <1>6, <1>7, <1>8, <1>9, <1>11, <1>12, <1>13, <1>14, <1>15

(* The steps that take or give back one of the counted things.             *)

LEMMA MovesDecode ==
    ASSUME DecodesInv, MovesInv, NEW c \in Callers, Reserve(c) \/ GiveBack(c)
    PROVE  MovesInv'
<1>1. /\ evalReserved' = evalReserved /\ queue' = queue /\ cache' = cache
      /\ file' = file /\ file # 0 /\ call[c] \in Calls /\ Placed(call[c]) /\ Tasked(call[c])
  BY DEF MovesInv, TaskedInv, DecodesInv, Typed, Reserve, GiveBack, world
<1>2. ASSUME NEW where \in {"claim t", "unclaim"}, Goto(c, where),
             \/ /\ where = "claim t" /\ call[c].pc = "reserve"
                /\ inFlight' = inFlight + DecodeBytes
             \/ /\ where = "unclaim" /\ call[c].pc = "give back"
                /\ inFlight' = inFlight - DecodeBytes
      PROVE  MovesInv'
  <2> DEFINE m == [call[c] EXCEPT !.pc = where]
  <2>1. call' = [call EXCEPT ![c] = m]
    BY <1>2 DEF Goto
  <2>2. m.pc = where /\ m.task = call[c].task /\ m.ch = call[c].ch
    BY <1>1 DEF Calls
  <2>3. call[c].task \in {"read", "prefetch", "lookup"}
    BY <1>1, <1>2 DEF Placed, Holding, Leading
  <2> HIDE DEF m
  <2>4. /\ Tasked(m)
        /\ HoldsEval(m) <=> HoldsEval(call[c])
        /\ \A x \in Channels : Pins(m, x) <=> Pins(call[c], x)
    BY <1>2, <2>2, <2>3 DEF Tasked, HoldsEval, Pins
  <2>5. \/ inFlight' = inFlight + DecodeBytes /\ HoldsDecode(m) /\ ~HoldsDecode(call[c])
        \/ inFlight' = inFlight - DecodeBytes /\ ~HoldsDecode(m) /\ HoldsDecode(call[c])
    BY <1>2, <2>2 DEF HoldsDecode, Reserved
  <2>6. CountersInv'
    BY <1>1, <2>1, <2>4, <2>5, CountersMove DEF MovesInv
  <2>7. TaskedInv' /\ call'[c] = m /\ \A d \in Callers \ {c} : call'[d] = call[d]
    BY <1>1, <2>1, <2>4, TaskedMoves DEF MovesInv
  <2>8. QueueInv'
    BY <1>1, <1>2, <2>2, <2>7, QueueSame DEF MovesInv
  <2>9. QED
    BY <2>6, <2>7, <2>8 DEF MovesInv
<1>3. QED
  BY <1>2 DEF Reserve, GiveBack, Returned

LEMMA MovesPin ==
    ASSUME DecodesInv, MovesInv, NEW c \in Callers, NEW x \in Channels, PinInput(c, x)
    PROVE  MovesInv'
<1> DEFINE m == [Idle EXCEPT !.pc = "claim", !.task = "prefetch", !.ch = x]
<1>1. /\ inFlight' = inFlight /\ evalReserved' = evalReserved /\ queue' = queue
      /\ cache' = [cache EXCEPT !.pins = [cache.pins EXCEPT ![x] = @ + 1]]
      /\ file' = file /\ file # 0 /\ call[c] \in Calls /\ Tasked(call[c])
      /\ call[c].pc = "idle" /\ call' = [call EXCEPT ![c] = m] /\ Shaped(cache)
  BY DEF MovesInv, TaskedInv, DecodesInv, Typed, PinInput, Start, ledger, world
<1>2. cache'.pins = [cache.pins EXCEPT ![x] = @ + 1]
  BY <1>1 DEF Shaped
<1>3. m.pc = "claim" /\ m.task = "prefetch" /\ m.ch = x
  BY DEF Idle
<1> HIDE DEF m
<1>4. /\ Tasked(m)
      /\ HoldsEval(m) <=> HoldsEval(call[c])
      /\ HoldsDecode(m) <=> HoldsDecode(call[c])
      /\ \A y \in Channels : Pins(m, y) <=> y = x
      /\ \A y \in Channels : ~Pins(call[c], y)
  BY <1>1, <1>3 DEF Tasked, HoldsEval, HoldsDecode, Reserved, Pins
<1>5. CountersInv'
  BY <1>1, <1>2, <1>4, CountersMove DEF MovesInv
<1>6. TaskedInv' /\ call'[c] = m /\ \A d \in Callers \ {c} : call'[d] = call[d]
  BY <1>1, <1>4, TaskedMoves DEF MovesInv
<1>7. QueueInv'
  BY <1>1, <1>3, <1>6, QueueSame DEF MovesInv
<1>8. QED
  BY <1>5, <1>6, <1>7 DEF MovesInv

LEMMA MovesUnpin ==
    ASSUME DecodesInv, MovesInv, NEW c \in Callers, Unpin(c)
    PROVE  MovesInv'
<1> DEFINE s == [cache EXCEPT !.pins = [cache.pins EXCEPT ![call[c].ch] = @ - 1]]
<1>1. /\ inFlight' = inFlight /\ evalReserved' = evalReserved /\ queue' = queue
      /\ cache' = EvictToBudget(s)
      /\ file' = file /\ file # 0 /\ call[c] \in Calls /\ Tasked(call[c]) /\ Placed(call[c])
      /\ call[c].pc = "unpin" /\ call' = [call EXCEPT ![c] = Idle] /\ Shaped(cache)
  BY DEF MovesInv, TaskedInv, DecodesInv, Typed, Unpin, ledger, world
<1>2. Shaped(s) /\ s.pins = [cache.pins EXCEPT ![call[c].ch] = @ - 1]
  BY <1>1 DEF Shaped
<1>3. cache'.pins = [cache.pins EXCEPT ![call[c].ch] = @ - 1]
  BY <1>1, <1>2, EvictToBudgetShape
<1>4. /\ Tasked(Idle)
      /\ HoldsEval(Idle) <=> HoldsEval(call[c])
      /\ HoldsDecode(Idle) <=> HoldsDecode(call[c])
      /\ call[c].ch \in Channels
      /\ \A y \in Channels : Pins(call[c], y) <=> y = call[c].ch
      /\ \A y \in Channels : ~Pins(Idle, y)
  BY <1>1 DEF Idle, Placed, Tasked, HoldsEval, HoldsDecode, Reserved, Pins
<1>5. CountersInv'
  BY <1>1, <1>3, <1>4, CountersMove DEF MovesInv
<1>6. TaskedInv' /\ call'[c] = Idle /\ \A d \in Callers \ {c} : call'[d] = call[d]
  BY <1>1, <1>4, TaskedMoves DEF MovesInv
<1>7. QueueInv'
  BY <1>1, <1>6, QueueSame DEF MovesInv, Idle
<1>8. QED
  BY <1>5, <1>6, <1>7 DEF MovesInv

LEMMA MovesEnd ==
    ASSUME DecodesInv, MovesInv, NEW c \in Callers, EndRun(c)
    PROVE  MovesInv'
<1> DEFINE m == IF call[c].task = "member" THEN Idle ELSE [call[c] EXCEPT !.pc = "unpin"]
<1>1. /\ inFlight' = inFlight /\ evalReserved' = evalReserved - EvalBytes /\ queue' = queue
      /\ cache' = cache
      /\ file' = file /\ file # 0 /\ call[c] \in Calls /\ Tasked(call[c]) /\ Placed(call[c])
      /\ call[c].pc = "running" /\ call' = [call EXCEPT ![c] = m]
  BY DEF MovesInv, TaskedInv, DecodesInv, Typed, EndRun, world
<1>2. /\ call[c].task = "member" => m = Idle
      /\ call[c].task # "member" => m.pc = "unpin" /\ m.task = "evaluate" /\ m.ch = call[c].ch
  BY <1>1 DEF Calls, Tasked
<1> HIDE DEF m
<1>3. /\ Tasked(m) /\ HoldsEval(call[c]) /\ ~HoldsEval(m)
      /\ HoldsDecode(m) <=> HoldsDecode(call[c])
      /\ \A y \in Channels : Pins(m, y) <=> Pins(call[c], y)
      /\ m.pc # "queued"
  <2>1. CASE call[c].task = "member"
    <3>1. m.pc = "idle" /\ m.task = "none"
      BY <1>2, <2>1 DEF Idle
    <3>2. QED
      BY <1>1, <2>1, <3>1 DEF Tasked, HoldsEval, HoldsDecode, Reserved, Pins
  <2>2. CASE call[c].task # "member"
    BY <1>1, <1>2, <2>2 DEF Tasked, HoldsEval, HoldsDecode, Reserved, Pins
  <2>3. QED
    BY <2>1, <2>2
<1>4. CountersInv'
  BY <1>1, <1>3, CountersMove DEF MovesInv
<1>5. TaskedInv' /\ call'[c] = m /\ \A d \in Callers \ {c} : call'[d] = call[d]
  BY <1>1, <1>3, TaskedMoves DEF MovesInv
<1>6. QueueInv'
  BY <1>1, <1>3, <1>5, QueueSame DEF MovesInv
<1>7. QED
  BY <1>4, <1>5, <1>6 DEF MovesInv

(* Admission.  A caller that goes from the door to the queue, into the     *)
(* evaluation, or away.                                                    *)
LEMMA MovesQueued ==
    ASSUME DecodesInv, MovesInv, NEW c \in Callers, call[c].pc = "admit", Queued(c),
           inFlight' = inFlight, cache'.pins = cache.pins, file' = file
    PROVE  MovesInv'
<1> DEFINE m == [call[c] EXCEPT !.pc = "queued"]
<1>1. /\ call' = [call EXCEPT ![c] = m] /\ queue' = Append(queue, c)
      /\ evalReserved' = evalReserved /\ call[c] \in Calls /\ Tasked(call[c]) /\ file # 0
  BY DEF Queued, Goto, MovesInv, TaskedInv, DecodesInv, Typed
<1>2. m.pc = "queued" /\ m.task = call[c].task /\ m.ch = call[c].ch
  BY <1>1 DEF Calls
<1> HIDE DEF m
<1>3. /\ Tasked(m)
      /\ HoldsEval(m) <=> HoldsEval(call[c])
      /\ HoldsDecode(m) <=> HoldsDecode(call[c])
      /\ \A y \in Channels : Pins(m, y) <=> Pins(call[c], y)
  BY <1>1, <1>2 DEF Tasked, HoldsEval, HoldsDecode, Reserved, Pins
<1>4. CountersInv'
  BY <1>1, <1>3, CountersMove DEF MovesInv
<1>5. TaskedInv' /\ call'[c] = m /\ \A d \in Callers \ {c} : call'[d] = call[d]
  BY <1>1, <1>3, TaskedMoves DEF MovesInv
<1>6. QueueInv'
  BY <1>1, <1>2, <1>5, QueueJoined DEF MovesInv
<1>7. QED
  BY <1>4, <1>5, <1>6 DEF MovesInv

LEMMA MovesAdmitted ==
    ASSUME DecodesInv, MovesInv, NEW c \in Callers, NEW task \in {"evaluate", "member"},
           Admitted(c, task),
           \/ task = "evaluate" /\ call[c].pc \in {"admit", "queued"}
           \/ task = "member" /\ call[c].pc = "idle",
           inFlight' = inFlight, cache'.pins = cache.pins, file' = file
    PROVE  MovesInv'
<1> DEFINE m == [call[c] EXCEPT !.pc = "running", !.task = task]
<1>1. /\ call' = [call EXCEPT ![c] = m] /\ queue' = Select(queue, Callers \ {c})
      /\ evalReserved' = evalReserved + EvalBytes /\ call[c] \in Calls /\ Tasked(call[c])
      /\ file # 0
  BY DEF Admitted, MovesInv, TaskedInv, DecodesInv, Typed
<1>2. m.pc = "running" /\ m.task = task /\ m.ch = call[c].ch
  BY <1>1 DEF Calls
<1> HIDE DEF m
<1>3. /\ Tasked(m) /\ HoldsEval(m) /\ ~HoldsEval(call[c])
      /\ HoldsDecode(m) <=> HoldsDecode(call[c])
      /\ \A y \in Channels : Pins(m, y) <=> Pins(call[c], y)
  BY <1>1, <1>2 DEF Tasked, HoldsEval, HoldsDecode, Reserved, Pins
<1>4. CountersInv'
  BY <1>1, <1>3, CountersMove DEF MovesInv
<1>5. TaskedInv' /\ call'[c] = m /\ \A d \in Callers \ {c} : call'[d] = call[d]
  BY <1>1, <1>3, TaskedMoves DEF MovesInv
<1>6. QueueInv'
  BY <1>1, <1>2, <1>5, QueueLeft DEF MovesInv
<1>7. QED
  BY <1>4, <1>5, <1>6 DEF MovesInv

LEMMA MovesAway ==
    ASSUME DecodesInv, MovesInv, NEW c \in Callers, call[c].pc = "queued", WaitsOrLeaves(c),
           inFlight' = inFlight, cache'.pins = cache.pins, file' = file
    PROVE  MovesInv'
<1>1. evalReserved' = evalReserved
  BY DEF WaitsOrLeaves
<1>2. CASE UNCHANGED <<queue, call>>
  <2>1. CountersInv'
    BY <1>1, <1>2, CountersStay DEF MovesInv
  <2>2. TaskedInv' /\ QueueInv'
    BY <1>2, QueueSame DEF MovesInv, TaskedInv
  <2>3. QED
    BY <2>1, <2>2 DEF MovesInv
<1>3. CASE TicketDropped(c) /\ Goto(c, "unpin")
  <2> DEFINE m == [call[c] EXCEPT !.pc = "unpin"]
  <2>1. /\ call' = [call EXCEPT ![c] = m] /\ queue' = Select(queue, Callers \ {c})
        /\ call[c] \in Calls /\ Tasked(call[c]) /\ file # 0
    BY <1>3 DEF TicketDropped, Goto, MovesInv, TaskedInv, DecodesInv, Typed
  <2>2. m.pc = "unpin" /\ m.task = call[c].task /\ m.ch = call[c].ch
    BY <2>1 DEF Calls
  <2> HIDE DEF m
  <2>3. /\ Tasked(m)
        /\ HoldsEval(m) <=> HoldsEval(call[c])
        /\ HoldsDecode(m) <=> HoldsDecode(call[c])
        /\ \A y \in Channels : Pins(m, y) <=> Pins(call[c], y)
    BY <2>1, <2>2 DEF Tasked, HoldsEval, HoldsDecode, Reserved, Pins
  <2>4. CountersInv'
    BY <1>1, <2>1, <2>3, CountersMove DEF MovesInv
  <2>5. TaskedInv' /\ call'[c] = m /\ \A d \in Callers \ {c} : call'[d] = call[d]
    BY <2>1, <2>3, TaskedMoves DEF MovesInv
  <2>6. QueueInv'
    BY <2>1, <2>2, <2>5, QueueLeft DEF MovesInv
  <2>7. QED
    BY <2>4, <2>5, <2>6 DEF MovesInv
<1>4. QED
  BY <1>2, <1>3 DEF WaitsOrLeaves

LEMMA MovesAdmission ==
    ASSUME DecodesInv, MovesInv, NEW c \in Callers, Arrive(c) \/ TryAgain(c) \/ TryAdmit(c)
    PROVE  MovesInv'
<1>1. inFlight' = inFlight /\ file' = file
  BY DEF Arrive, TryAgain, TryAdmit, world
<1>2. cache'.pins = cache.pins
  <2>1. cache' = cache \/ \E r \in {Room} : Dropped(r)
    BY DEF Arrive, TryAgain, TryAdmit
  <2>2. QED
    BY <2>1, RoomEvicts
<1>3. CASE Arrive(c)
  <2>1. call[c].pc = "admit" /\ (Queued(c) \/ Admitted(c, "evaluate"))
    BY <1>3 DEF Arrive
  <2>2. QED
    BY <1>1, <1>2, <2>1, MovesQueued, MovesAdmitted
<1>4. CASE TryAgain(c)
  <2>1. call[c].pc = "queued" /\ (WaitsOrLeaves(c) \/ Admitted(c, "evaluate"))
    BY <1>4 DEF TryAgain
  <2>2. QED
    BY <1>1, <1>2, <2>1, MovesAway, MovesAdmitted
<1>5. CASE TryAdmit(c)
  <2>1. /\ call[c].pc = "idle"
        /\ Admitted(c, "member") \/ UNCHANGED <<evalReserved, queue, call>>
    BY <1>5 DEF TryAdmit
  <2>2. CASE UNCHANGED <<evalReserved, queue, call>>
    <3>1. CountersInv'
      BY <1>1, <1>2, <2>2, CountersStay DEF MovesInv
    <3>2. TaskedInv' /\ QueueInv'
      BY <1>1, <2>2, QueueSame DEF MovesInv, TaskedInv
    <3>3. QED
      BY <3>1, <3>2 DEF MovesInv
  <2>3. QED
    BY <1>1, <1>2, <2>1, <2>2, MovesAdmitted
<1>6. QED
  BY <1>3, <1>4, <1>5

LEMMA MovesWorld ==
    ASSUME DecodesInv, MovesInv,
           Import \/ ImportDone \/ Reimport \/ ReimportDone \/ Probe \/ UNCHANGED vars
    PROVE  MovesInv'
<1>1. /\ call' = call /\ inFlight' = inFlight /\ evalReserved' = evalReserved /\ queue' = queue
      /\ cache' = cache \/ InvalidateSession
  BY DEF Import, ImportDone, Reimport, ReimportDone, Probe, vars, ledger
<1>2. file' # 0
  <2>1. file \in Nat /\ file # 0
    BY DEF MovesInv, TaskedInv, DecodesInv, Typed
  <2>2. QED
    BY <2>1 DEF Import, ImportDone, Reimport, ReimportDone, Probe, vars, world
<1>3. cache'.pins = cache.pins
  <2>1. Shaped(cache)
    BY DEF DecodesInv, Typed
  <2>2. CASE InvalidateSession
    <3>1. Shaped(Without(cache, Channels)) /\ Without(cache, Channels).pins = cache.pins
      BY <2>1, WithoutShape
    <3>2. QED
      BY <2>2, <3>1, DropShape DEF InvalidateSession
  <2>3. QED
    BY <1>1, <2>2
<1>4. CountersInv'
  BY <1>1, <1>3, CountersStay DEF MovesInv
<1>5. TaskedInv' /\ QueueInv'
  BY <1>1, <1>2, QueueSame DEF MovesInv, TaskedInv
<1>6. QED
  BY <1>4, <1>5 DEF MovesInv

LEMMA StepMoves == DecodesInv /\ MovesInv /\ [Next]_vars => MovesInv'
<1>1. SUFFICES ASSUME DecodesInv, MovesInv, [Next]_vars PROVE MovesInv'
  OBVIOUS
<1>2. ASSUME NEW c \in Callers, NEW x \in Channels, Read(c, x) \/ PinInput(c, x)
      PROVE  MovesInv'
  BY <1>1, <1>2, MovesReading, MovesPin
<1>3. ASSUME NEW c \in Callers, Reading(c) PROVE MovesInv'
  BY <1>1, <1>3, MovesReading, MovesDecode DEF Reading
<1>4. ASSUME NEW c \in Callers, TryAdmit(c) \/ Evaluating(c) PROVE MovesInv'
  BY <1>1, <1>4, MovesReading, MovesAdmission, MovesEnd, MovesUnpin DEF Evaluating
<1>5. QED
  BY <1>1, <1>2, <1>3, <1>4, MovesWorld DEF Next

LEMMA InitMoves == Init => MovesInv
<1>1. SUFFICES ASSUME Init PROVE MovesInv
  OBVIOUS
<1>2. \A c \in Callers : call[c] = Idle
  BY <1>1 DEF Init
<1>3. TaskedInv
  BY <1>1, <1>2 DEF Init, TaskedInv, Tasked, Idle
<1>4. /\ Decoding = {} /\ Evaluators = {} /\ Waiting = {}
      /\ \A x \in Channels : Pinners(x) = {}
  <2>1. /\ ~HoldsDecode(Idle) /\ ~HoldsEval(Idle) /\ Idle.pc # "queued"
        /\ \A x \in Channels : ~Pins(Idle, x)
    BY DEF Idle, HoldsDecode, HoldsEval, Pins, Reserved
  <2>2. QED
    BY <1>2, <2>1 DEF Decoding, Evaluators, Waiting, Pinners
<1>5. Cardinality({}) = 0 /\ DecodeBytes \in Nat /\ EvalBytes \in Nat
  BY FS_EmptySet, BytesAssumption
<1>6. cache.pins = [x \in Channels |-> 0]
  BY <1>1 DEF Init
<1>7. CountersInv
  <2>1. \A n \in Nat : n * 0 = 0
    OBVIOUS
  <2>2. \A x \in Channels : Cardinality(Pinners(x)) = 0
    BY <1>4, <1>5
  <2>3. cache.pins = [x \in Channels |-> Cardinality(Pinners(x))]
    BY <1>6, <2>2
  <2>4. inFlight = 0 /\ evalReserved = 0
    BY <1>1 DEF Init
  <2>5. QED
    BY <1>4, <1>5, <2>1, <2>3, <2>4 DEF CountersInv
<1>8. QueueInv
  BY <1>1, <1>4 DEF Init, QueueInv, Distinct, Elements
<1>9. QED
  BY <1>3, <1>7, <1>8 DEF MovesInv

---------------------------------------------------------------------------
(* What is resident.  order names it, each channel once; eviction takes    *)
(* the coldest unpinned first and stops where the rest fits, so it leaves  *)
(* more than the ceiling only when all the rest is pinned.                 *)

Ordered(s) ==
    /\ Shaped(s) /\ HasAxes(s)
    /\ s.order \in Seq(Channels) /\ Distinct(s.order) /\ Elements(s.order) = Resident(s)
InBudget(s) == Bytes(s) > Ceiling => \A x \in Resident(s) : s.pins[x] # 0

\* t keeps the pinned channels of s; it holds nothing that s does not.
Keeps(s, t) ==
    /\ t.pins = s.pins
    /\ \A x \in Resident(s) \ Resident(t) : s.pins[x] = 0
Shrinks(s, t) ==
    /\ Ordered(t) /\ t.pins = s.pins
    /\ Resident(t) \subseteq Resident(s)
    /\ \A a \in AxisKeys : t.axes[a] # 0 => s.axes[a] # 0
Spares(s, t) == Shrinks(s, t) /\ Keeps(s, t)

LEMMA KeepsTwice == \A s, t, u : Keeps(s, t) /\ Keeps(t, u) => Keeps(s, u)
  BY DEF Keeps
LEMMA ShrinksTwice == \A s, t, u : Shrinks(s, t) /\ Shrinks(t, u) => Shrinks(s, u)
  BY DEF Shrinks
LEMMA SparesNothing == \A s : Ordered(s) => Spares(s, s)
  BY DEF Spares, Shrinks, Keeps

LEMMA TimesMonotone == \A c, i, j \in Nat : i <= j => c * i <= c * j
<1> TAKE c, i, j \in Nat
<1>1. SUFFICES ASSUME i <= j PROVE c * i <= c * j
  OBVIOUS
<1>2. PICK d \in Nat : j = i + d
  <2>1. j - i \in Nat /\ j = i + (j - i)
    BY <1>1
  <2>2. QED
    BY <2>1
<1>3. c * j = c * i + c * d /\ c * d \in Nat /\ c * i \in Nat
  BY <1>2
<1>4. QED
  BY <1>3

LEMMA BytesShrink == \A s, t : Shrinks(s, t) => Bytes(t) <= Bytes(s)
<1> TAKE s, t
<1> DEFINE Axes(u) == {a \in AxisKeys : u.axes[a] # 0}
<1>1. SUFFICES ASSUME Shrinks(s, t) PROVE Bytes(t) <= Bytes(s)
  OBVIOUS
<1>2. /\ Cardinality(Resident(t)) \in Nat /\ Cardinality(Resident(s)) \in Nat
      /\ Cardinality(Resident(t)) <= Cardinality(Resident(s))
  <2>1. IsFiniteSet(Resident(s)) /\ IsFiniteSet(Resident(t)) /\ Resident(t) \subseteq Resident(s)
    BY <1>1, FS_Subset, NamesAssumption DEF Shrinks, Resident
  <2>2. QED
    BY <2>1, FS_Subset, FS_CardinalityType
<1>3. /\ Cardinality(Axes(t)) \in Nat /\ Cardinality(Axes(s)) \in Nat
      /\ Cardinality(Axes(t)) <= Cardinality(Axes(s))
  <2>1. IsFiniteSet(Axes(s)) /\ IsFiniteSet(Axes(t)) /\ Axes(t) \subseteq Axes(s)
    BY <1>1, FS_Subset, AxisKeysFinite DEF Shrinks
  <2>2. QED
    BY <2>1, FS_Subset, FS_CardinalityType
<1>4. ChannelBytes \in Nat /\ AxisBytes \in Nat
  BY BytesAssumption
<1> DEFINE i == Cardinality(Resident(t)) j == Cardinality(Resident(s))
           k == Cardinality(Axes(t)) l == Cardinality(Axes(s))
<1>5. Bytes(t) = ChannelBytes * i + AxisBytes * k /\ Bytes(s) = ChannelBytes * j + AxisBytes * l
  BY DEF Bytes
<1> HIDE DEF i, j, k, l
<1>6. ChannelBytes * i <= ChannelBytes * j /\ AxisBytes * k <= AxisBytes * l
  BY <1>2, <1>3, <1>4, TimesMonotone DEF i, j, k, l
<1>7. /\ ChannelBytes * i \in Int /\ ChannelBytes * j \in Int
      /\ AxisBytes * k \in Int /\ AxisBytes * l \in Int
  BY <1>2, <1>3, <1>4 DEF i, j, k, l
<1>8. QED
  BY <1>5, <1>6, <1>7

LEMMA ShrinksInBudget == \A s, t : Shrinks(s, t) /\ InBudget(s) => InBudget(t)
<1> TAKE s, t
<1>1. SUFFICES ASSUME Shrinks(s, t), InBudget(s), Bytes(t) > Ceiling
               PROVE  \A x \in Resident(t) : t.pins[x] # 0
  BY DEF InBudget
<1>2. Bytes(t) <= Bytes(s) /\ Bytes(t) \in Int /\ Bytes(s) \in Int /\ Ceiling \in Int
  BY <1>1, BytesShrink, BytesNatural, BytesAssumption
<1>3. Bytes(s) > Ceiling
  BY <1>1, <1>2
<1>4. QED
  BY <1>1, <1>3 DEF InBudget, Shrinks

LEMMA DropSpares == \A s : Ordered(s) => Spares(s, DropUnborrowed(s))
<1> TAKE s
<1> DEFINE t == DropUnborrowed(s)
           axes == [a \in AxisKeys |-> IF Borrowed(s, a) THEN s.axes[a] ELSE 0]
<1>1. SUFFICES ASSUME Ordered(s) PROVE Spares(s, t)
  OBVIOUS
<1>2. Shaped(t) /\ Resident(t) = Resident(s) /\ t.pins = s.pins
  BY <1>1, DropShape DEF Ordered
<1>3. t.axes = axes /\ t.order = s.order
  BY <1>1 DEF DropUnborrowed, Ordered, Shaped
<1>4. axes \in [AxisKeys -> Nat] /\ \A a \in AxisKeys : axes[a] # 0 => s.axes[a] # 0
  BY <1>1 DEF Ordered, HasAxes
<1> HIDE DEF t, axes
<1>5. Ordered(t)
  BY <1>1, <1>2, <1>3, <1>4 DEF Ordered, HasAxes
<1>6. QED
  BY <1>2, <1>3, <1>4, <1>5 DEF Spares, Shrinks, Keeps

LEMMA WithoutShrinks ==
    \A s, gone : Ordered(s) => /\ Shrinks(s, Without(s, gone))
                               /\ Resident(Without(s, gone)) = Resident(s) \ gone
<1> TAKE s, gone
<1> DEFINE t == Without(s, gone)
           entries == [x \in Channels |-> IF x \in gone THEN 0 ELSE s.entries[x]]
           order == Select(s.order, Channels \ gone)
<1>1. SUFFICES ASSUME Ordered(s) PROVE Shrinks(s, t) /\ Resident(t) = Resident(s) \ gone
  OBVIOUS
<1>2. /\ order \in Seq(Channels) /\ Distinct(order)
      /\ Elements(order) = Resident(s) \intersect (Channels \ gone)
  BY <1>1, SelectElements DEF Ordered
<1>3. t = [s EXCEPT !.entries = entries, !.order = order]
  BY DEF Without
<1>4. Shaped(t) /\ t.pins = s.pins
  BY <1>1, WithoutShape DEF Ordered
<1> HIDE DEF t, order
<1>5. t.axes = s.axes /\ t.order = order /\ t.entries = entries
  BY <1>1, <1>3 DEF Ordered, Shaped
<1>6. Resident(t) = Resident(s) \ gone
  BY <1>5 DEF Resident
<1>7. Resident(s) \intersect (Channels \ gone) = Resident(s) \ gone
  BY DEF Resident
<1>8. Ordered(t)
  BY <1>1, <1>2, <1>4, <1>5, <1>6, <1>7 DEF Ordered, HasAxes
<1>9. QED
  BY <1>4, <1>5, <1>6, <1>8 DEF Shrinks

LEMMA PrefixElements ==
    ASSUME NEW A, NEW s \in Seq(A), NEW n \in 0 .. Len(s)
    PROVE  /\ Range(SubSeq(s, 1, n)) \subseteq Elements(s)
           /\ n = Len(s) => Range(SubSeq(s, 1, n)) = Elements(s)
<1> DEFINE t == SubSeq(s, 1, n)
<1>1. Len(s) \in Nat /\ n \in Nat /\ n <= Len(s)
  OBVIOUS
<1>2. t \in Seq(A) /\ Len(t) = n /\ \A i \in 1 .. n : t[i] = s[i]
  BY <1>1
<1> HIDE DEF t
<1>3. Range(t) = {t[i] : i \in 1 .. n}
  BY <1>1, <1>2 DEF Range
<1>4. \A i \in 1 .. n : i \in 1 .. Len(s)
  BY <1>1
<1>5. QED
  BY <1>2, <1>3, <1>4 DEF Elements, t

(* The channels that may go, in their order; there are Droppable many.     *)
LEMMA ColdestUnpinned ==
    \A s : Ordered(s) =>
        /\ Coldest(s) \in Seq(Channels)
        /\ Elements(Coldest(s)) = {x \in Resident(s) : s.pins[x] = 0}
        /\ Len(Coldest(s)) = Cardinality({x \in Resident(s) : s.pins[x] = 0})
<1> TAKE s
<1> DEFINE S == {x \in Channels : Evictable(s, x)}
           t == Select(s.order, S)
<1>1. SUFFICES ASSUME Ordered(s)
               PROVE  /\ t \in Seq(Channels)
                      /\ Elements(t) = {x \in Resident(s) : s.pins[x] = 0}
                      /\ Len(t) = Cardinality({x \in Resident(s) : s.pins[x] = 0})
  BY DEF Coldest
<1>2. Elements(s.order) \intersect S = {x \in Resident(s) : s.pins[x] = 0}
  BY <1>1 DEF Ordered, Evictable, Resident
<1> HIDE DEF S
<1>3. t \in Seq(Channels) /\ Distinct(t) /\ Elements(t) = Elements(s.order) \intersect S
  BY <1>1, SelectElements DEF Ordered
<1> HIDE DEF t
<1>4. QED
  BY <1>2, <1>3, DistinctLength

LEMMA EvictedSpares ==
    ASSUME NEW s, Ordered(s), NEW n \in 0 .. Len(Coldest(s))
    PROVE  /\ Spares(s, Evicted(s, n))
           /\ n = Len(Coldest(s)) => \A x \in Resident(Evicted(s, n)) : s.pins[x] # 0
<1> DEFINE gone == Range(SubSeq(Coldest(s), 1, n))
           t == Without(s, gone)
<1>1. /\ Coldest(s) \in Seq(Channels)
      /\ Elements(Coldest(s)) = {x \in Resident(s) : s.pins[x] = 0}
  BY ColdestUnpinned
<1>2. /\ gone \subseteq {x \in Resident(s) : s.pins[x] = 0}
      /\ n = Len(Coldest(s)) => gone = {x \in Resident(s) : s.pins[x] = 0}
  BY <1>1, PrefixElements
<1>3. Shrinks(s, t) /\ Resident(t) = Resident(s) \ gone
  BY WithoutShrinks
<1>4. Evicted(s, n) = IF n = 0 THEN s ELSE DropUnborrowed(t)
  BY DEF Evicted
<1> HIDE DEF gone, t
<1>5. Spares(s, t)
  BY <1>2, <1>3 DEF Spares, Keeps, Shrinks
<1>6. Spares(t, DropUnborrowed(t)) /\ Resident(DropUnborrowed(t)) = Resident(t)
  BY <1>3, DropSpares, DropShape DEF Shrinks, Ordered
<1>7. Spares(s, DropUnborrowed(t))
  BY <1>5, <1>6, KeepsTwice, ShrinksTwice DEF Spares
<1>8. CASE n = 0
  <2>1. Len(Coldest(s)) = 0 => Elements(Coldest(s)) = {}
    BY DEF Elements
  <2>2. QED
    BY <1>1, <1>4, <1>8, <2>1, SparesNothing
<1>9. CASE n # 0
  BY <1>2, <1>3, <1>4, <1>6, <1>7, <1>9
<1>10. QED
  BY <1>8, <1>9

LEMMA EvictToBudgetSpares ==
    ASSUME NEW s, Ordered(s)
    PROVE  Spares(s, EvictToBudget(s)) /\ InBudget(EvictToBudget(s))
<1> DEFINE n == Len(Coldest(s))
           enough == {i \in 1 .. n : Bytes(Evicted(s, i)) <= Ceiling}
           i == Min(enough \union {n})
           t == Evicted(s, i)
           u == DropUnborrowed(t)
<1>1. n \in Nat
  BY ColdestUnpinned
<1>2. CASE Bytes(s) <= Ceiling
  <2>1. EvictToBudget(s) = s
    BY <1>2 DEF EvictToBudget
  <2>2. Bytes(s) \in Int /\ Ceiling \in Int
    BY BytesNatural, BytesAssumption
  <2>3. QED
    BY <1>2, <2>1, <2>2, SparesNothing DEF InBudget
<1>3. CASE ~(Bytes(s) <= Ceiling)
  <2>1. EvictToBudget(s) = u
    BY <1>3 DEF EvictToBudget
  <2>2. i \in enough \union {n}
    <3>1. enough \union {n} \in SUBSET Nat /\ enough \union {n} # {}
      BY <1>1
    <3> HIDE DEF enough
    <3>2. QED
      BY <3>1, MinOfNats
  <2>3. i \in 0 .. n /\ (i = n \/ Bytes(t) <= Ceiling)
    <3>1. \A j \in enough : j \in 0 .. n /\ Bytes(Evicted(s, j)) <= Ceiling
      BY <1>1
    <3> HIDE DEF enough, n
    <3>2. QED
      BY <1>1, <2>2, <3>1
  <2> HIDE DEF i
  <2>4. Spares(s, t) /\ (i = n => \A x \in Resident(t) : s.pins[x] # 0)
    BY <2>3, EvictedSpares
  <2> HIDE DEF t
  <2>5. Spares(t, u)
    BY <2>4, DropSpares DEF Spares, Shrinks
  <2>6. Spares(s, u)
    BY <2>4, <2>5, KeepsTwice, ShrinksTwice DEF Spares
  <2>7. InBudget(t)
    <3>1. CASE i = n
      BY <2>4, <3>1 DEF InBudget, Spares, Shrinks
    <3>2. CASE Bytes(t) <= Ceiling
      <4>1. Bytes(t) \in Int /\ Ceiling \in Int
        BY BytesNatural, BytesAssumption
      <4>2. QED
        BY <3>2, <4>1 DEF InBudget
    <3>3. QED
      BY <2>3, <3>1, <3>2
  <2>8. InBudget(u)
    BY <2>5, <2>7, ShrinksInBudget DEF Spares
  <2>9. QED
    BY <2>1, <2>6, <2>8
<1>4. QED
  BY <1>2, <1>3

(* touch and the inserts.                                                  *)
LEMMA TouchedOrdered ==
    ASSUME NEW s, Ordered(s), NEW x \in Channels, NEW v \in Nat, v # 0
    PROVE  /\ Ordered([Touched(s, x) EXCEPT !.entries[x] = v])
           /\ Keeps(s, [Touched(s, x) EXCEPT !.entries[x] = v])
           /\ x \in Resident(s) => /\ Ordered(Touched(s, x))
                                   /\ Touched(s, x).pins = s.pins
                                   /\ Touched(s, x).axes = s.axes
                                   /\ Resident(Touched(s, x)) = Resident(s)
<1> DEFINE rest == Select(s.order, Channels \ {x})
           order == Append(rest, x)
           t == Touched(s, x)
           u == [t EXCEPT !.entries[x] = v]
<1>1. rest \in Seq(Channels) /\ Distinct(rest) /\ Elements(rest) = Resident(s) \ {x}
  <2>1. Elements(s.order) \intersect (Channels \ {x}) = Resident(s) \ {x}
    BY DEF Ordered, Resident
  <2>2. QED
    BY <2>1, SelectElements DEF Ordered
<1>2. t = [s EXCEPT !.order = order]
  BY DEF Touched
<1> HIDE DEF rest
<1>3. order \in Seq(Channels) /\ Distinct(order) /\ Elements(order) = Resident(s) \union {x}
  BY <1>1, AppendElements
<1> HIDE DEF order
<1>4. /\ Shaped(t) /\ Resident(t) = Resident(s) /\ t.pins = s.pins
      /\ t.axes = s.axes /\ t.order = order /\ t.entries = s.entries
  BY <1>2, TouchedShape DEF Ordered, Shaped
<1> HIDE DEF t
<1>5. /\ Shaped(u) /\ u.pins = s.pins /\ u.axes = s.axes /\ u.order = order
      /\ u.entries = [s.entries EXCEPT ![x] = v]
  BY <1>4 DEF Shaped
<1>6. Resident(u) = Resident(s) \union {x}
  BY <1>4, <1>5 DEF Resident, Shaped
<1> HIDE DEF u
<1>7. Ordered(u) /\ Keeps(s, u)
  BY <1>3, <1>5, <1>6 DEF Ordered, HasAxes, Keeps
<1>8. x \in Resident(s) => Ordered(t)
  BY <1>3, <1>4 DEF Ordered, HasAxes
<1>9. QED
  BY <1>4, <1>7, <1>8 DEF t, u

LEMMA InsertedOrdered ==
    ASSUME NEW s, Ordered(s), NEW x \in Channels, NEW v \in Nat, v # 0
    PROVE  /\ Ordered(Inserted(s, x, v)) /\ InBudget(Inserted(s, x, v))
           /\ Keeps(s, Inserted(s, x, v))
<1> DEFINE t == [Touched(s, x) EXCEPT !.entries[x] = v]
<1>1. Ordered(t) /\ Keeps(s, t) /\ Inserted(s, x, v) = EvictToBudget(t)
  BY TouchedOrdered DEF Inserted
<1> HIDE DEF t
<1>2. Spares(t, EvictToBudget(t)) /\ InBudget(EvictToBudget(t))
  BY <1>1, EvictToBudgetSpares
<1>3. QED
  BY <1>1, <1>2, KeepsTwice DEF Spares, Shrinks

LEMMA AxisInsertedOrdered ==
    ASSUME NEW s, Ordered(s), InBudget(s), NEW a, NEW v \in Nat
    PROVE  /\ Ordered(AxisInserted(s, a, v)) /\ InBudget(AxisInserted(s, a, v))
           /\ Keeps(s, AxisInserted(s, a, v))
<1> DEFINE t == [s EXCEPT !.axes[a] = v]
<1>1. CASE s.axes[a] # 0
  BY <1>1, SparesNothing DEF AxisInserted, Spares
<1>2. CASE s.axes[a] = 0
  <2>1. /\ Shaped(t) /\ Resident(t) = Resident(s) /\ t.pins = s.pins /\ t.order = s.order
        /\ t.axes = [s.axes EXCEPT ![a] = v]
    BY DEF Ordered, Shaped, Resident
  <2> HIDE DEF t
  <2>2. Ordered(t) /\ Keeps(s, t)
    BY <2>1 DEF Ordered, HasAxes, Keeps
  <2>3. Spares(t, EvictToBudget(t)) /\ InBudget(EvictToBudget(t))
    BY <2>2, EvictToBudgetSpares
  <2>4. AxisInserted(s, a, v) = EvictToBudget(t)
    BY <1>2 DEF AxisInserted, t
  <2>5. QED
    BY <2>2, <2>3, <2>4, KeepsTwice DEF Spares, Shrinks
<1>3. QED
  BY <1>1, <1>2

(* The steps.                                                              *)

CacheInv == Ordered(cache) /\ InBudget(cache)
PinnedKept ==
    \A x \in Resident(cache) \ Resident(cache') :
        cache.pins[x] = 0 \/ cache'.pins[x] = 0 \/ fileOp' # fileOp
CacheMoves == CacheInv' /\ PinnedKept

LEMMA SparesMoves == ASSUME CacheInv, Spares(cache, cache') PROVE CacheMoves
<1>1. Ordered(cache')
  BY DEF Spares, Shrinks
<1>2. InBudget(cache')
  BY ShrinksInBudget DEF CacheInv, Spares
<1>3. PinnedKept
  BY DEF Spares, Keeps, PinnedKept
<1>4. QED
  BY <1>1, <1>2, <1>3 DEF CacheMoves, CacheInv, Ordered, InBudget, HasAxes

LEMMA InsertCache ==
    ASSUME DecodesInv, MovesInv, CacheInv, NEW c \in Callers, Insert(c) PROVE CacheMoves
<1> DEFINE me == call[c]
           Add(s, a) == IF a \in me.fresh THEN AxisInserted(s, a, me.read) ELSE s
           first == Inserted(cache, me.ch, me.read)
           second == Add(first, "t")
<1>1. me.pc = "insert" /\ cache' = Add(second, Source[me.ch])
  BY DEF Insert
<1>2. me \in Calls /\ Placed(me) /\ Tasked(me)
  BY DEF DecodesInv, Typed, MovesInv, TaskedInv
<1>3. me.ch \in Channels /\ me.read \in Nat /\ me.read # 0
  BY <1>1, <1>2 DEF Calls, Placed, Holding, Leading, Tasked
<1> HIDE DEF me
<1>4. Ordered(first) /\ InBudget(first) /\ Keeps(cache, first)
  BY <1>3, InsertedOrdered DEF CacheInv
<1> HIDE DEF first
<1>5. ASSUME NEW s, NEW a, Ordered(s), InBudget(s)
      PROVE  Ordered(Add(s, a)) /\ InBudget(Add(s, a)) /\ Keeps(s, Add(s, a))
  BY <1>3, <1>5, AxisInsertedOrdered, SparesNothing DEF Spares
<1> HIDE DEF Add
<1>6. Ordered(second) /\ InBudget(second) /\ Keeps(cache, second)
  BY <1>4, <1>5, KeepsTwice
<1> HIDE DEF second
<1>7. Ordered(cache') /\ InBudget(cache') /\ Keeps(cache, cache')
  BY <1>1, <1>5, <1>6, KeepsTwice
<1>8. QED
  BY <1>7 DEF CacheMoves, CacheInv, PinnedKept, Keeps, Ordered, InBudget, HasAxes

LEMMA RoomSpares == Ordered(cache) /\ kept \in Nat => Spares(cache, Room.cache)
<1>1. SUFFICES ASSUME Ordered(cache), kept \in Nat PROVE Spares(cache, Room.cache)
  OBVIOUS
<1> DEFINE last == Droppable + kept
           T == {last} \union {i \in 0 .. last : Fits(Made(i)) \/ Futile(Made(i))}
<1>2. Droppable \in Nat /\ Droppable = Len(Coldest(cache))
  <2>1. {x \in Resident(cache) : Evictable(cache, x)} = {x \in Resident(cache) : cache.pins[x] = 0}
    BY DEF Evictable
  <2>2. QED
    BY <1>1, <2>1, ColdestUnpinned DEF Droppable
<1>3. T \in SUBSET (0 .. last) /\ T # {}
  BY <1>1, <1>2
<1>4. T \in SUBSET Nat
  BY <1>1, <1>2, <1>3
<1> HIDE DEF T
<1>5. Min(T) \in 0 .. last
  BY <1>3, <1>4, MinOfNats
<1>6. ASSUME NEW i \in 0 .. last PROVE Spares(cache, Made(i).cache)
  <2>1. CASE i <= Droppable
    <3>1. i \in 0 .. Len(Coldest(cache))
      BY <1>1, <1>2, <1>6, <2>1
    <3>2. QED
      BY <1>1, <2>1, <3>1, EvictedSpares DEF Made
  <2>2. CASE ~(i <= Droppable)
    <3>1. Droppable \in 0 .. Len(Coldest(cache))
      BY <1>2
    <3>2. QED
      BY <1>1, <2>2, <3>1, EvictedSpares DEF Made
  <2>3. QED
    BY <2>1, <2>2
<1>7. Room = Made(Min(T))
  BY DEF Room, T
<1>8. QED
  BY <1>5, <1>6, <1>7

LEMMA HitCache ==
    ASSUME CacheInv, NEW c \in Callers, Hit(c) PROVE CacheMoves
<1>1. call[c].ch \in Channels /\ call[c].ch \in Resident(cache) /\ cache' = Touched(cache, call[c].ch)
  BY DEF Hit, Resident
<1>2. 1 \in Nat /\ 1 # 0
  OBVIOUS
<1>3. /\ Ordered(cache') /\ cache'.pins = cache.pins /\ cache'.axes = cache.axes
      /\ Resident(cache') = Resident(cache)
  BY <1>1, <1>2, TouchedOrdered DEF CacheInv
<1>4. Spares(cache, cache')
  BY <1>3 DEF Spares, Shrinks, Keeps
<1>5. QED
  BY <1>4, SparesMoves

LEMMA PinCache ==
    ASSUME DecodesInv, MovesInv, CacheInv, NEW c \in Callers, NEW x \in Channels, PinInput(c, x)
    PROVE  CacheMoves
<1>1. cache' = [cache EXCEPT !.pins = [cache.pins EXCEPT ![x] = @ + 1]] /\ Shaped(cache)
  BY DEF PinInput, DecodesInv, Typed
<1>2. /\ cache'.entries = cache.entries /\ cache'.order = cache.order
      /\ cache'.axes = cache.axes /\ Shaped(cache')
      /\ cache'.pins = [cache.pins EXCEPT ![x] = @ + 1]
  BY <1>1 DEF Shaped
<1>3. cache.pins \in [Channels -> Nat]
  BY CallersFinite DEF MovesInv, CountersInv, Pinners
<1>4. \A y \in Channels : cache.pins[y] # 0 => cache'.pins[y] # 0
  BY <1>2, <1>3
<1>5. Resident(cache') = Resident(cache) /\ Resident(cache) \subseteq Channels
  BY <1>2 DEF Resident
<1>6. Bytes(cache') = Bytes(cache)
  BY <1>2, <1>5 DEF Bytes
<1>7. Ordered(cache')
  BY <1>2, <1>5 DEF CacheInv, Ordered, HasAxes
<1>8. InBudget(cache')
  BY <1>4, <1>5, <1>6 DEF CacheInv, InBudget
<1>9. PinnedKept
  BY <1>5 DEF PinnedKept
<1>10. QED
  BY <1>7, <1>8, <1>9 DEF CacheMoves, CacheInv, Ordered, InBudget, HasAxes

LEMMA UnpinCache ==
    ASSUME DecodesInv, CacheInv, NEW c \in Callers, Unpin(c) PROVE CacheMoves
<1> DEFINE s == [cache EXCEPT !.pins = [cache.pins EXCEPT ![call[c].ch] = @ - 1]]
<1>1. cache' = EvictToBudget(s) /\ Shaped(cache)
  BY DEF Unpin, DecodesInv, Typed
<1>2. Shaped(s) /\ s.entries = cache.entries /\ s.order = cache.order /\ s.axes = cache.axes
  BY <1>1 DEF Shaped
<1> HIDE DEF s
<1>3. Ordered(s) /\ Resident(s) = Resident(cache)
  BY <1>2 DEF CacheInv, Ordered, HasAxes, Resident
<1>4. Spares(s, cache') /\ InBudget(cache')
  BY <1>1, <1>3, EvictToBudgetSpares
<1>5. PinnedKept
  BY <1>3, <1>4 DEF PinnedKept, Spares, Keeps
<1>6. QED
  BY <1>4, <1>5 DEF CacheMoves, CacheInv, Ordered, InBudget, HasAxes, Spares, Shrinks

LEMMA InvalidateCache ==
    ASSUME CacheInv, InvalidateSession, fileOp' # fileOp PROVE CacheMoves
<1> DEFINE t == Without(cache, Channels)
<1>1. Shrinks(cache, t)
  BY WithoutShrinks DEF CacheInv
<1> HIDE DEF t
<1>2. Shrinks(t, DropUnborrowed(t))
  BY <1>1, DropSpares DEF Shrinks, Spares
<1>3. Shrinks(cache, cache')
  BY <1>1, <1>2, ShrinksTwice DEF InvalidateSession, t
<1>4. Ordered(cache') /\ InBudget(cache')
  BY <1>3, ShrinksInBudget DEF CacheInv, Shrinks
<1>5. PinnedKept
  BY DEF PinnedKept
<1>6. QED
  BY <1>4, <1>5 DEF CacheMoves, CacheInv, Ordered, InBudget, HasAxes

LEMMA SameCache == ASSUME CacheInv, cache' = cache PROVE CacheMoves
  BY SparesNothing, SparesMoves DEF CacheInv

LEMMA StepCache ==
    ASSUME DecodesInv, MovesInv, GrantsInv, CacheInv, [Next]_vars
    PROVE  CacheMoves
<1>1. ASSUME NEW c \in Callers,
             \/ \E x \in Channels : Read(c, x)
             \/ Lead(c) \/ Reserve(c) \/ NotReserved(c) \/ ClaimT(c) \/ ClaimRecorded(c)
             \/ Borrow(c) \/ ReadFile(c) \/ ReadFails(c) \/ GiveBack(c) \/ Unclaim(c)
             \/ Lookup(c) \/ EndRun(c)
      PROVE  CacheMoves
  BY <1>1, SameCache DEF Read, Lead, Reserve, NotReserved, ClaimT, ClaimRecorded, ClaimAxis,
     Borrow, ReadFile, ReadFails, GiveBack, Unclaim, Lookup, EndRun
<1>2. ASSUME NEW c \in Callers, Arrive(c) \/ TryAgain(c) \/ TryAdmit(c) PROVE CacheMoves
  <2>1. cache' = cache \/ cache' = Room.cache
    BY <1>2 DEF Arrive, TryAgain, TryAdmit, Dropped
  <2>2. cache' = Room.cache => Spares(cache, cache')
    BY RoomSpares DEF CacheInv, GrantsInv
  <2>3. QED
    BY <2>1, <2>2, SameCache, SparesMoves
<1>3. ASSUME Import \/ ImportDone \/ Reimport \/ ReimportDone \/ Probe PROVE CacheMoves
  <2>1. cache' = cache \/ (InvalidateSession /\ fileOp' # fileOp)
    BY <1>3 DEF Import, ImportDone, Reimport, ReimportDone, Probe
  <2>2. QED
    BY <2>1, SameCache, InvalidateCache
<1>4. CASE UNCHANGED vars
  BY <1>4, SameCache DEF vars
<1>5. QED
  BY <1>1, <1>2, <1>3, <1>4, HitCache, InsertCache, PinCache, UnpinCache
     DEF Next, Reading, Evaluating

LEMMA InitCache == Init => CacheInv
<1>1. SUFFICES ASSUME Init PROVE CacheInv
  OBVIOUS
<1>2. /\ cache = [entries |-> [x \in Channels |-> 0], order |-> <<>>,
                  axes |-> [a \in AxisKeys |-> 0], pins |-> [x \in Channels |-> 0]]
  BY <1>1 DEF Init
<1>3. Resident(cache) = {}
  BY <1>2 DEF Resident
<1>4. /\ cache.order \in Seq(Channels) /\ Distinct(cache.order) /\ Elements(cache.order) = {}
  BY <1>2 DEF Distinct, Elements
<1>5. Shaped(cache) /\ HasAxes(cache)
  BY <1>2 DEF Shaped, HasAxes
<1>6. QED
  BY <1>3, <1>4, <1>5 DEF CacheInv, Ordered, InBudget

---------------------------------------------------------------------------
(* What follows of the ledger.                                             *)

LedgerInv == DecodesInv /\ GrantsInv /\ MovesInv /\ CacheInv

LEMMA InitLedger == Init => LedgerInv
  BY InitDecodes, InitGrants, InitMoves, InitCache DEF LedgerInv
LEMMA StepLedger == LedgerInv /\ [Next]_vars => LedgerInv'
  BY StepDecodes, StepGrants, StepMoves, StepCache DEF LedgerInv, CacheMoves

LEMMA ElementsRange ==
    ASSUME NEW A, NEW s \in Seq(A)
    PROVE  Range(s) = Elements(s) /\ (Distinct(s) => IsInjective(s))
<1>1. DOMAIN s = 1 .. Len(s)
  OBVIOUS
<1>2. Range(s) = Elements(s)
  BY <1>1 DEF Range, Elements
<1>3. Distinct(s) => IsInjective(s)
  BY <1>1 DEF Distinct, IsInjective
<1>4. QED
  BY <1>2, <1>3

LEMMA LedgerInvExact == LedgerInv => LedgerExact
<1>1. SUFFICES ASSUME LedgerInv PROVE LedgerExact
  OBVIOUS
<1>2. Range(queue) = {c \in Callers : call[c].pc = "queued"} /\ IsInjective(queue)
  BY <1>1, ElementsRange DEF LedgerInv, MovesInv, QueueInv, Waiting
<1>3. Range(cache.order) = Resident(cache) /\ IsInjective(cache.order)
  BY <1>1, ElementsRange DEF LedgerInv, CacheInv, Ordered
<1>4. /\ Decoding = {c \in Callers : call[c].pc \in Reserved}
      /\ Evaluators = {c \in Callers : Running(c)}
      /\ \A x \in Channels : Pinners(x) = {c \in Callers : Pinning(c, x)}
  BY DEF Decoding, HoldsDecode, Evaluators, HoldsEval, Running, Pinners, Pins, Pinning
<1>5. /\ inFlight = DecodeBytes * Cardinality(Decoding)
      /\ evalReserved = EvalBytes * Cardinality(Evaluators)
      /\ \A x \in Channels : cache.pins[x] = Cardinality(Pinners(x))
  BY <1>1 DEF LedgerInv, MovesInv, CountersInv
<1>6. QED
  BY <1>2, <1>3, <1>4, <1>5 DEF LedgerExact

(* The counters are exactly what the callers hold, on every path out of a  *)
(* decode and of an evaluation; the queue holds the tickets of those who   *)
(* wait, each once, and the eviction order names what is resident, each    *)
(* once (Reservation::drop, EvalAdmission::drop, InputPins::drop, touch).  *)
THEOREM CacheLedgerExact == Spec => []LedgerExact
<1>1. QED
  BY InitLedger, StepLedger, LedgerInvExact, PTL DEF Spec

(* After every insert, admission, unpinning and invalidation, what is      *)
(* resident exceeds the ceiling only if every resident channel is pinned   *)
(* (evict_to_budget).                                                      *)
THEOREM CacheOverBudgetOnlyByPins == Spec => []OverBudgetOnlyByPins
<1>1. LedgerInv => OverBudgetOnlyByPins
  <2>1. SUFFICES ASSUME LedgerInv PROVE OverBudgetOnlyByPins
    OBVIOUS
  <2>2. \A x \in Channels : cache.pins[x] \in Nat
    BY <2>1, CallersFinite DEF LedgerInv, MovesInv, CountersInv, Pinners
  <2>3. QED
    BY <2>1, <2>2 DEF LedgerInv, CacheInv, InBudget, OverBudgetOnlyByPins, Resident
<1>2. QED
  BY <1>1, InitLedger, StepLedger, PTL DEF Spec

(* A pinned input is dropped only with the file it was decoded from: no    *)
(* insert, no admission and no other evaluation's end evicts it.           *)
THEOREM CachePinnedStays == Spec => PinnedStays
<1> DEFINE Stays ==
        \A x \in Resident(cache) \ Resident(cache') : cache.pins[x] > 0 /\ cache'.pins[x] > 0
            => fileOp # fileOp'
<1>1. LedgerInv /\ [Next]_vars => Stays
  <2>1. LedgerInv /\ [Next]_vars => PinnedKept
    BY StepCache DEF LedgerInv, CacheMoves
  <2>2. PinnedKept => Stays
    BY DEF PinnedKept
  <2>3. QED
    BY <2>1, <2>2
<1>2. LedgerInv /\ [Next]_vars => [Stays]_vars
  BY <1>1
<1>3. QED
  BY InitLedger, StepLedger, <1>2, PTL DEF Spec, PinnedStays

(* While callers wait, an evaluation is admitted only if its ticket is the *)
(* first, which leaves the queue with it (admit, try_admit).               *)
THEOREM CacheFirstComeFirstServed == Spec => FirstComeFirstServed
<1> DEFINE Served == evalReserved' > evalReserved /\ queue # <<>> => queue' = Tail(queue)
<1>1. LedgerInv /\ [Next]_vars => Served
  <2>1. SUFFICES ASSUME LedgerInv, [Next]_vars, evalReserved' > evalReserved, queue # <<>>
                 PROVE  queue' = Tail(queue)
    OBVIOUS
  <2>2. /\ queue \in Seq(Callers) /\ Distinct(queue) /\ evalReserved \in Int
        /\ EvalBytes \in Nat \ {0}
    BY <2>1, BytesAssumption DEF LedgerInv, MovesInv, QueueInv, GrantsInv
  <2>3. ASSUME NEW c \in Callers, TryAgain(c) PROVE queue' = Tail(queue)
    <3>1. Head(queue) = c /\ queue' = Select(queue, Callers \ {c})
      BY <2>1, <2>2, <2>3 DEF TryAgain, WaitsOrLeaves, Admitted
    <3>2. /\ queue[1] = c /\ Len(queue) \in Nat /\ 1 \in 1 .. Len(queue)
          /\ \A i \in 1 .. Len(queue) : queue[i] \in Callers
      BY <2>1, <2>2, <3>1
    <3>3. \A i \in 2 .. Len(queue) : i \in 1 .. Len(queue) /\ i # 1
      BY <3>2
    <3>4. \A i \in 2 .. Len(queue) : queue[i] \in Callers \ {c}
      BY <2>2, <3>2, <3>3 DEF Distinct
    <3>5. Select(queue, Callers \ {c}) = Tail(queue)
      BY <2>1, <2>2, <3>2, <3>4, SelectTail
    <3>6. QED
      BY <3>1, <3>5
  <2>4. ASSUME NEW c \in Callers, EndRun(c) PROVE FALSE
    BY <2>1, <2>2, <2>4 DEF EndRun
  <2>5. ASSUME evalReserved' = evalReserved PROVE FALSE
    BY <2>1, <2>2, <2>5
  <2>6. ASSUME NEW c \in Callers, Arrive(c) \/ TryAdmit(c) PROVE FALSE
    BY <2>1, <2>5, <2>6 DEF Arrive, Queued, TryAdmit, NobodyWaits
  <2>7. ASSUME NEW c \in Callers,
               \/ \E x \in Channels : Read(c, x) \/ PinInput(c, x)
               \/ Reading(c) \/ Lookup(c) \/ Unpin(c)
        PROVE  FALSE
    BY <2>5, <2>7 DEF Read, PinInput, Reading, Hit, Lead, Reserve, NotReserved, ClaimT,
       ClaimRecorded, ClaimAxis, Borrow, ReadFile, ReadFails, Insert, GiveBack, Unclaim, Lookup,
       Unpin, ledger
  <2>8. ASSUME Import \/ ImportDone \/ Reimport \/ ReimportDone \/ Probe \/ UNCHANGED vars
        PROVE  FALSE
    BY <2>5, <2>8 DEF Import, ImportDone, Reimport, ReimportDone, Probe, ledger, vars
  <2>9. QED
    BY <2>1, <2>3, <2>4, <2>6, <2>7, <2>8 DEF Next, Evaluating
<1>2. LedgerInv /\ [Next]_vars => [Served]_vars
  BY <1>1
<1>3. QED
  BY InitLedger, StepLedger, <1>2, PTL DEF Spec, FirstComeFirstServed
=============================================================================
