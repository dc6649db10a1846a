---------------------------- MODULE SessionCache ----------------------------
(***************************************************************************)
(* The decoded channels of one session and the process's memory ledger:    *)
(* tauri/src/session_cache.rs, with the callers it has in                  *)
(* commands/workbook.rs, evaluate_planned, and core/src/store/set_job.rs.  *)
(*                                                                         *)
(* A caller reads a channel, or evaluates a workbook: it pins its input,   *)
(* decodes it, waits for admission, runs and lets go.  One TLA+ action is  *)
(* what one thread does under one lock.  A decode reads data.parquet       *)
(* outside every lock; what it reads carries the version of the file.      *)
(* Each channel reads through two time axes, the session's "t" and its     *)
(* source's own, which are kept apart from it.                             *)
(***************************************************************************)
EXTENDS Selections, Integers, FiniteSetsExt, SequencesExt

CONSTANTS
    Callers, Channels,
    Source,         \* per channel: the source that recorded it
    ChannelBytes, AxisBytes,
    DecodeBytes,    \* what a decode reserves: its estimate with the margin
    EvalBytes,      \* the planned peak of an evaluation
    KeptBytes,      \* an evaluation the registry keeps
    Ceiling,        \* budget_bytes, B_max
    Samples,        \* commit readings: [own, available], less the headroom
    NoChannel,
    MaxVersion      \* bound: versions of data.parquet

AxisKeys == {"t"} \union {Source[x] : x \in Channels}
AxesOf(x) == {"t", Source[x]}

ASSUME BytesAssumption ==
    /\ {ChannelBytes, AxisBytes, DecodeBytes, EvalBytes, KeptBytes, Ceiling} \subseteq Nat \ {0}
    /\ ChannelBytes + AxisBytes <= Ceiling
    /\ DecodeBytes <= Ceiling /\ EvalBytes <= Ceiling
    /\ \A reading \in Samples : reading.own \in Int /\ reading.available \in Int
\* Pending::Channel and Pending::Axis are never the same.
ASSUME NamesAssumption == IsFiniteSet(Channels) /\ Channels \intersect AxisKeys = {}
ASSUME CallersAssumption == IsFiniteSet(Callers)

VARIABLES
    cache,          \* Inner::entries, order, axes and pins; 0: not resident
    inFlight,       \* Inner::in_flight_bytes
    evalReserved,   \* Inner::eval_reserved_bytes
    pending,        \* Inner::pending: the channels and axes being decoded
    queue,          \* Inner::admit_queue: callers, for their tickets
    kept,           \* how many evaluations the registry keeps, none pinned
    sample,         \* MachineBudget::last
    file, fileOp,   \* data.parquet's version; the command that is at it
    call            \* per caller: where it is, and its locals

ledger == <<inFlight, evalReserved, queue>>
world == <<sample, file, fileOp>>
vars == <<cache, ledger, pending, kept, world, call>>

Idle == [pc |-> "idle", task |-> "none", ch |-> NoChannel,
         claims |-> {},     \* the axes it has claimed
         held |-> {},       \* the axes it reads through: its Arcs
         fresh |-> {},      \* the axes it has decoded
         read |-> 0]        \* the version of the file it has read

Init ==
    /\ cache = [entries |-> [x \in Channels |-> 0], order |-> <<>>,
                axes |-> [a \in AxisKeys |-> 0], pins |-> [x \in Channels |-> 0]]
    /\ inFlight = 0 /\ evalReserved = 0 /\ queue = <<>>
    /\ pending = {} /\ kept = 0
    /\ sample \in Samples /\ file = 1 /\ fileOp = "none"
    /\ call = [c \in Callers |-> Idle]

---------------------------------------------------------------------------
(* What is resident, and eviction.                                         *)

Resident(s) == {x \in Channels : s.entries[x] # 0}
Bytes(s) == ChannelBytes * Cardinality(Resident(s))
            + AxisBytes * Cardinality({a \in AxisKeys : s.axes[a] # 0})

\* Mutant of Borrowed: the decodes that read through the axis are not asked.
BorrowedByResident(s, a) == \E x \in Resident(s) : a \in AxesOf(x)
Borrowed(s, a) ==
    \/ \E c \in Callers : a \in call[c].held
    \/ \E x \in Resident(s) : a \in AxesOf(x)

DropUnborrowed(s) == [s EXCEPT !.axes = [a \in AxisKeys |-> IF Borrowed(s, a) THEN @[a] ELSE 0]]

Without(s, gone) ==
    [s EXCEPT !.entries = [x \in Channels |-> IF x \in gone THEN 0 ELSE @[x]],
              !.order = Select(@, Channels \ gone)]

\* Mutant of Evictable: the pins are not looked at.
EvictableAnyway(s, x) == TRUE
Evictable(s, x) == s.pins[x] = 0

\* evict_coldest, n times.
Coldest(s) == Select(s.order, {x \in Channels : Evictable(s, x)})
Evicted(s, n) ==
    IF n = 0 THEN s ELSE DropUnborrowed(Without(s, Range(SubSeq(Coldest(s), 1, n))))

\* Mutant of EvictToBudget: what stands over the budget is left alone.
EvictNothing(s) == s
\* evict_to_budget: as many as it takes, all if that is not enough.
EvictToBudget(s) ==
    IF Bytes(s) <= Ceiling THEN s
    ELSE LET n == Len(Coldest(s))
             enough == {i \in 1 .. n : Bytes(Evicted(s, i)) <= Ceiling}
         IN  DropUnborrowed(Evicted(s, Min(enough \union {n})))

\* touch, insert and insert_axis.
Touched(s, x) == [s EXCEPT !.order = Append(Select(@, Channels \ {x}), x)]
Inserted(s, x, version) == EvictToBudget([Touched(s, x) EXCEPT !.entries[x] = version])
AxisInserted(s, a, version) ==
    IF s.axes[a] # 0 THEN s ELSE EvictToBudget([s EXCEPT !.axes[a] = version])

---------------------------------------------------------------------------
(* The budget, and room under it.                                          *)

BudgetFor(accounted) == Min({Ceiling, Min({sample.own, accounted}) + sample.available})
Accounted(s, k) == Bytes(s) + KeptBytes * k + inFlight + evalReserved

\* Mutant of DecodeFits: the running evaluations are not counted.
DecodeFitsBesideDecodes == inFlight + DecodeBytes <= BudgetFor(Accounted(cache, kept))
DecodeFits == inFlight + evalReserved + DecodeBytes <= BudgetFor(Accounted(cache, kept))

\* make_room, after i evictions: channels first, then kept evaluations.
Droppable == Cardinality({x \in Resident(cache) : Evictable(cache, x)})
Made(i) ==
    LET n == Droppable IN
    IF i <= n THEN [cache |-> Evicted(cache, i), kept |-> kept]
    ELSE [cache |-> Evicted(cache, n), kept |-> kept - (i - n)]
Fits(r) == LET held == Accounted(r.cache, r.kept) IN held + EvalBytes <= BudgetFor(held)
Futile(r) ==
    LET pinned == {x \in Resident(cache) : cache.pins[x] > 0} IN
    inFlight + evalReserved + ChannelBytes * Cardinality(pinned) + EvalBytes
        > BudgetFor(Accounted(r.cache, r.kept))

\* It stops where it fits, where it sees no sense in more, or with nothing left.
Room ==
    LET last == Droppable + kept
    IN  Made(Min({last} \union {i \in 0 .. last : Fits(Made(i)) \/ Futile(Made(i))}))
---------------------------------------------------------------------------
(* channel: one caller's read of one channel.                              *)

Start(c, task, x) == call' = [call EXCEPT ![c] = [Idle EXCEPT !.pc = "claim", !.task = task, !.ch = x]]
Goto(c, where) == call' = [call EXCEPT ![c].pc = where]

Return(c) ==
    call' = [call EXCEPT ![c] =
        CASE call[c].task = "read" -> Idle
          [] call[c].task = "prefetch" -> [Idle EXCEPT !.pc = "admit", !.ch = call[c].ch]
          [] call[c].task = "lookup" -> [Idle EXCEPT !.pc = "running", !.task = "evaluate", !.ch = call[c].ch]]

Read(c, x) ==
    /\ call[c].pc = "idle"
    /\ Start(c, "read", x)
    /\ UNCHANGED <<cache, ledger, pending, kept, world>>

\* The channel is resident.  (An eviction between claim's look and touch's
\* sends the caller round again.)
Hit(c) ==
    /\ call[c].pc = "claim"
    /\ call[c].ch \in Resident(cache)
    /\ cache' = Touched(cache, call[c].ch)
    /\ Return(c)
    /\ UNCHANGED <<ledger, pending, kept, world>>

\* Mutant of Unclaimed: a decode in flight is not waited for.
UnclaimedAnyway(what) == TRUE
Unclaimed(what) == what \notin pending

Lead(c) ==
    /\ call[c].pc = "claim"
    /\ call[c].ch \notin Resident(cache)
    /\ Unclaimed(call[c].ch)
    /\ pending' = pending \union {call[c].ch}
    /\ Goto(c, "reserve")
    /\ UNCHANGED <<cache, ledger, kept, world>>

Reserve(c) ==
    /\ call[c].pc = "reserve"
    /\ DecodeFits
    /\ inFlight' = inFlight + DecodeBytes
    /\ Goto(c, "claim t")
    /\ UNCHANGED <<cache, evalReserved, queue, pending, kept, world>>

\* No estimate, an estimate above the budget, or RESERVE_TIMEOUT.
NotReserved(c) ==
    /\ call[c].pc = "reserve"
    /\ Goto(c, "unclaim")
    /\ UNCHANGED <<cache, ledger, pending, kept, world>>

\* An axis that is resident is not claimed, one that is being decoded waited for.
ClaimAxis(c, a, next) ==
    /\ cache.axes[a] # 0 \/ Unclaimed(a)
    /\ LET mine == IF cache.axes[a] # 0 THEN {} ELSE {a} IN
       /\ pending' = pending \union mine
       /\ call' = [call EXCEPT ![c].claims = @ \union mine, ![c].pc = next]
    /\ UNCHANGED <<cache, ledger, kept, world>>

ClaimT(c) ==
    /\ call[c].pc = "claim t"
    /\ ClaimAxis(c, "t", "claim recorded")

ClaimRecorded(c) ==
    /\ call[c].pc = "claim recorded"
    /\ ClaimAxis(c, Source[call[c].ch], "borrow")

Borrow(c) ==
    /\ call[c].pc = "borrow"
    /\ call' = [call EXCEPT ![c].pc = "read",
                            ![c].held = {a \in AxesOf(call[c].ch) : cache.axes[a] # 0}]
    /\ UNCHANGED <<cache, ledger, pending, kept, world>>

\* read_channel_sharing_axes decodes the channel and the axes it was not given.
ReadFile(c) ==
    /\ call[c].pc = "read"
    /\ call' = [call EXCEPT ![c].pc = "insert", ![c].read = file, ![c].held = {},
                            ![c].fresh = AxesOf(call[c].ch) \ call[c].held]
    /\ UNCHANGED <<cache, ledger, pending, kept, world>>

\* The index cannot be read, or the file cannot: here the axes are given up
\* before the reservation.
ReadFails(c) ==
    /\ call[c].pc \in {"claim t", "read"}
    /\ pending' = pending \ call[c].claims
    /\ call' = [call EXCEPT ![c].pc = "give back", ![c].claims = {}, ![c].held = {}]
    /\ UNCHANGED <<cache, ledger, kept, world>>

\* The channel, then the axes it decoded, under one lock.
Insert(c) ==
    /\ call[c].pc = "insert"
    /\ LET me == call[c]
           Add(s, a) == IF a \in me.fresh THEN AxisInserted(s, a, me.read) ELSE s
       IN  \E s \in {Inserted(cache, me.ch, me.read)} : \E st \in {Add(s, "t")} :
               cache' = Add(st, Source[me.ch])
    /\ call' = [call EXCEPT ![c].pc = "give back", ![c].fresh = {}, ![c].read = 0]
    /\ UNCHANGED <<ledger, pending, kept, world>>

\* Mutant of Returned: a decode that failed keeps its reservation.
KeptOnFailure(c) ==
    IF call[c].ch \in Resident(cache) THEN inFlight - DecodeBytes ELSE inFlight
Returned(c) == inFlight - DecodeBytes

\* Reservation::drop.
GiveBack(c) ==
    /\ call[c].pc = "give back"
    /\ inFlight' = Returned(c)
    /\ Goto(c, "unclaim")
    /\ UNCHANGED <<cache, evalReserved, queue, pending, kept, world>>

\* Released: the channel and the axes, each by its own InFlight::drop.
Unclaim(c) ==
    /\ call[c].pc = "unclaim"
    /\ pending' = pending \ (call[c].claims \union {call[c].ch})
    /\ Return(c)
    /\ UNCHANGED <<cache, ledger, kept, world>>

---------------------------------------------------------------------------
(* evaluate_planned: pin, decode, wait for admission, run.                 *)

PinInput(c, x) ==
    /\ call[c].pc = "idle"
    /\ cache' = [cache EXCEPT !.pins[x] = @ + 1]
    /\ Start(c, "prefetch", x)
    /\ UNCHANGED <<ledger, pending, kept, world>>

\* make_room drops what it drops, whether it makes room in the end or not.
Dropped(r) == cache' = r.cache /\ kept' = r.kept

Admitted(c, task) ==
    /\ evalReserved' = evalReserved + EvalBytes
    /\ call' = [call EXCEPT ![c].pc = "running", ![c].task = task]
    /\ queue' = Select(queue, Callers \ {c})

Queued(c) ==
    /\ queue' = Append(queue, c)
    /\ Goto(c, "queued")
    /\ UNCHANGED evalReserved

\* A ticket is taken and, in the same lock, the front one tried.
Arrive(c) ==
    /\ call[c].pc = "admit"
    /\ \/ queue # <<>> /\ Queued(c) /\ UNCHANGED <<cache, kept>>
       \/ /\ queue = <<>>
          /\ \E r \in {Room} :
                Dropped(r) /\ IF Fits(r) THEN Admitted(c, "evaluate") ELSE Queued(c)
    /\ UNCHANGED <<inFlight, pending, world>>

TicketDropped(c) == queue' = Select(queue, Callers \ {c})

\* It waits on; or it has been cancelled, or has waited RESERVE_TIMEOUT on other
\* programs only, and leaves the queue.
WaitsOrLeaves(c) ==
    /\ \/ UNCHANGED <<queue, call>>
       \/ TicketDropped(c) /\ Goto(c, "unpin")
    /\ UNCHANGED evalReserved

\* Woken, or PROBE_REFRESH later.
TryAgain(c) ==
    /\ call[c].pc = "queued"
    /\ \/ Head(queue) # c /\ WaitsOrLeaves(c) /\ UNCHANGED <<cache, kept>>
       \/ /\ Head(queue) = c
          /\ \E r \in {Room} :
                Dropped(r) /\ IF Fits(r) THEN Admitted(c, "evaluate") ELSE WaitsOrLeaves(c)
    /\ UNCHANGED <<inFlight, pending, world>>

\* The evaluation asks for its input while it runs.
Lookup(c) ==
    /\ call[c].pc = "running" /\ call[c].task = "evaluate"
    /\ Start(c, "lookup", call[c].ch)
    /\ UNCHANGED <<cache, ledger, pending, kept, world>>

\* EvalAdmission::drop; a member of a session set has nothing pinned.
EndRun(c) ==
    /\ call[c].pc = "running"
    /\ evalReserved' = evalReserved - EvalBytes
    /\ call' = [call EXCEPT ![c] =
                   IF @.task = "member" THEN Idle ELSE [@ EXCEPT !.pc = "unpin"]]
    /\ UNCHANGED <<cache, inFlight, queue, pending, kept, world>>

\* InputPins::drop; the registry may then keep the result, beside the others or
\* in the place of the oldest.
Unpin(c) ==
    /\ call[c].pc = "unpin"
    /\ \E s \in {[cache EXCEPT !.pins[call[c].ch] = @ - 1]} : cache' = EvictToBudget(s)
    /\ kept' \in {kept} \union
          {k \in {kept + 1} : call[c].task = "evaluate" /\ KeptBytes * k <= Ceiling}
    /\ call' = [call EXCEPT ![c] = Idle]
    /\ UNCHANGED <<ledger, pending, world>>

\* Mutant of NobodyWaits: a member is let in past the queue.
OvertakesTheQueue == TRUE
NobodyWaits == queue = <<>>

\* A member of a session set, which asks again later if it does not fit.
TryAdmit(c) ==
    /\ call[c].pc = "idle"
    /\ NobodyWaits
    /\ \E r \in {Room} :
          /\ Dropped(r)
          /\ IF Fits(r) THEN Admitted(c, "member") ELSE UNCHANGED <<evalReserved, queue, call>>
    /\ UNCHANGED <<inFlight, pending, world>>

---------------------------------------------------------------------------
(* data.parquet is written anew.                                           *)

InvalidateSession ==
    cache' = DropUnborrowed(Without(cache, Channels))

\* import_file rewrites the file, then invalidates, unless the catalog fails
\* first and the error is returned.
Import ==
    /\ fileOp \in {"none", "failed"} /\ file < MaxVersion
    /\ file' = file + 1 /\ fileOp' = "import"
    /\ UNCHANGED <<cache, ledger, pending, kept, sample, call>>
ImportDone ==
    /\ fileOp = "import"
    /\ \/ InvalidateSession /\ fileOp' = "none"
       \/ UNCHANGED cache /\ fileOp' = "failed"
    /\ UNCHANGED <<ledger, pending, kept, sample, file, call>>

\* reimport_sessions invalidates, then rewrites the file or fails.
Reimport ==
    /\ fileOp \in {"none", "failed"} /\ file < MaxVersion
    /\ InvalidateSession /\ fileOp' = "reimport"
    /\ UNCHANGED <<ledger, pending, kept, sample, file, call>>
ReimportDone ==
    /\ fileOp = "reimport"
    /\ file' \in {file, file + 1} /\ fileOp' = "none"
    /\ UNCHANGED <<cache, ledger, pending, kept, sample, call>>

\* The commit is read again: other programs took or gave back memory.
Probe ==
    /\ sample' \in Samples
    /\ UNCHANGED <<cache, ledger, pending, kept, file, fileOp, call>>

Reading(c) ==
    \/ Hit(c) \/ Lead(c) \/ Reserve(c) \/ NotReserved(c) \/ ClaimT(c) \/ ClaimRecorded(c)
    \/ Borrow(c) \/ ReadFile(c) \/ ReadFails(c) \/ Insert(c) \/ GiveBack(c) \/ Unclaim(c)
Evaluating(c) ==
    Arrive(c) \/ TryAgain(c) \/ Lookup(c) \/ EndRun(c) \/ Unpin(c)

Next ==
    \/ \E c \in Callers :
          \/ \E x \in Channels : Read(c, x) \/ PinInput(c, x)
          \/ TryAdmit(c)
          \/ Reading(c) \/ Evaluating(c)
    \/ Import \/ ImportDone \/ Reimport \/ ReimportDone
    \/ Probe

Spec == Init /\ [][Next]_vars

---------------------------------------------------------------------------
Leading == {"reserve", "claim t", "claim recorded", "borrow", "read", "insert"}
Reserved == {"claim t", "claim recorded", "borrow", "read", "insert", "give back"}
Running(c) == call[c].pc = "running" \/ call[c].task = "lookup"
Pinning(c, x) ==
    /\ call[c].ch = x
    /\ \/ call[c].task \in {"prefetch", "lookup"}
       \/ call[c].pc \in {"admit", "queued", "unpin"}
       \/ call[c].pc = "running" /\ call[c].task # "member"

(* The ledger's counters are exactly what the callers hold, on every path  *)
(* out of a decode and of an evaluation; the queue holds the tickets of    *)
(* those who wait, each once, and order names what is resident.            *)
LedgerExact ==
    /\ Range(queue) = {c \in Callers : call[c].pc = "queued"} /\ IsInjective(queue)
    /\ Range(cache.order) = Resident(cache) /\ IsInjective(cache.order)
    /\ inFlight = DecodeBytes * Cardinality({c \in Callers : call[c].pc \in Reserved})
    /\ evalReserved = EvalBytes * Cardinality({c \in Callers : Running(c)})
    /\ \A x \in Channels : cache.pins[x] = Cardinality({c \in Callers : Pinning(c, x)})

(* What has been granted to decodes and evaluations never exceeds the      *)
(* ceiling, whichever of the two checks grants it.                         *)
GrantsWithinCeiling == inFlight + evalReserved <= Ceiling

(* A channel is decoded by one caller at a time, and not while it is       *)
(* resident: however many ask at once, one decodes.                        *)
OneDecodePerChannel ==
    \A c \in Callers : call[c].pc \in Leading =>
        /\ call[c].ch \notin Resident(cache)
        /\ \A d \in Callers \ {c} : call[d].pc \in Leading => call[d].ch # call[c].ch

(* What is resident exceeds the budget only by what is pinned.             *)
OverBudgetOnlyByPins ==
    Bytes(cache) > Ceiling => \A x \in Resident(cache) : cache.pins[x] > 0

(* An axis goes only when no channel that stays resident reads through it  *)
(* and no decode does.                                                     *)
BorrowedAxisStays ==
    [][\A a \in AxisKeys : cache.axes[a] # 0 /\ cache'.axes[a] = 0 =>
          /\ \A x \in Resident(cache') : a \notin AxesOf(x)
          /\ \A c \in Callers : a \notin call[c].held]_vars

(* A pinned input goes only with the file it was decoded from.             *)
PinnedStays ==
    [][\A x \in Resident(cache) \ Resident(cache') : cache.pins[x] > 0 /\ cache'.pins[x] > 0
          => fileOp # fileOp']_vars

(* First come, first served: while one waits, only the first is admitted.  *)
FirstComeFirstServed ==
    [][evalReserved' > evalReserved /\ queue # <<>> => queue' = Tail(queue)]_vars

(* session_cache.rs: a reimport "drops every channel of that session"; a   *)
(* changed file "makes every decode of it stale at once".  So once the     *)
(* command that changed the file has succeeded, nothing of the old file is *)
(* resident.                                                               *)
NothingStale ==
    fileOp = "none" => \A x \in Resident(cache) : cache.entries[x] = file
=============================================================================
