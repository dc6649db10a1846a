----------------------------- MODULE LinkProofs -----------------------------
(***************************************************************************)
(* The two parts of the link to a logger: LinkMachine, the machine that    *)
(* makes and keeps the WiFi link, for any retry limits, any backoff list,  *)
(* with or without a request cap; and LinkActor, the actor that keeps the  *)
(* Bluetooth link, for any number of calls and connections.                *)
(***************************************************************************)
EXTENDS LinkMachine, LinkActor, TLAPS

---------------------------------------------------------------------------
(* LinkMachine.  One inductive invariant, IInv, carries all its safety     *)
(* properties.  A property on its own is not inductive: NeverStranded      *)
(* needs the counters' types, the counters need to know that a machine in  *)
(* backoff has an attempt left, and HandoffOncePerSession needs the flag   *)
(* that stands for the count.                                              *)

(* What the provers need of the configuration: the limits are positive.    *)
LEMMA Limits ==
    /\ VerifyAttempts \in Nat /\ VerifyAttempts > 0
    /\ HeartbeatMisses \in Nat /\ HeartbeatMisses > 0
    /\ MaxPings \in Nat /\ MaxPings > 0
    /\ BackoffLen \in Nat /\ MaxRequests \in Nat
BY ConfigAssumption

(* The initial state of LinkMachine::new satisfies the invariant.          *)
LEMMA InitIInv == Init => IInv
<1>1. Init => FlagsTyped
  BY DEF Init, FlagsTyped
<1>2. QED
  BY <1>1, Limits DEF Init, IInv, TypeOK, States, Timers, NeverStranded,
     Pending, RequestHeldWhileTrying, ActiveOnlyWhenWanted, HandoffCounted,
     BackoffHasNext, RequestsInARowCapped

(* fail_attempt, from a state that is trying to link, lands in a state that *)
(* satisfies the invariant.                                                *)
LEMMA FailAttemptIInv ==
    ASSUME IInv, st \in {"requesting", "verifying"}, FailAttempt,
           fired' \subseteq Timers, pingsOut' \in 0 .. MaxPings,
           UNCHANGED <<wanted, handedOff, handoffs>>
    PROVE  IInv'
<1> USE Limits DEF FailAttempt, Release, IInv
<1>0. FlagsTyped'
  BY DEF TypeOK, FlagsTyped
<1>1. TypeOK'
  BY <1>0 DEF TypeOK, States, Timers
<1>2. NeverStranded'
  BY DEF NeverStranded, Pending
<1>3. (RequestHeldWhileTrying /\ ActiveOnlyWhenWanted /\ HandoffCounted)'
  BY DEF RequestHeldWhileTrying, ActiveOnlyWhenWanted, HandoffCounted
<1>4. (BackoffHasNext /\ RequestsInARowCapped)'
  BY DEF BackoffHasNext, MayRetry, RequestsInARowCapped
<1>5. QED
  BY <1>1, <1>2, <1>3, <1>4

(* request(a), for an attempt inside the budget, likewise.                 *)
LEMMA EnterRequestingIInv ==
    ASSUME IInv, NEW a \in 0 .. BackoffLen,
           MaxRequests > 0 => a < MaxRequests,
           EnterRequesting(a), wanted', wanted' \in BOOLEAN,
           fired' \subseteq Timers, pingsOut' \in 0 .. MaxPings,
           handedOff' \in BOOLEAN, handoffs' = IF handedOff' THEN 1 ELSE 0
    PROVE  IInv'
<1> USE Limits DEF EnterRequesting, IInv
<1>0. FlagsTyped'
  BY DEF FlagsTyped
<1>1. TypeOK'
  BY <1>0 DEF TypeOK, States, Timers
<1>2. NeverStranded'
  BY DEF NeverStranded, Pending
<1>3. (RequestHeldWhileTrying /\ ActiveOnlyWhenWanted /\ HandoffCounted)'
  BY DEF RequestHeldWhileTrying, ActiveOnlyWhenWanted, HandoffCounted
<1>4. (BackoffHasNext /\ RequestsInARowCapped)'
  BY DEF BackoffHasNext, RequestsInARowCapped
<1>5. QED
  BY <1>1, <1>2, <1>3, <1>4

(* Every input leaves the invariant true.                                  *)
LEMMA NextIInv == IInv /\ [Next]_vars => IInv'
<1> SUFFICES ASSUME IInv, [Next]_vars PROVE IInv'
  OBVIOUS
<1> USE Limits
<1>t. TypeOK
  BY DEF IInv
<1>1. CASE WifiModeEntered
  <2>1. EnterRequesting(0) /\ UNCHANGED <<fired, pingsOut>>
    BY <1>1 DEF WifiModeEntered
  <2>2. wanted' /\ wanted' \in BOOLEAN /\ handedOff' \in BOOLEAN
    BY <1>1 DEF WifiModeEntered
  <2>3. handoffs' = IF handedOff' THEN 1 ELSE 0
    BY <1>1 DEF WifiModeEntered
  <2>4. QED
    BY <2>1, <2>2, <2>3, <1>t, EnterRequestingIInv DEF TypeOK
<1>2. CASE WifiModeLeft
  <2>1. FlagsTyped'
    BY <1>t, <1>2 DEF TypeOK, FlagsTyped, WifiModeLeft, Leave, Release,
       StillWanted
  <2>2. QED
    BY <2>1, <1>2 DEF WifiModeLeft, Leave, Release, StillWanted, IInv, TypeOK,
       States, Timers, NeverStranded, Pending, RequestHeldWhileTrying,
       ActiveOnlyWhenWanted, HandoffCounted, BackoffHasNext,
       RequestsInARowCapped
<1>3. CASE UserRetry
  <2>1. /\ EnterRequesting(0) /\ wanted
        /\ UNCHANGED <<wanted, handedOff, fired, pingsOut, handoffs>>
    BY <1>3 DEF UserRetry
  <2>2. QED
    BY <2>1, <1>t, EnterRequestingIInv
       DEF TypeOK, FlagsTyped, IInv, HandoffCounted
<1>4. CASE OpSucceeded
  BY <1>4 DEF OpSucceeded, IInv, TypeOK, FlagsTyped, States, Timers,
     NeverStranded, Pending, RequestHeldWhileTrying, ActiveOnlyWhenWanted,
     HandoffCounted, BackoffHasNext, MayRetry, RequestsInARowCapped
<1>5. CASE Available
  BY <1>5 DEF Available, IInv, TypeOK, FlagsTyped, States, Timers,
     NeverStranded, Pending, RequestHeldWhileTrying, ActiveOnlyWhenWanted,
     HandoffCounted, BackoffHasNext, MayRetry, RequestsInARowCapped
<1>6. CASE NetworkGone
  <2>0. UNCHANGED <<wanted, handedOff, fired, pingsOut, handoffs>>
    BY <1>6 DEF NetworkGone
  <2>1. CASE st \in {"requesting", "verifying"} /\ FailAttempt
    BY <2>0, <2>1, <1>t, FailAttemptIInv DEF TypeOK
  <2>2. CASE st = "linked" /\ EnterRequesting(0)
    BY <2>0, <2>2, <1>t, EnterRequestingIInv
       DEF TypeOK, FlagsTyped, IInv, ActiveOnlyWhenWanted, HandoffCounted
  <2>3. QED
    BY <1>6, <2>1, <2>2 DEF NetworkGone
<1>7. CASE Expire
  BY <1>7 DEF Expire, machineVars, IInv, TypeOK, FlagsTyped, States, Timers,
     NeverStranded, Pending, RequestHeldWhileTrying, ActiveOnlyWhenWanted,
     HandoffCounted, BackoffHasNext, MayRetry, RequestsInARowCapped
<1>8. ASSUME NEW t \in Timers, DeliverTimer(t) PROVE IInv'
  <2>0. t \in fired /\ fired' = fired \ {t}
    BY <1>8 DEF DeliverTimer
  <2>1. CASE RequestTimedOut
    BY <2>0, <2>1, <1>t, FailAttemptIInv DEF RequestTimedOut, TypeOK
  <2>2. CASE BackoffOver
    BY <2>0, <2>2, <1>t, EnterRequestingIInv
       DEF BackoffOver, NextAttempt, TypeOK, FlagsTyped, IInv, ActiveOnlyWhenWanted,
           HandoffCounted, BackoffHasNext, MayRetry
  <2>3. CASE t \in {"PingRetry", "Heartbeat"} /\ TimerMatters(t) /\ Ping
    BY <2>0, <2>3 DEF Ping, TimerMatters, machineVars, IInv,
       TypeOK, FlagsTyped, NeverStranded, Pending, RequestHeldWhileTrying,
       ActiveOnlyWhenWanted, HandoffCounted, BackoffHasNext, MayRetry,
       RequestsInARowCapped
  <2>4. CASE ~ TimerMatters(t) /\ IgnoreTimer
    BY <2>0, <2>4 DEF IgnoreTimer, TimerMatters, machineVars,
       IInv, TypeOK, FlagsTyped, NeverStranded, Pending, RequestHeldWhileTrying,
       ActiveOnlyWhenWanted, HandoffCounted, BackoffHasNext, MayRetry,
       RequestsInARowCapped
  <2>5. QED
    BY <1>8, <2>1, <2>2, <2>3, <2>4 DEF DeliverTimer
<1>9. CASE AnswerPing
  <2>0. pingsOut' \in 0 .. MaxPings /\ UNCHANGED fired
    BY <1>9, <1>t DEF AnswerPing, TypeOK
  <2>1. CASE PingOk
    BY <2>0, <2>1 DEF PingOk, HandoffDue, IInv, TypeOK, FlagsTyped, States, Timers,
       NeverStranded, Pending, RequestHeldWhileTrying, ActiveOnlyWhenWanted,
       HandoffCounted, BackoffHasNext, RequestsInARowCapped
  <2>2. CASE PingRefused
    <3>1. FlagsTyped'
      BY <2>2, <1>t DEF TypeOK, FlagsTyped, PingRefused, Release
    <3>2. QED
      BY <3>1, <2>0, <2>2 DEF PingRefused, Release, IInv, TypeOK, States,
         Timers, NeverStranded, Pending, RequestHeldWhileTrying,
         ActiveOnlyWhenWanted, HandoffCounted, BackoffHasNext,
         RequestsInARowCapped
  <2>3. CASE PingFailed
    <3>0. UNCHANGED <<wanted, handedOff, handoffs>>
      BY <2>3 DEF PingFailed
    <3>1. CASE /\ st = "verifying" /\ ~ LastTry(pings, VerifyAttempts)
               /\ pings' = pings + 1 /\ timer' = RetryTimer
               /\ UNCHANGED <<st, attempt, misses, requested>>
      BY <2>0, <3>0, <3>1 DEF LastTry, RetryTimer, IInv, TypeOK, FlagsTyped, States, Timers,
         NeverStranded, Pending, RequestHeldWhileTrying, ActiveOnlyWhenWanted,
         HandoffCounted, BackoffHasNext, RequestsInARowCapped
    <3>2. CASE st = "verifying" /\ FailAttempt
      BY <2>0, <3>0, <3>2, <1>t, FailAttemptIInv DEF TypeOK
    <3>3. CASE /\ st = "linked" /\ ~ LastTry(misses, HeartbeatMisses)
               /\ misses' = misses + 1 /\ timer' = RetryTimer
               /\ UNCHANGED <<st, attempt, pings, requested>>
      BY <2>0, <3>0, <3>3 DEF LastTry, RetryTimer, IInv, TypeOK, FlagsTyped, States, Timers,
         NeverStranded, Pending, RequestHeldWhileTrying, ActiveOnlyWhenWanted,
         HandoffCounted, BackoffHasNext, RequestsInARowCapped
    <3>4. CASE st = "linked" /\ EnterRequesting(0)
      BY <2>0, <3>0, <3>4, <1>t, EnterRequestingIInv
         DEF TypeOK, FlagsTyped, IInv, ActiveOnlyWhenWanted, HandoffCounted
    <3>5. QED
      BY <2>3, <3>1, <3>2, <3>3, <3>4 DEF PingFailed
  <2>4. CASE PingIgnored
    BY <2>0, <2>4 DEF PingIgnored, machineVars, IInv, TypeOK, FlagsTyped,
       NeverStranded, Pending, RequestHeldWhileTrying, ActiveOnlyWhenWanted,
       HandoffCounted, BackoffHasNext, MayRetry, RequestsInARowCapped
  <2>5. QED
    BY <1>9, <2>1, <2>2, <2>3, <2>4 DEF AnswerPing
<1>10. CASE UNCHANGED vars
  BY <1>10 DEF vars, machineVars, IInv, TypeOK, FlagsTyped, NeverStranded,
     Pending, RequestHeldWhileTrying, ActiveOnlyWhenWanted, HandoffCounted,
     BackoffHasNext, MayRetry, RequestsInARowCapped
<1>11. QED
  BY <1>1, <1>2, <1>3, <1>4, <1>5, <1>6, <1>7, <1>8, <1>9, <1>10 DEF Next

(* The invariant holds of every reachable state of the link machine.       *)
THEOREM LinkInvariant == Spec => []IInv
BY InitIInv, NextIInv, PTL DEF Spec

(* Every counter of LinkState stays inside its budget.                     *)
THEOREM LinkTypeCorrect == Spec => []TypeOK
<1>1. IInv => TypeOK
  BY DEF IInv
<1>2. QED
  BY <1>1, LinkInvariant, PTL

(* The link is never stranded: whatever it waits for is still to come.     *)
THEOREM LinkNeverStranded == Spec => []NeverStranded
<1>1. IInv => NeverStranded
  BY DEF IInv
<1>2. QED
  BY <1>1, LinkInvariant, PTL

(* The network request is held exactly while the machine tries or links.   *)
THEOREM LinkRequestHeld == Spec => []RequestHeldWhileTrying
<1>1. IInv => RequestHeldWhileTrying
  BY DEF IInv
<1>2. QED
  BY <1>1, LinkInvariant, PTL

(* Trying, linked or given up means wanted: UserRetry revives no link that *)
(* the logger has left.                                                    *)
THEOREM LinkActiveWhenWanted == Spec => []ActiveOnlyWhenWanted
<1>1. IInv => ActiveOnlyWhenWanted
  BY DEF IInv
<1>2. QED
  BY <1>1, LinkInvariant, PTL

(* /handoff is sent once per WiFi session, before the link counts as made. *)
THEOREM LinkHandoffOnce == Spec => []HandoffOncePerSession
<1>1. IInv => HandoffOncePerSession
  BY DEF IInv, HandoffCounted, HandoffOncePerSession
<1>2. QED
  BY <1>1, LinkInvariant, PTL

(* Attempts in a row stop at the platform's cap, whatever the backoff list. *)
THEOREM LinkRequestsCapped == Spec => []RequestsInARowCapped
<1>1. IInv => RequestsInARowCapped
  BY DEF IInv
<1>2. QED
  BY <1>1, LinkInvariant, PTL

---------------------------------------------------------------------------
(* LinkActor.  ActorTypeOK is inductive as it stands.  OthersLinkStays is  *)
(* a property of single steps and needs nothing else: the steps that       *)
(* change the map are the actor's two ways to give a link up and its       *)
(* disconnect, which go through Retired; its connect, which puts a link    *)
(* in; and the borrowers', which move on.                                  *)

(* What one step may not do. *)
Kept == entry # None /\ entry # actor.link /\ entry \in up /\ borrower' = borrower
            => entry' # None

(* What the sets of the model hold. *)
LEMMA IntentsAre ==
    /\ Stop \in Intents /\ Kick \in Intents /\ Lend \in Intents /\ Return \in Intents
    /\ \A r \in RecordCalls, b \in BOOLEAN : Record(r, b) \in Intents
    /\ \A r \in ReadyCalls : WaitReady(r) \in Intents
    /\ \A i \in Intents : i.kind = "Record" => i.req \in RecordCalls /\ i.start \in BOOLEAN
    /\ \A i \in Intents : i.kind = "WaitReady" => i.req \in ReadyCalls
<1>1. Stop \in Intents /\ Kick \in Intents /\ Lend \in Intents /\ Return \in Intents
  BY DEF Intents
<1>2. ASSUME NEW r \in RecordCalls, NEW b \in BOOLEAN PROVE Record(r, b) \in Intents
  <2>1. Record(r, b) \in {Record(q, start) : q \in RecordCalls, start \in BOOLEAN}
    OBVIOUS
  <2>2. QED
    BY <2>1 DEF Intents
<1>3. ASSUME NEW r \in ReadyCalls PROVE WaitReady(r) \in Intents
  <2>1. WaitReady(r) \in {WaitReady(q) : q \in ReadyCalls}
    OBVIOUS
  <2>2. QED
    BY <2>1 DEF Intents
<1>4. \A i \in Intents : i.kind = "Record" => i.req \in RecordCalls /\ i.start \in BOOLEAN
  BY DEF Intents, Stop, Kick, Lend, Return, Record, WaitReady
<1>5. \A i \in Intents : i.kind = "WaitReady" => i.req \in ReadyCalls
  BY DEF Intents, Stop, Kick, Lend, Return, Record, WaitReady
<1>6. QED
  BY <1>1, <1>2, <1>3, <1>4, <1>5

(* A connection not held yet is one: None is no connection.                *)
LEMMA NewLinkIsOne == ~ LinkIds \subseteq Held => NewLink \in LinkIds /\ NewLink # None
<1> SUFFICES ASSUME ~ LinkIds \subseteq Held PROVE NewLink \in LinkIds /\ NewLink # None
  OBVIOUS
<1>1. \E l \in LinkIds : l \notin Held
  OBVIOUS
<1>2. NewLink \in LinkIds
  BY <1>1 DEF NewLink
<1>3. QED
  BY <1>2, LinkIdsAssumption

(* Each way a step changes a variable keeps it in its set. *)
LEMMA SendOk == \A i \in Intents : ActorTypeOK /\ Send(i) => inbox' \in Seq(Intents)
BY DEF ActorTypeOK, Send

LEMMA TakesOk ==
    \A k, pc : ActorTypeOK /\ Takes(k, pc)
        => inbox' \in Seq(Intents) /\ Head(inbox) \in Intents /\ Head(inbox).kind = k
BY DEF ActorTypeOK, Takes

LEMMA AnswerOk ==
    \A rs, how : ActorTypeOK /\ how \in Hows /\ Answer(rs, how) => answer' \in [Requests -> Hows]
BY DEF ActorTypeOK, Answer

LEMMA RetiredOk == ActorTypeOK /\ entry' = Retired => entry' \in LinkIds \cup {None}
BY DEF ActorTypeOK, Retired

LEMMA SendRecordOk ==
    \A r : \A start \in BOOLEAN : ActorTypeOK /\ SendRecord(r, start)
        => answer' \in [Requests -> Hows] /\ logger' \in Loggers
BY AnswerOk DEF SendRecord, ActorTypeOK, Hows, Loggers

LEMMA NewActorOk == NewActor \in Actors
BY DEF NewActor, Actors

LEMMA GiveBackOk ==
    ActorTypeOK /\ GiveBack(Return) => inbox' \in Seq(Intents) /\ borrower' \in Borrowers
BY SendOk, IntentsAre DEF GiveBack, Borrowers

(* retire leaves a map's entry that is not the actor's own (link.rs:142).  *)
LEMMA RetiredLeavesOthers == entry' = Retired => Kept
BY DEF Retired, Kept

(* The actor's steps, intents included.                                    *)
LEMMA ActorKeeps ==
    Receive \/ Try \/ Connected \/ ConnectFailed \/ Opened \/ Drain
    \/ Status \/ Lost \/ Returned \/ Unregister => Kept
<1> SUFFICES ASSUME Receive \/ Try \/ Connected \/ ConnectFailed \/ Opened \/ Drain
                    \/ Status \/ Lost \/ Returned \/ Unregister
             PROVE  Kept
  OBVIOUS
<1>1. CASE Stopped
  <2>1. entry' = Retired \/ entry' = entry
    BY <1>1 DEF Stopped
  <2>2. QED
    BY <2>1, RetiredLeavesOthers DEF Kept
<1>2. CASE Receive /\ ~Stopped
  <2>1. entry' = entry
    BY <1>2 DEF Receive, KeepRecord, KeepWaiter, RecordNow, ReadyNow, Lent, Ignored
  <2>2. QED
    BY <2>1 DEF Kept
<1>3. CASE Connected
  BY <1>3, NewLinkIsOne DEF Connected, Kept
<1>4. CASE Lost \/ Returned
  BY <1>4, RetiredLeavesOthers DEF Lost, Returned
<1>5. CASE Try \/ ConnectFailed \/ Opened \/ Drain \/ Status \/ Unregister
  <2>1. entry' = entry
    BY <1>5 DEF Try, ConnectFailed, Opened, Drain, Status, Unregister
  <2>2. QED
    BY <2>1 DEF Kept
<1>6. QED
  BY <1>1, <1>2, <1>3, <1>4, <1>5

(* The borrowers' steps: a hand-off takes the entry off and moves on to    *)
(* "handed"; a push that succeeds leaves a living link.                    *)
LEMMA BorrowersKeep ==
    ActorTypeOK /\ (Borrow \/ BorrowFailed \/ HandOff \/ SessionEnds \/ Pushed) => Kept
<1> SUFFICES ASSUME ActorTypeOK,
                    Borrow \/ BorrowFailed \/ HandOff \/ SessionEnds \/ Pushed
             PROVE  Kept
  OBVIOUS
<1>1. CASE Borrow \/ BorrowFailed \/ SessionEnds
  <2>1. entry' = entry
    BY <1>1 DEF Borrow, BorrowFailed, SessionEnds
  <2>2. QED
    BY <2>1 DEF Kept
<1>2. CASE HandOff
  <2>1. CASE borrower' = borrower
    <3>1. borrower.step = "session" /\ borrower' = [borrower EXCEPT !.step = "handed"]
      BY <1>2 DEF HandOff
    <3>2. borrower' = [step |-> "handed", link |-> borrower.link]
      BY <3>1 DEF ActorTypeOK, Borrowers
    <3>3. borrower.step = "handed"
      BY <3>2, <2>1
    <3>4. QED
      BY <3>1, <3>3
  <2>2. QED
    BY <2>1 DEF Kept
<1>3. CASE Pushed
  BY <1>3, NewLinkIsOne DEF Pushed, Kept
<1>4. QED
  BY <1>1, <1>2, <1>3

(* A step of the commands and of the surroundings stays inside the sets.   *)
LEMMA OutsideTyped ==
    ActorTypeOK /\ ((\E r \in RecordCalls : AskRecord(r)) \/ (\E r \in ReadyCalls : AskReady(r))
               \/ Pair \/ Forget \/ KickActor \/ RadioBack \/ Drop \/ Closed) => ActorTypeOK'
<1> SUFFICES ASSUME ActorTypeOK,
                    (\E r \in RecordCalls : AskRecord(r)) \/ (\E r \in ReadyCalls : AskReady(r))
                    \/ Pair \/ Forget \/ KickActor \/ RadioBack \/ Drop \/ Closed
             PROVE  ActorTypeOK'
  OBVIOUS
<1>1. ASSUME NEW r \in RecordCalls, AskRecord(r) PROVE ActorTypeOK'
  <2>1. inbox' \in Seq(Intents)
    BY <1>1, SendOk, IntentsAre DEF AskRecord, Requests
  <2>2. answer' \in [Requests -> Hows]
    BY <1>1, AnswerOk DEF AskRecord, Hows
  <2>3. QED
    BY <1>1, <2>1, <2>2 DEF AskRecord, ActorTypeOK
<1>2. ASSUME NEW r \in ReadyCalls, AskReady(r) PROVE ActorTypeOK'
  <2>1. inbox' \in Seq(Intents)
    BY <1>2, IntentsAre DEF AskReady, ActorTypeOK
  <2>2. answer' \in [Requests -> Hows]
    BY <1>2, AnswerOk DEF AskReady, Hows
  <2>3. registered' \in BOOLEAN /\ actor' \in Actors
    BY <1>2, NewActorOk DEF AskReady, EnsureActor, ActorTypeOK
  <2>4. QED
    BY <1>2, <2>1, <2>2, <2>3 DEF AskReady, ActorTypeOK
<1>3. CASE Pair
  BY <1>3, NewActorOk DEF Pair, EnsureActor, ActorTypeOK
<1>4. CASE Forget
  <2>1. inbox' \in Seq(Intents)
    BY <1>4, SendOk, IntentsAre DEF Forget
  <2>2. spent' \in Spending
    BY <1>4, BoundsAssumption DEF Forget, ActorTypeOK, Spending
  <2>3. QED
    BY <1>4, <2>1, <2>2 DEF Forget, ActorTypeOK
<1>5. CASE KickActor
  <2>1. inbox' \in Seq(Intents)
    BY <1>5, SendOk, IntentsAre DEF KickActor
  <2>2. QED
    BY <1>5, <2>1 DEF KickActor, ActorTypeOK
<1>6. CASE RadioBack
  BY <1>6 DEF RadioBack, ActorTypeOK, Loggers
<1>7. CASE Drop
  <2>1. spent' \in Spending
    BY <1>7, BoundsAssumption DEF Drop, ActorTypeOK, Spending
  <2>2. QED
    BY <1>7, <2>1 DEF Drop, ActorTypeOK
<1>8. CASE Closed
  BY <1>8 DEF Closed, ActorTypeOK
<1>9. QED
  BY <1>1, <1>2, <1>3, <1>4, <1>5, <1>6, <1>7, <1>8

(* So does taking up an intent. *)
LEMMA ReceiveTyped == ActorTypeOK /\ Receive => ActorTypeOK'
<1> SUFFICES ASSUME ActorTypeOK, Receive PROVE ActorTypeOK'
  OBVIOUS
<1>1. ASSUME NEW pc, KeepRecord(pc) PROVE ActorTypeOK'
  <2>1. inbox' \in Seq(Intents) /\ Head(inbox).req \in RecordCalls /\ Head(inbox).start \in BOOLEAN
    BY <1>1, TakesOk, IntentsAre DEF KeepRecord
  <2>2. [req |-> Head(inbox).req, start |-> Head(inbox).start] \in Keeping
    BY <2>1 DEF Keeping
  <2>3. records' \in Seq(Keeping)
    BY <1>1, <2>2 DEF KeepRecord, ActorTypeOK
  <2>4. asked' \in BOOLEAN
    BY <1>1 DEF KeepRecord
  <2>5. QED
    BY <1>1, <2>1, <2>3, <2>4 DEF KeepRecord, ActorTypeOK
<1>2. ASSUME NEW pc, KeepWaiter(pc) PROVE ActorTypeOK'
  <2>1. inbox' \in Seq(Intents) /\ Head(inbox).req \in ReadyCalls
    BY <1>2, TakesOk, IntentsAre DEF KeepWaiter
  <2>2. QED
    BY <1>2, <2>1 DEF KeepWaiter, ActorTypeOK
<1>3. CASE RecordNow
  <2>1. inbox' \in Seq(Intents) /\ Head(inbox).start \in BOOLEAN
    BY <1>3, TakesOk, IntentsAre DEF RecordNow
  <2>2. answer' \in [Requests -> Hows] /\ logger' \in Loggers
    BY <1>3, <2>1, SendRecordOk DEF RecordNow
  <2>3. QED
    BY <1>3, <2>1, <2>2 DEF RecordNow, ActorTypeOK
<1>4. CASE ReadyNow
  <2>1. inbox' \in Seq(Intents)
    BY <1>4, TakesOk DEF ReadyNow
  <2>2. answer' \in [Requests -> Hows]
    BY <1>4, AnswerOk DEF ReadyNow, Hows
  <2>3. QED
    BY <1>4, <2>1, <2>2 DEF ReadyNow, ActorTypeOK
<1>5. CASE Lent
  <2>1. inbox' \in Seq(Intents)
    BY <1>5, TakesOk DEF Lent
  <2>2. actor' \in Actors
    BY <1>5 DEF Lent, Moved, ActorTypeOK, Actors
  <2>3. QED
    BY <1>5, <2>1, <2>2 DEF Lent, ActorTypeOK
<1>6. CASE Ignored
  <2>1. inbox' \in Seq(Intents)
    BY <1>6, TakesOk DEF Ignored
  <2>2. QED
    BY <1>6, <2>1 DEF Ignored, ActorTypeOK
<1>7. CASE Stopped
  <2>1. answer' \in [Requests -> Hows]
    BY <1>7, AnswerOk DEF Stopped, Hows
  <2>2. entry' \in LinkIds \cup {None} /\ up' \subseteq LinkIds
    BY <1>7, RetiredOk DEF Stopped, ActorTypeOK
  <2>3. actor' \in Actors
    BY <1>7, NewActorOk DEF Stopped, Actors
  <2>4. inbox' \in Seq(Intents) /\ records' \in Seq(Keeping)
    BY <1>7 DEF Stopped
  <2>5. QED
    BY <1>7, <2>1, <2>2, <2>3, <2>4 DEF Stopped, ActorTypeOK
<1>8. QED
  BY <1>1, <1>2, <1>3, <1>4, <1>5, <1>6, <1>7 DEF Receive

(* So do the actor's own steps. *)
LEMMA ActorTyped ==
    ActorTypeOK /\ (Try \/ Connected \/ ConnectFailed \/ Opened \/ Drain
               \/ Status \/ Lost \/ Returned \/ Unregister) => ActorTypeOK'
<1> SUFFICES ASSUME ActorTypeOK, Try \/ Connected \/ ConnectFailed \/ Opened \/ Drain
                            \/ Status \/ Lost \/ Returned \/ Unregister
             PROVE  ActorTypeOK'
  OBVIOUS
<1>1. CASE Try
  <2>1. inbox' \in Seq(Intents)
    BY <1>1, TakesOk DEF Try, ActorTypeOK
  <2>2. actor' \in Actors
    BY <1>1 DEF Try, ActorTypeOK, Actors
  <2>3. QED
    BY <1>1, <2>1, <2>2 DEF Try, ActorTypeOK
<1>2. CASE Connected
  <2>1. actor' \in Actors
    BY <1>2, NewLinkIsOne DEF Connected, ActorTypeOK, Actors
  <2>2. QED
    BY <1>2, <2>1, NewLinkIsOne DEF Connected, ActorTypeOK
<1>3. CASE ConnectFailed
  <2>1. actor' \in Actors
    BY <1>3 DEF ConnectFailed, Moved, ActorTypeOK, Actors
  <2>2. answer' \in [Requests -> Hows]
    BY <1>3, AnswerOk DEF ConnectFailed, Hows
  <2>3. QED
    BY <1>3, <2>1, <2>2 DEF ConnectFailed, ActorTypeOK
<1>4. CASE Opened
  <2>1. actor' \in Actors
    BY <1>4 DEF Opened, ActorTypeOK, Actors
  <2>2. answer' \in [Requests -> Hows] /\ waiters' \subseteq ReadyCalls
    BY <1>4, AnswerOk DEF Opened, Hows, ActorTypeOK
  <2>3. QED
    BY <1>4, <2>1, <2>2 DEF Opened, ActorTypeOK
<1>5. CASE Drain
  <2>1. CASE records = <<>>
    <3>1. actor' \in Actors
      BY <1>5, <2>1 DEF Drain, Moved, ActorTypeOK, Actors
    <3>2. QED
      BY <1>5, <2>1, <3>1 DEF Drain, ActorTypeOK
  <2>2. CASE records # <<>>
    <3>0. Head(records) \in Keeping /\ Tail(records) \in Seq(Keeping)
      BY <2>2 DEF ActorTypeOK
    <3>1. Head(records).start \in BOOLEAN /\ Tail(records) \in Seq(Keeping)
      BY <3>0 DEF Keeping
    <3>2. answer' \in [Requests -> Hows] /\ logger' \in Loggers
      <4>1. CASE actor.seen = (IF Head(records).start THEN "logging" ELSE "stopped")
        BY <1>5, <2>2, <4>1, AnswerOk DEF Drain, Hows, ActorTypeOK
      <4>2. CASE actor.seen # (IF Head(records).start THEN "logging" ELSE "stopped")
        BY <1>5, <2>2, <4>2, <3>1, SendRecordOk DEF Drain
      <4>3. QED
        BY <4>1, <4>2
    <3>3. records' = Tail(records) /\ UNCHANGED actor
      BY <1>5, <2>2 DEF Drain
    <3>4. QED
      BY <1>5, <3>1, <3>2, <3>3 DEF Drain, ActorTypeOK
  <2>3. QED
    BY <2>1, <2>2
<1>6. CASE Status
  <2>1. actor' \in Actors
    BY <1>6 DEF Status, ActorTypeOK, Actors
  <2>2. QED
    BY <1>6, <2>1 DEF Status, ActorTypeOK
<1>7. CASE Lost \/ Returned
  <2>1. actor' \in Actors
    BY <1>7 DEF Lost, Returned, ActorTypeOK, Actors
  <2>2. inbox' \in Seq(Intents) /\ entry' \in LinkIds \cup {None}
    BY <1>7, TakesOk, RetiredOk DEF Lost, Returned, ActorTypeOK
  <2>3. QED
    BY <1>7, <2>1, <2>2 DEF Lost, Returned, ActorTypeOK
<1>8. CASE Unregister
  BY <1>8 DEF Unregister, ActorTypeOK
<1>9. QED
  BY <1>1, <1>2, <1>3, <1>4, <1>5, <1>6, <1>7, <1>8

(* So do the borrowers'. *)
LEMMA BorrowersTyped ==
    ActorTypeOK /\ (Borrow \/ BorrowFailed \/ HandOff \/ SessionEnds \/ Pushed) => ActorTypeOK'
<1> SUFFICES ASSUME ActorTypeOK, Borrow \/ BorrowFailed \/ HandOff \/ SessionEnds \/ Pushed
             PROVE  ActorTypeOK'
  OBVIOUS
<1>1. CASE Borrow
  <2>1. inbox' \in Seq(Intents)
    BY <1>1, SendOk, IntentsAre DEF Borrow
  <2>2. borrower' \in Borrowers
    BY <1>1 DEF Borrow, ActorTypeOK, Borrowers
  <2>3. spent' \in Spending
    <3>1. /\ spent \in Spending /\ spent.loans < MaxLoans /\ MaxLoans \in Nat
          /\ spent' = [spent EXCEPT !.loans = @ + 1]
      BY <1>1, BoundsAssumption DEF Borrow, ActorTypeOK
    <3>2. QED
      BY <3>1, BoundsAssumption DEF Spending
  <2>4. QED
    BY <1>1, <2>1, <2>2, <2>3 DEF Borrow, ActorTypeOK
<1>2. CASE BorrowFailed
  BY <1>2, GiveBackOk DEF BorrowFailed, ActorTypeOK
<1>3. CASE HandOff
  <2>1. borrower' \in Borrowers /\ logger' \in Loggers
    BY <1>3 DEF HandOff, ActorTypeOK, Borrowers, Loggers
  <2>2. QED
    BY <1>3, <2>1 DEF HandOff, ActorTypeOK
<1>4. CASE SessionEnds
  <2>1. logger' \in Loggers
    <3>1. logger \in Loggers /\ asked \in BOOLEAN
      BY DEF ActorTypeOK
    <3>2. \/ logger' = logger
          \/ \E record \in {FALSE, asked} :
                logger' = [radio |-> TRUE, logging |-> logger.logging \/ record]
      BY <1>4 DEF SessionEnds
    <3>3. ASSUME NEW record \in {FALSE, asked},
                 logger' = [radio |-> TRUE, logging |-> logger.logging \/ record]
          PROVE  logger' \in Loggers
      <4> DEFINE logging == logger.logging \/ record
      <4>1. logging \in BOOLEAN
        OBVIOUS
      <4>2. logger' = [radio |-> TRUE, logging |-> logging]
        BY <3>3
      <4> HIDE DEF logging
      <4>3. QED
        BY <4>1, <4>2 DEF Loggers
    <3>4. QED
      BY <3>1, <3>2, <3>3
  <2>2. QED
    BY <1>4, <2>1, GiveBackOk DEF SessionEnds, ActorTypeOK
<1>5. CASE Pushed
  <2>1. logger' \in Loggers
    BY <1>5 DEF Pushed, ActorTypeOK, Loggers
  <2>2. QED
    BY <1>5, <2>1, GiveBackOk, NewLinkIsOne DEF Pushed, ActorTypeOK
<1>6. QED
  BY <1>1, <1>2, <1>3, <1>4, <1>5

(* TypeOK: whatever is kept for later is of the kind its place expects,    *)
(* and an intent that is taken up has what its kind carries.               *)
THEOREM TypeCorrect == ActorSpec => []ActorTypeOK
<1>1. ActorInit => ActorTypeOK
  <2> SUFFICES ASSUME ActorInit PROVE ActorTypeOK
    OBVIOUS
  <2>1. inbox \in Seq(Intents) /\ records \in Seq(Keeping)
    BY DEF ActorInit
  <2>2. logger \in Loggers /\ borrower \in Borrowers
    BY DEF ActorInit, Loggers, Borrowers
  <2>3. spent \in Spending
    BY BoundsAssumption DEF ActorInit, Spending
  <2>4. answer \in [Requests -> Hows]
    BY DEF ActorInit, Hows
  <2>5. QED
    BY <2>1, <2>2, <2>3, <2>4, NewActorOk DEF ActorInit, ActorTypeOK
<1>2. ActorTypeOK /\ [ActorNext]_actorVars => ActorTypeOK'
  <2>1. ActorTypeOK /\ UNCHANGED actorVars => ActorTypeOK'
    BY DEF actorVars, ActorTypeOK
  <2>2. QED
    BY <2>1, OutsideTyped, ReceiveTyped, ActorTyped, BorrowersTyped DEF ActorNext
<1>3. QED
  BY <1>1, <1>2, PTL DEF ActorSpec

(* OthersLinkStays: a link another borrower put into the map stays there   *)
(* until somebody who uses it gives it up; retire (link.rs:142) compares   *)
(* before it removes.                                                      *)
THEOREM OthersStay == ActorSpec => OthersLinkStays
<1>1. ActorTypeOK /\ [ActorNext]_actorVars => [Kept]_actorVars
  <2> SUFFICES ASSUME ActorTypeOK, ActorNext PROVE Kept
    OBVIOUS
  <2>1. CASE (\E r \in RecordCalls : AskRecord(r)) \/ (\E r \in ReadyCalls : AskReady(r))
    BY <2>1 DEF AskRecord, AskReady, Kept
  <2>2. CASE Pair \/ Forget \/ KickActor
    BY <2>2 DEF Pair, Forget, KickActor, Kept
  <2>3. CASE RadioBack \/ Drop \/ Closed
    BY <2>3 DEF RadioBack, Drop, Closed, Kept
  <2>4. QED
    BY <2>1, <2>2, <2>3, ActorKeeps, BorrowersKeep DEF ActorNext
<1>2. QED
  BY <1>1, TypeCorrect, PTL DEF ActorSpec, OthersLinkStays, Kept
=============================================================================
