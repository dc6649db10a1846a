------------------------------ MODULE LinkActor ------------------------------
(***************************************************************************)
(* The actor that keeps one paired logger connected over Bluetooth         *)
(* (tauri/src/link.rs), the commands that talk to it, and the borrowers    *)
(* that take the link over for a while: a WiFi session (download_files,    *)
(* commands/device.rs) and a firmware push (push_firmware,                 *)
(* commands/firmware.rs).  The actor and the borrowers share the map of    *)
(* connections, which each changes on its own; everything else reaches the *)
(* actor as intents in a queue it reads only where it waits.               *)
(***************************************************************************)
EXTENDS Naturals, Sequences, FiniteSets

CONSTANTS
    RecordCalls,    \* link_record calls
    ReadyCalls,     \* wait_ready calls
    LinkIds,        \* connections, told apart
    None,           \* no connection
    MaxLoans,       \* bound on WiFi sessions and pushes
    MaxDrops,       \* bound on links that break by themselves
    MaxForgets      \* bound on link_forget calls

ASSUME BoundsAssumption == {MaxLoans, MaxDrops, MaxForgets} \subseteq Nat
ASSUME LinkIdsAssumption == None \notin LinkIds

Requests == RecordCalls \cup ReadyCalls

VARIABLES
    registered,     \* Links.actors has this logger
    inbox,          \* the intents sent to its actor
    actor,          \* the actor: where it is, its link, and its view
    waiters,        \* wait_ready calls it keeps
    records,        \* Record intents it keeps for when the link is back
    entry,          \* the logger's connection in the connections map
    up,             \* the connections that are alive
    logger,         \* whether its Bluetooth is on, and whether it is logging
    answer,         \* request -> how it was answered
    borrower,       \* the WiFi session or push: its step, the link it took
    asked,          \* Links.record_requests has this logger
    spent           \* how often the bounded things happened

actorVars == <<registered, inbox, actor, waiters, records, entry, up, logger, answer,
          borrower, asked, spent>>

NewActor == [pc |-> "waiting", link |-> None, info |-> FALSE, seen |-> "unknown"]

ActorInit ==
    /\ registered = TRUE
    /\ inbox = <<>>
    /\ actor = NewActor
    /\ waiters = {}
    /\ records = <<>>
    /\ entry = None
    /\ up = {}
    /\ logger = [radio |-> TRUE, logging |-> FALSE]
    /\ answer = [r \in Requests |-> "unasked"]
    /\ borrower = [step |-> "idle", link |-> None]
    /\ asked = FALSE
    /\ spent = [loans |-> 0, drops |-> 0, forgets |-> 0]

-----------------------------------------------------------------------------
(* A connection nobody holds yet. *)
Held == {entry, actor.link, borrower.link} \cup up
NewLink == CHOOSE l \in LinkIds : l \notin Held

(* The app's commands. *)

Stop == [kind |-> "Stop"]
Kick == [kind |-> "Kick"]
Lend == [kind |-> "Lend"]
Record(r, start) == [kind |-> "Record", req |-> r, start |-> start]
WaitReady(r) == [kind |-> "WaitReady", req |-> r]
Return == [kind |-> "Return"]

(* Links::send reaches an actor that is still running. *)
Listening == registered /\ actor.pc # "ended"
Send(intent) == inbox' = IF Listening THEN Append(inbox, intent) ELSE inbox

Answer(rs, how) == answer' = [r \in Requests |-> IF r \in rs THEN how ELSE answer[r]]

(* ensure_actor: an actor is started unless the map has one, stopping or   *)
(* not.                                                                    *)
EnsureActor ==
    /\ registered' = TRUE
    /\ actor' = IF registered THEN actor ELSE NewActor

(* link_record: the caller waits for the actor's answer, or learns at once *)
(* that the logger is not paired.                                          *)
AskRecord(r) ==
    /\ answer[r] = "unasked"
    /\ \E start \in BOOLEAN : Send(Record(r, start))
    /\ Answer({r}, IF Listening THEN "waiting" ELSE "failed")
    /\ UNCHANGED <<registered, actor, waiters, records, entry, up, logger, borrower, asked, spent>>

(* wait_ready starts the actor if there is none.  (It also stops waiting   *)
(* after a while; left out, so that a call never answered shows.)          *)
AskReady(r) ==
    LET ending == registered /\ actor.pc = "ended" IN
    /\ answer[r] = "unasked"
    /\ EnsureActor
    /\ inbox' = IF ending THEN inbox ELSE Append(inbox, WaitReady(r))
    /\ Answer({r}, IF ending THEN "failed" ELSE "waiting")
    /\ UNCHANGED <<waiters, records, entry, up, logger, borrower, asked, spent>>

(* link_pair *)
Pair ==
    /\ ~registered
    /\ EnsureActor
    /\ UNCHANGED <<inbox, waiters, records, entry, up, logger, answer, borrower, asked, spent>>

(* link_forget *)
Forget ==
    /\ registered /\ spent.forgets < MaxForgets
    /\ Send(Stop)
    /\ spent' = [spent EXCEPT !.forgets = @ + 1]
    /\ UNCHANGED <<registered, actor, waiters, records, entry, up, logger, answer, borrower, asked>>

(* link_kick *)
KickActor ==
    /\ Listening /\ inbox = <<>>
    /\ Send(Kick)
    /\ UNCHANGED <<registered, actor, waiters, records, entry, up, logger, answer, borrower, asked, spent>>

-----------------------------------------------------------------------------
(* The actor, run_link.  An intent it does not take up is dropped.         *)

Takes(kind, pc) ==
    /\ actor.pc = pc /\ inbox # <<>> /\ Head(inbox).kind = kind
    /\ inbox' = Tail(inbox)

(* Mutant of Retired: whatever the map holds is removed. *)
RetiredAnyway == None

(* retire: the map's entry goes only if it still is the actor's link. *)
Retired == IF entry = actor.link THEN None ELSE entry

Moved(pc) == actor' = [actor EXCEPT !.pc = pc]

(* Waiting to try (or try again), with a timer or a Kick. *)
Try ==
    /\ actor.pc = "waiting"
    /\ \/ UNCHANGED inbox
       \/ Takes("Kick", "waiting")
    /\ actor' = IF entry # None
                  THEN [actor EXCEPT !.pc = "opening", !.link = entry]
                  ELSE [actor EXCEPT !.pc = "connecting"]
    /\ UNCHANGED <<registered, waiters, records, entry, up, logger, answer, borrower, asked, spent>>

(* connect_once succeeds: the new link replaces what the map holds by now. *)
Connected ==
    /\ actor.pc = "connecting" /\ logger.radio /\ ~ LinkIds \subseteq Held
    /\ actor' = [actor EXCEPT !.pc = "opening", !.link = NewLink, !.info = TRUE]
    /\ entry' = NewLink
    /\ up' = up \cup {NewLink}
    /\ UNCHANGED <<registered, inbox, waiters, records, logger, answer, borrower, asked, spent>>

(* It fails: who waits for the connection hears of it, Record goes on      *)
(* waiting.                                                                *)
ConnectFailed ==
    /\ actor.pc = "connecting"
    /\ Moved("waiting")
    /\ Answer(waiters, "failed")
    /\ waiters' = {}
    /\ UNCHANGED <<registered, inbox, records, entry, up, logger, borrower, asked, spent>>

(* The status is read, or stays what it last was; wait_ready is answered   *)
(* once connect has reported the connection's details.                     *)
Opened ==
    /\ actor.pc = "opening"
    /\ actor' = [actor EXCEPT !.pc = "draining",
                     !.seen = IF actor.link \notin up THEN @
                              ELSE IF logger.logging THEN "logging" ELSE "stopped"]
    /\ IF actor.info
         THEN Answer(waiters, "ok") /\ waiters' = {}
         ELSE UNCHANGED <<answer, waiters>>
    /\ UNCHANGED <<registered, inbox, records, entry, up, logger, borrower, asked, spent>>

(* send_record *)
SendRecord(r, start) ==
    IF actor.link \in up
      THEN Answer({r}, "ok") /\ logger' = [logger EXCEPT !.logging = start]
      ELSE Answer({r}, "failed") /\ UNCHANGED logger

(* Mutant of Drain: what was asked before the link was back is forgotten. *)
DrainForgets ==
    /\ actor.pc = "draining"
    /\ records' = <<>>
    /\ Moved("ready")
    /\ UNCHANGED <<registered, inbox, waiters, entry, up, logger, answer, borrower, asked, spent>>

(* The kept Record intents, in order; one the status says is done already  *)
(* is not sent.                                                            *)
Drain ==
    /\ actor.pc = "draining"
    /\ IF records = <<>>
         THEN Moved("ready") /\ UNCHANGED <<records, logger, answer>>
         ELSE LET r == Head(records) IN
              /\ IF actor.seen = (IF r.start THEN "logging" ELSE "stopped")
                   THEN Answer({r.req}, "ok") /\ UNCHANGED logger
                   ELSE SendRecord(r.req, r.start)
              /\ records' = Tail(records)
              /\ UNCHANGED actor
    /\ UNCHANGED <<registered, inbox, waiters, entry, up, borrower, asked, spent>>

(* A status arrives, once a second. *)
Status ==
    /\ actor.pc = "ready" /\ actor.link \in up
    /\ actor' = [actor EXCEPT !.seen = IF logger.logging THEN "logging" ELSE "stopped"]
    /\ UNCHANGED <<registered, inbox, waiters, records, entry, up, logger, answer, borrower, asked, spent>>

(* Mutant of Noticed: a keepalive puts the silence off each time. *)
NeverNoticed == FALSE

(* The radio says the link is gone, or no status came for status_silence,  *)
(* whatever else woke the loop meanwhile.                                  *)
Noticed == actor.link \notin up

(* lost *)
Lost ==
    /\ actor.pc = "ready" /\ Noticed
    /\ entry' = Retired
    /\ actor' = [actor EXCEPT !.pc = "waiting", !.link = None]
    /\ UNCHANGED <<registered, inbox, waiters, records, up, logger, answer, borrower, asked, spent>>

(* Record while the link is away is kept; while it is lent, a start also   *)
(* asks the WiFi session to end with Record.                               *)
KeepRecord(pc) ==
    /\ Takes("Record", pc)
    /\ records' = Append(records, [req |-> Head(inbox).req, start |-> Head(inbox).start])
    /\ asked' = (asked \/ (pc = "lent" /\ Head(inbox).start))
    /\ UNCHANGED <<registered, actor, waiters, entry, up, logger, answer, borrower, spent>>

KeepWaiter(pc) ==
    /\ Takes("WaitReady", pc)
    /\ waiters' = waiters \cup {Head(inbox).req}
    /\ UNCHANGED <<registered, actor, records, entry, up, logger, answer, borrower, asked, spent>>

RecordNow ==
    /\ Takes("Record", "ready")
    /\ SendRecord(Head(inbox).req, Head(inbox).start)
    /\ UNCHANGED <<registered, actor, waiters, records, entry, up, borrower, asked, spent>>

ReadyNow ==
    /\ Takes("WaitReady", "ready")
    /\ Answer({Head(inbox).req}, IF actor.info THEN "ok" ELSE "failed")
    /\ UNCHANGED <<registered, actor, waiters, records, entry, up, logger, borrower, asked, spent>>

Lent ==
    /\ Takes("Lend", "ready")
    /\ Moved("lent")
    /\ UNCHANGED <<registered, waiters, records, entry, up, logger, answer, borrower, asked, spent>>

(* The borrower gives the link back, or has had it for lend_limit. *)
Returned ==
    /\ actor.pc = "lent"
    /\ Takes("Return", "lent") \/ UNCHANGED inbox
    /\ entry' = Retired
    /\ actor' = [actor EXCEPT !.pc = "waiting", !.link = None]
    /\ UNCHANGED <<registered, waiters, records, up, logger, answer, borrower, asked, spent>>

(* An intent of no interest where the actor is. *)
Ignored ==
    /\ \/ \E k \in {"Lend", "Return"} : Takes(k, "waiting")
       \/ \E k \in {"Kick", "Return"} : Takes(k, "ready")
       \/ \E k \in {"Kick", "Lend"} : Takes(k, "lent")
    /\ UNCHANGED <<registered, actor, waiters, records, entry, up, logger, answer, borrower, asked, spent>>

(* Stop: run_link returns, and nobody is left to answer what was asked.    *)
(* Only a link it serves is disconnected; a lent one stays where it is.    *)
Stopped ==
    /\ \E pc \in {"waiting", "ready", "lent"} : actor.pc = pc /\ inbox # <<>> /\ Head(inbox) = Stop
    /\ inbox' = <<>> /\ waiters' = {} /\ records' = <<>>
    /\ Answer({r \in Requests : answer[r] = "waiting"}, "failed")
    /\ IF actor.pc = "ready"
         THEN entry' = Retired /\ up' = up \ {actor.link}
         ELSE UNCHANGED <<entry, up>>
    /\ actor' = [NewActor EXCEPT !.pc = "ended"]
    /\ UNCHANGED <<registered, logger, borrower, asked, spent>>

(* ensure_actor's task: the actor leaves the map once run_link is over. *)
Unregister ==
    /\ actor.pc = "ended" /\ registered
    /\ registered' = FALSE
    /\ UNCHANGED <<inbox, actor, waiters, records, entry, up, logger, answer, borrower, asked, spent>>

-----------------------------------------------------------------------------
(* The borrowers. *)

(* download_files takes the link the map holds; either tells the actor.    *)
Borrow ==
    /\ borrower.step = "idle" /\ spent.loans < MaxLoans
    /\ \E step \in {"session", "push"} :
          /\ step = "session" => entry # None
          /\ borrower' = [step |-> step, link |-> IF step = "session" THEN entry ELSE None]
    /\ Send(Lend)
    /\ spent' = [spent EXCEPT !.loans = @ + 1]
    /\ UNCHANGED <<registered, actor, waiters, records, entry, up, logger, answer, asked>>

GiveBack(intent) ==
    /\ Send(intent)
    /\ borrower' = [step |-> "idle", link |-> None]

(* The link died, WiFi did not come up, the image cannot be loaded. *)
BorrowFailed ==
    /\ borrower.step \in {"session", "push"}
    /\ GiveBack(Return)
    /\ UNCHANGED <<registered, actor, waiters, records, entry, up, logger, answer, asked, spent>>

(* handoff: the logger turns its Bluetooth off and every link to it dies;  *)
(* whatever link the map holds is removed.                                 *)
HandOff ==
    /\ borrower.step = "session" /\ borrower.link \in up
    /\ borrower' = [borrower EXCEPT !.step = "handed"]
    /\ logger' = [logger EXCEPT !.radio = FALSE]
    /\ up' = {} /\ entry' = None
    /\ UNCHANGED <<registered, inbox, actor, waiters, records, answer, asked, spent>>

(* The session ends, over WiFi after a handoff (with POST /record if       *)
(* Record was pressed) or over Bluetooth.  A logger that did not hear of   *)
(* it stays in WiFi mode a while.                                          *)
SessionEnds ==
    /\ borrower.step \in {"session", "handed"}
    /\ asked' = FALSE
    /\ \/ UNCHANGED logger
       \/ /\ borrower.step = "handed"
          /\ \E record \in {FALSE, asked} :
                logger' = [radio |-> TRUE, logging |-> logger.logging \/ record]
    /\ GiveBack(Return)
    /\ UNCHANGED <<registered, actor, waiters, records, entry, up, answer, spent>>

(* A push succeeds: the logger restarts, and the push's own reconnect is   *)
(* the link the map holds now.                                             *)
Pushed ==
    /\ borrower.step = "push" /\ logger.radio /\ ~ LinkIds \subseteq Held
    /\ logger' = [logger EXCEPT !.logging = FALSE]
    /\ entry' = NewLink /\ up' = {NewLink}
    /\ GiveBack(Return)
    /\ UNCHANGED <<registered, actor, waiters, records, answer, asked, spent>>

-----------------------------------------------------------------------------
(* The logger and the air. *)

RadioBack ==
    /\ ~logger.radio /\ borrower.step # "handed"
    /\ logger' = [logger EXCEPT !.radio = TRUE]
    /\ UNCHANGED <<registered, inbox, actor, waiters, records, entry, up, answer, borrower, asked, spent>>

Drop ==
    /\ spent.drops < MaxDrops
    /\ \E l \in up : up' = up \ {l}
    /\ spent' = [spent EXCEPT !.drops = @ + 1]
    /\ UNCHANGED <<registered, inbox, actor, waiters, records, entry, logger, answer, borrower, asked>>

(* A connection nobody holds any more is closed. *)
Closed ==
    /\ \E l \in up \ {entry, actor.link, borrower.link} : up' = up \ {l}
    /\ UNCHANGED <<registered, inbox, actor, waiters, records, entry, logger, answer, borrower, asked, spent>>

-----------------------------------------------------------------------------
Receive ==
    \/ KeepRecord("waiting") \/ KeepRecord("lent") \/ RecordNow
    \/ KeepWaiter("waiting") \/ KeepWaiter("lent") \/ ReadyNow
    \/ Lent \/ Ignored \/ Stopped

ActorNext ==
    \/ \E r \in RecordCalls : AskRecord(r)
    \/ \E r \in ReadyCalls : AskReady(r)
    \/ Pair \/ Forget \/ KickActor
    \/ Receive \/ Try \/ Connected \/ ConnectFailed \/ Opened \/ Drain
    \/ Status \/ Lost \/ Returned \/ Unregister
    \/ Borrow \/ BorrowFailed \/ HandOff \/ SessionEnds \/ Pushed
    \/ RadioBack \/ Drop \/ Closed

(* The actor keeps running, and its select! gives every branch its turn;   *)
(* connect attempts end, and in reach of a logger whose Bluetooth is on one*)
(* of them succeeds; a WiFi session or push ends; the logger leaves WiFi   *)
(* mode by itself.  Nobody has to ask, pair, forget or borrow.             *)
ActorFairness ==
    /\ WF_actorVars(Receive) /\ WF_actorVars(Try) /\ WF_actorVars(Opened) /\ WF_actorVars(Drain)
    /\ WF_actorVars(Lost) /\ WF_actorVars(Returned) /\ WF_actorVars(Unregister)
    /\ SF_actorVars(Connected) /\ WF_actorVars(Connected \/ ConnectFailed)
    /\ WF_actorVars(BorrowFailed \/ SessionEnds \/ Pushed)
    /\ WF_actorVars(RadioBack) /\ WF_actorVars(Closed)

ActorSpec == ActorInit /\ [][ActorNext]_actorVars /\ ActorFairness

-----------------------------------------------------------------------------
Intents == {Stop, Kick, Lend, Return}
           \cup {Record(r, start) : r \in RecordCalls, start \in BOOLEAN}
           \cup {WaitReady(r) : r \in ReadyCalls}

Keeping == [req : RecordCalls, start : BOOLEAN]
Actors ==
    [pc : {"waiting", "connecting", "opening", "draining", "ready", "lent", "ended"},
     link : LinkIds \cup {None}, info : BOOLEAN, seen : {"unknown", "logging", "stopped"}]
Loggers == [radio : BOOLEAN, logging : BOOLEAN]
Hows == {"unasked", "waiting", "ok", "failed"}
Borrowers == [step : {"idle", "session", "push", "handed"}, link : LinkIds \cup {None}]
Spending == [loans : 0 .. MaxLoans, drops : 0 .. MaxDrops, forgets : 0 .. MaxForgets]

(* Each variable stays in its set: what is kept for later is what its kind *)
(* of call asked, and the bounds hold.                                     *)
ActorTypeOK ==
    /\ registered \in BOOLEAN /\ asked \in BOOLEAN
    /\ inbox \in Seq(Intents)
    /\ actor \in Actors
    /\ waiters \subseteq ReadyCalls
    /\ records \in Seq(Keeping)
    /\ entry \in LinkIds \cup {None} /\ up \subseteq LinkIds
    /\ logger \in Loggers
    /\ answer \in [Requests -> Hows]
    /\ borrower \in Borrowers
    /\ spent \in Spending

(* Nobody but the actor's own link is taken off the map by the actor: a    *)
(* link a push made while the actor was away stays until somebody who uses *)
(* it gives it up.                                                         *)
OthersLinkStays ==
    [][entry # None /\ entry # actor.link /\ entry \in up /\ borrower' = borrower
          => entry' # None]_actorVars

(* Record is answered: sent, found done, or refused, whatever became of    *)
(* the link meanwhile, and also when the logger is unpaired.               *)
RecordAnswered ==
    \A r \in RecordCalls : answer[r] = "waiting" ~> answer[r] \in {"ok", "failed"}

(* Once links stop breaking and nobody borrows or unpairs any more, a      *)
(* paired logger's actor ends up connected, over a living link, the one    *)
(* the rest of the app finds in the map.                                   *)
ActorSettles ==
    <>[](registered => actor.pc = "ready" /\ actor.link \in up /\ entry = actor.link)
=============================================================================
