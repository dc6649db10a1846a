---------------------------- MODULE WorkbookSync ----------------------------
(***************************************************************************)
(* One workbook on several devices: edits, the sync plan                   *)
(* (core/src/store/sync/diff.rs, diff_workbook), the install that merges   *)
(* (apply.rs, install_workbook) and the merge base it keeps                *)
(* (base_cache.rs).                                                        *)
(*                                                                         *)
(* A sync is run by a client against a server.  The client plans from both *)
(* manifests, then carries the plan out; edits and other syncs may come in *)
(* between.  It pulls and merges, or pushes a workbook the server does not *)
(* have; a merge is never pushed back.  The install is one step here: its  *)
(* file-system calls and the races inside it are AtomicWrite's subject.    *)
(* Every user edit makes a new body, so a body names an edit.              *)
(***************************************************************************)
EXTENDS WorkbookMerge, FiniteSets

CONSTANTS
    Devices,
    FirstOwner,    \* the device the workbook is made on
    TakingTurns,   \* syncs do not overlap, and the devices install in turns;
                   \* FALSE: what the code admits, any client at any time
    MaxEdits,      \* bound: user edits
    MaxInstalls    \* bound: installs

ASSUME DevicesAssumption ==
    /\ FirstOwner \in Devices
    /\ MaxEdits \in Nat /\ MaxInstalls \in Nat

VARIABLES
    doc,        \* per device: its copy of the workbook, or Missing
    syncBase,   \* per device: .sync-base, EmptyDoc when there is none
    plan,       \* per device: what its sync is doing, as <<from, to>> or
                \* <<from, to, the copy on its way>>
    installer,  \* the device that installed last
    installs,   \* installs so far; each merge's tag
    edits,      \* user edits so far; each makes the body edits + 2
    authored,   \* history: per device, the bodies its user wrote
    replaced,   \* history: bodies a user edited or deleted
    deleted     \* history: ids of cells a user deleted

historyVars == <<authored, replaced, deleted>>
vars == <<doc, syncBase, plan, installer, installs, edits, historyVars>>

Missing == [cells |-> <<>>, prose |-> <<"missing">>]
NoPlan == <<>>

Cell(id, body) == [id |-> id, body |-> body, before |-> <<>>, after |-> <<>>]
\* A file of these cells as it is read: its last line end is the last cell's.
File(cells) ==
    [cells |-> [i \in DOMAIN cells |->
                   [cells[i] EXCEPT !.after = IF i = Len(cells) THEN <<"line end">> ELSE <<>>]],
     prose |-> IF cells = <<>> THEN <<"line end">> ELSE <<>>]
BodiesOn(d) == {doc[d].cells[i].body : i \in DOMAIN doc[d].cells}

Init ==
    /\ doc = [d \in Devices |->
                IF d = FirstOwner THEN File(<<Cell(<<1>>, 1)>>) ELSE Missing]
    /\ syncBase = [d \in Devices |-> EmptyDoc]
    /\ plan = [d \in Devices |-> NoPlan]
    /\ installer = FirstOwner /\ installs = 0 /\ edits = 0
    /\ authored = [d \in Devices |-> IF d = FirstOwner THEN {1} ELSE {}]
    /\ replaced = {} /\ deleted = {}

---------------------------------------------------------------------------
(* The user, on a device that has the workbook.                            *)

Write(d, cells) ==
    /\ edits < MaxEdits
    /\ doc[d] # Missing
    /\ edits' = edits + 1
    /\ doc' = [doc EXCEPT ![d] = File(cells)]
    /\ UNCHANGED <<syncBase, plan, installer, installs>>

NewBody == edits + 2

EditCell(d) ==
    \E i \in DOMAIN doc[d].cells :
        LET cell == doc[d].cells[i] IN
        /\ Write(d, [doc[d].cells EXCEPT ![i].body = NewBody])
        /\ authored' = [authored EXCEPT ![d] = @ \union {NewBody}]
        /\ replaced' = replaced \union {cell.body}
        /\ UNCHANGED deleted

AddCell(d) ==
    /\ Write(d, Append(doc[d].cells, Cell(<<NewBody>>, NewBody)))
    /\ authored' = [authored EXCEPT ![d] = @ \union {NewBody}]
    /\ UNCHANGED <<replaced, deleted>>

DeleteCell(d) ==
    \E i \in DOMAIN doc[d].cells :
        LET cell == doc[d].cells[i]
            rest == {c \in Range(doc[d].cells) : c.id # cell.id}
        IN
        /\ Write(d, Select(doc[d].cells, rest))
        /\ replaced' = replaced \union {cell.body}
        /\ deleted' = deleted \union {cell.id}
        /\ UNCHANGED authored

---------------------------------------------------------------------------
(* A sync.                                                                 *)

\* diff_workbook: the manifests are compared by the hash of the file.
PlannedAction(local, remote) ==
    CASE local = remote -> "none"
      [] local # Missing /\ remote = Missing -> "push"
      [] OTHER -> "pull"

Plan(c, s) ==
    /\ c # s /\ plan[c] = NoPlan
    /\ installs < MaxInstalls
    /\ TakingTurns => \A d \in Devices : plan[d] = NoPlan
    /\ LET action == PlannedAction(doc[c], doc[s]) IN
       /\ action # "none"
       /\ plan' = [plan EXCEPT ![c] = IF action = "pull" THEN <<s, c>> ELSE <<c, s>>]
    /\ UNCHANGED <<doc, syncBase, installer, installs, edits, historyVars>>

\* The copy to send is read as it is now: the request is answered, or the
\* body of the PUT is made.  Edits may come before it is installed.
Fetch(c) ==
    /\ Len(plan[c]) = 2
    /\ plan' = [plan EXCEPT ![c] = Append(@, doc[@[1]])]
    /\ UNCHANGED <<doc, syncBase, installer, installs, edits, historyVars>>

\* install_workbook on device d of the bytes a peer sent, and write_base of
\* the document that was just written.
Install(d, incoming) ==
    LET result == IF doc[d] = Missing THEN incoming
                  ELSE Written(Merge(doc[d], incoming, syncBase[d], installs + 1)) IN
    /\ TakingTurns => installer # d
    /\ doc' = [doc EXCEPT ![d] = result]
    /\ syncBase' = [syncBase EXCEPT ![d] = result]
    /\ installer' = d
    /\ installs' = installs + 1

CarryOut(c) ==
    /\ Len(plan[c]) = 3
    /\ installs < MaxInstalls
    /\ Install(plan[c][2], plan[c][3])
    /\ plan' = [plan EXCEPT ![c] = NoPlan]
    /\ UNCHANGED <<edits, historyVars>>

\* The transfer fails: it is logged and the sync goes on with other items.
SyncFails(c) ==
    /\ plan[c] # NoPlan
    /\ plan' = [plan EXCEPT ![c] = NoPlan]
    /\ UNCHANGED <<doc, syncBase, installer, installs, edits, historyVars>>

Next ==
    \E d \in Devices :
        \/ EditCell(d) \/ AddCell(d) \/ DeleteCell(d)
        \/ \E s \in Devices : Plan(d, s)
        \/ Fetch(d)
        \/ CarryOut(d)
        \/ SyncFails(d)

Spec == Init /\ [][Next]_vars

---------------------------------------------------------------------------
(* No edit is lost: what a user wrote stays on the device it was written   *)
(* on until some user edits or deletes it.                                 *)
NoEditLost ==
    \A d \in Devices : authored[d] \ replaced \subseteq BodiesOn(d)

(* CellOutcome::Drop: a cell goes only when a side deleted it.             *)
OnlyDeletedCellsGo ==
    [][\A d \in Devices : Ids(doc[d].cells) \ Ids(doc'[d].cells) \subseteq deleted']_vars
============================================================================
