----------------------------- MODULE ImportInbox -----------------------------
(***************************************************************************)
(* The drop folder and the import pipeline behind it: a handler thread for *)
(* each file in <data>/inbox (tauri/src/inbox.rs), the steps by which it   *)
(* becomes a blob, a data.parquet and a session.json                       *)
(* (core/src/store/import.rs, blob.rs, lap_index.rs), the rebuild of a     *)
(* session from its blob, and the rider's edits of session.json, with the  *)
(* app stopping between any two steps.  Every write to a file of the       *)
(* library is write_atomic, one step here: what can happen inside it is    *)
(* AtomicWrite's.                                                          *)
(***************************************************************************)
EXTENDS Naturals, FiniteSets

CONSTANTS
    Names,          \* file names in the inbox
    Contents,       \* what a file may hold
    Sessions,       \* session ids
    SessionOf,      \* the session a content parses to, None when it does not
    None,           \* no file, no session
    MaxVersion,     \* bound on upgrades of the app's importer
    MaxDrops,       \* bound on files put in the inbox
    MaxEdits,       \* bound on edits of one session.json
    MaxFaults       \* bound on failed reads and writes

ASSUME SessionOfAssumption == SessionOf \in [Contents -> Sessions \cup {None}]
ASSUME JobsAssumption == Names \cap Sessions = {}
ASSUME BoundsAssumption ==
    MaxVersion \in Nat \ {0} /\ {MaxDrops, MaxEdits, MaxFaults} \subseteq Nat

VARIABLES
    app,            \* "down", "scanned" (launch scan done) or "watching"
    version,        \* the importer version of the app
    inbox,          \* name -> the file's content
    failed,         \* name -> the content of inbox/failed/<name>
    event,          \* names whose last change the watcher has yet to report
    job,            \* the handler of a name, the rebuild of a session
    blobs,          \* contents in the blob store
    parquet,        \* session -> its data.parquet: blob and importer version
    doc,            \* session -> its session.json: rider's edits, laps found
    given,          \* name -> the last content the user put under it
    replaced,       \* contents of files the user wrote over, or wrote too late
    drops, faults

history == <<given, replaced, drops>>
library == <<blobs, parquet, doc>>
folder == <<inbox, failed, event, history>>
vars == <<app, version, folder, job, library, faults>>

Jobs == Names \cup Sessions
Versions == 1..MaxVersion
Parquet == [blob : Contents, version : Versions]
Doc == [edits : 0..MaxEdits, laps : BOOLEAN]

ASSUME NoneAssumption == None \notin Contents \cup Sessions \cup Parquet \cup Doc

Steps == {"idle", "settling", "settled", "parsed", "stored", "regenerate", "write",
          "written", "nodoc", "indexing", "merging", "imported", "failing",
          "replacing"}
Idle == [step |-> "idle", content |-> None, seen |-> None]

Init ==
    /\ app = "down"
    /\ version = 1
    /\ inbox = [n \in Names |-> None]
    /\ failed = [n \in Names |-> None]
    /\ event = {}
    /\ job = [j \in Jobs |-> Idle]
    /\ blobs = {}
    /\ parquet = [s \in Sessions |-> None]
    /\ doc = [s \in Sessions |-> None]
    /\ given = [n \in Names |-> None]
    /\ replaced = {}
    /\ drops = 0
    /\ faults = 0

At(j, step) == app # "down" /\ job[j].step = step
Go(j, step) == job' = [job EXCEPT ![j].step = step]
Stop(j) == job' = [job EXCEPT ![j] = Idle]
SessionAt(j) == IF j \in Sessions THEN j ELSE SessionOf[job[j].content]

-----------------------------------------------------------------------------
(* The folder, its watcher and the app's life. *)

(* A file is put in the folder, over what is there: one being copied in    *)
(* grows this way.  Written after its handler has read the file, a content *)
(* is late.                                                                *)
Drop(n, c) ==
    /\ drops < MaxDrops
    /\ inbox[n] # c
    /\ inbox' = [inbox EXCEPT ![n] = c]
    /\ event' = IF app = "watching" THEN event \cup {n} ELSE event
    /\ given' = [given EXCEPT ![n] = c]
    /\ replaced' = replaced \cup {inbox[n], failed[n]}
                   \cup (IF job[n].step \in {"idle", "settling", "settled"} THEN {} ELSE {c})
    /\ drops' = drops + 1
    /\ UNCHANGED <<app, version, failed, job, library, faults>>

(* spawn_handler: one handler for a path; a change reported while it runs  *)
(* is dropped.                                                             *)
Spawned(names) ==
    [j \in Jobs |-> IF j \in names /\ job[j].step = "idle"
                    THEN [Idle EXCEPT !.step = "settling"] ELSE job[j]]

Notice(n) ==
    /\ app = "watching"
    /\ n \in event
    /\ event' = event \ {n}
    /\ job' = IF inbox[n] = None THEN job ELSE Spawned({n})
    /\ UNCHANGED <<app, version, inbox, failed, history, library, faults>>

(* start_with_settle: the launch scan, and only then the watcher. *)
Launch ==
    /\ app = "down"
    /\ app' = "scanned"
    /\ version' \in {v \in Versions : v \in {version, version + 1}}
    /\ job' = Spawned({n \in Names : inbox[n] # None})
    /\ UNCHANGED <<folder, library, faults>>

Watch ==
    /\ app = "scanned"
    /\ app' = "watching"
    /\ UNCHANGED <<version, folder, job, library, faults>>

(* The app stops, or the machine does: every thread is gone. *)
Crash ==
    /\ app # "down"
    /\ app' = "down"
    /\ job' = [j \in Jobs |-> Idle]
    /\ event' = {}
    /\ UNCHANGED <<version, inbox, failed, history, library, faults>>

-----------------------------------------------------------------------------
(* The handler of a file: settle, read and parse, then the import. *)

(* wait_until_stable: two reads of the size agree. *)
Settle(n) ==
    /\ At(n, "settling")
    /\ Go(n, "settled")
    /\ UNCHANGED <<app, version, folder, library, faults>>

(* wait_until_stable gives up on a file that has kept changing. *)
GiveUp(n) ==
    /\ At(n, "settling")
    /\ Stop(n)
    /\ UNCHANGED <<app, version, folder, library, faults>>

(* import_one reads the file; import_idl0 and import_file parse it before  *)
(* anything is written.                                                    *)
Read(n) ==
    /\ At(n, "settled")
    /\ job' = [job EXCEPT ![n].step = IF SessionOf[inbox[n]] = None THEN "failing"
                                      ELSE "parsed",
                          ![n].content = inbox[n]]
    /\ UNCHANGED <<app, version, folder, library, faults>>

(* write_blob *)
WriteBlob(n) ==
    /\ At(n, "parsed")
    /\ blobs' = blobs \cup {job[n].content}
    /\ Go(n, "stored")
    /\ UNCHANGED <<app, version, folder, parquet, doc, faults>>

(* A wrong rule: a data.parquet that is up to date ends the import. *)
SkippedIsDone(existing, content) ==
    CASE existing = None                -> "write"
      [] existing # None /\ existing.blob # content      -> "failing"
      [] existing = [blob |-> content, version |-> version] -> "imported"
      [] OTHER                          -> "regenerate"

(* plan_import, on the data.parquet that is there now. *)
PlanOf(existing, content) ==
    CASE existing = None                -> "write"
      [] existing # None /\ existing.blob # content      -> "failing"
      [] existing = [blob |-> content, version |-> version] -> "written"
      [] OTHER                          -> "regenerate"

PlanImport(n) ==
    /\ At(n, "stored")
    /\ Go(n, PlanOf(parquet[SessionAt(n)], job[n].content))
    /\ UNCHANGED <<app, version, folder, library, faults>>

(* The stale data.parquet is removed before the new one is written. *)
RemoveStale(n) ==
    /\ At(n, "regenerate")
    /\ parquet' = [parquet EXCEPT ![SessionAt(n)] = None]
    /\ Go(n, IF parquet[SessionAt(n)] = None THEN "failing" ELSE "write")
    /\ UNCHANGED <<app, version, folder, blobs, doc, faults>>

(* write_session_parquet, based on no file being there. *)
WriteParquet(n) ==
    LET s == SessionAt(n) IN
    /\ At(n, "write")
    /\ IF parquet[s] = None
       THEN /\ parquet' = [parquet EXCEPT
                               ![s] = [blob |-> job[n].content, version |-> version]]
            /\ Go(n, "written")
       ELSE /\ Go(n, "failing")
            /\ UNCHANGED parquet
    /\ UNCHANGED <<app, version, folder, blobs, doc, faults>>

(* An existing session.json is never overwritten ... *)
CheckDoc(n) ==
    /\ At(n, "written")
    /\ Go(n, IF doc[SessionAt(n)] = None THEN "nodoc" ELSE "indexing")
    /\ UNCHANGED <<app, version, folder, library, faults>>

(* ... even when it appears after the check. *)
CreateDoc(n) ==
    LET s == SessionAt(n) IN
    /\ At(n, "nodoc")
    /\ IF doc[s] = None
       THEN /\ doc' = [doc EXCEPT ![s] = [edits |-> 0, laps |-> FALSE]]
            /\ Go(n, "indexing")
       ELSE /\ Go(n, "failing")
            /\ UNCHANGED doc
    /\ UNCHANGED <<app, version, folder, blobs, parquet, faults>>

-----------------------------------------------------------------------------
(* index_laps, the tail of an import and of a rebuild: never fatal. *)

Indexed(j) == IF j \in Sessions THEN Idle ELSE [job[j] EXCEPT !.step = "imported"]

(* The session.json is read; one whose laps are up to date is left alone. *)
(* An unreadable data.parquet skips the laps.                             *)
ReadDoc(j) ==
    LET s == SessionAt(j) IN
    /\ At(j, "indexing")
    /\ job' = [job EXCEPT ![j] =
                  IF parquet[s] = None \/ (doc[s] # None /\ doc[s].laps) THEN Indexed(j)
                  ELSE [job[j] EXCEPT !.step = "merging", !.seen = doc[s]]]
    /\ UNCHANGED <<app, version, folder, library, faults>>

(* What index_laps writes over the session.json it has read (an absent one *)
(* is empty).                                                              *)
WithLaps(seen) == [edits |-> IF seen = None THEN 0 ELSE seen.edits, laps |-> TRUE]

(* A wrong step: the laps are written over whatever is there. *)
LapsWin(j) ==
    /\ At(j, "merging")
    /\ doc' = [doc EXCEPT ![SessionAt(j)] = WithLaps(job[j].seen)]
    /\ job' = [job EXCEPT ![j] = Indexed(j)]
    /\ UNCHANGED <<app, version, folder, blobs, parquet, faults>>

(* It is written only over what was read. *)
WriteLaps(j) ==
    LET s == SessionAt(j) IN
    /\ At(j, "merging")
    /\ doc' = IF doc[s] = job[j].seen
              THEN [doc EXCEPT ![s] = WithLaps(job[j].seen)] ELSE doc
    /\ job' = [job EXCEPT ![j] = Indexed(j)]
    /\ UNCHANGED <<app, version, folder, blobs, parquet, faults>>

(* import_one deletes the file, whatever it holds by now. *)
Delete(n) ==
    /\ At(n, "imported")
    /\ inbox' = [inbox EXCEPT ![n] = None]
    /\ Stop(n)
    /\ UNCHANGED <<app, version, failed, event, history, library, faults>>

(* A wrong step: a file that cannot be imported is deleted. *)
DeleteFailed(n) ==
    /\ At(n, "failing")
    /\ inbox' = [inbox EXCEPT ![n] = None]
    /\ Stop(n)
    /\ UNCHANGED <<app, version, failed, event, history, library, faults>>

(* move_to_failed, over a failed file of the same name. *)
MoveToFailed(n) ==
    /\ At(n, "failing")
    /\ failed' = [failed EXCEPT ![n] = inbox[n]]
    /\ inbox' = [inbox EXCEPT ![n] = None]
    /\ Stop(n)
    /\ UNCHANGED <<app, version, event, history, library, faults>>

(* A read or a write fails: the import is over.  Failing to index, or to  *)
(* rebuild, leaves everything as it was.                                  *)
Fault(j) ==
    /\ faults < MaxFaults
    /\ app # "down"
    /\ faults' = faults + 1
    /\ \/ /\ job[j].step \in {"settled", "parsed", "stored", "regenerate", "write",
                              "written", "nodoc", "imported"}
          /\ Go(j, "failing")
       \/ /\ job[j].step \in {"indexing", "merging"}
          /\ job' = [job EXCEPT ![j] = Indexed(j)]
       \/ /\ job[j].step = "replacing"
          /\ Stop(j)
    /\ UNCHANGED <<app, version, folder, library>>

-----------------------------------------------------------------------------
(* reimport_session, and the rider. *)

(* The data.parquet is read, and its blob parsed again. *)
Reimport(s) ==
    /\ app = "watching"
    /\ job[s].step = "idle"
    /\ parquet[s] # None
    /\ parquet[s].version # version
    /\ parquet[s].blob \in blobs
    /\ SessionOf[parquet[s].blob] = s
    /\ job' = [job EXCEPT ![s] = [step |-> "replacing", content |-> parquet[s].blob,
                                  seen |-> parquet[s]]]
    /\ UNCHANGED <<app, version, folder, library, faults>>

(* write_session_parquet_replacing, over the file that was read. *)
Replace(s) ==
    /\ At(s, "replacing")
    /\ IF parquet[s] = job[s].seen
       THEN /\ parquet' = [parquet EXCEPT
                               ![s] = [blob |-> job[s].content, version |-> version]]
            /\ Go(s, "indexing")
       ELSE /\ Stop(s)
            /\ UNCHANGED parquet
    /\ UNCHANGED <<app, version, folder, blobs, doc, faults>>

(* The rider edits a session the app shows. *)
Edit(s) ==
    /\ app # "down"
    /\ doc[s] # None
    /\ doc[s].edits < MaxEdits
    /\ doc' = [doc EXCEPT ![s].edits = @ + 1]
    /\ UNCHANGED <<app, version, folder, job, blobs, parquet, faults>>

-----------------------------------------------------------------------------
Handle(n) ==
    \/ Settle(n) \/ Read(n) \/ WriteBlob(n) \/ PlanImport(n) \/ RemoveStale(n)
    \/ WriteParquet(n) \/ CheckDoc(n) \/ CreateDoc(n) \/ ReadDoc(n) \/ WriteLaps(n)
    \/ Delete(n) \/ MoveToFailed(n)

Rebuild(s) == Replace(s) \/ ReadDoc(s) \/ WriteLaps(s)

Next ==
    \/ Launch \/ Watch \/ Crash
    \/ \E n \in Names : (\E c \in Contents : Drop(n, c)) \/ Notice(n) \/ GiveUp(n)
                        \/ Handle(n)
    \/ \E s \in Sessions : Reimport(s) \/ Rebuild(s) \/ Edit(s)
    \/ \E j \in Jobs : Fault(j)

Spec == Init /\ [][Next]_vars

-----------------------------------------------------------------------------
(* Every variable has its shape (the state of InboxState and the library). *)
TypeOK ==
    /\ app \in {"down", "scanned", "watching"}
    /\ version \in Versions
    /\ inbox \in [Names -> Contents \cup {None}]
    /\ failed \in [Names -> Contents \cup {None}]
    /\ event \subseteq Names
    /\ job \in [Jobs -> [step : Steps, content : Contents \cup {None},
                         seen : Parquet \cup Doc \cup {None}]]
    /\ blobs \subseteq Contents
    /\ parquet \in [Sessions -> Parquet \cup {None}]
    /\ doc \in [Sessions -> Doc \cup {None}]
    /\ given \in [Names -> Contents \cup {None}]
    /\ replaced \subseteq Contents \cup {None}
    /\ drops \in 0..MaxDrops
    /\ faults \in 0..MaxFaults

(* What the user last put under a name is in the inbox, in inbox/failed or *)
(* in the blob store, unless it was written over, or written so late that  *)
(* the import deletes it unread (inbox.rs deletes the inbox copy because   *)
(* its bytes are already in blobs/).                                       *)
NothingLost ==
    \A n \in Names : given[n] # None =>
        given[n] \in blobs \cup {inbox[n], failed[n]} \cup replaced

(* A session of which a log is stored has its data.parquet and its         *)
(* session.json, or a log of it is still in the inbox or in inbox/failed:  *)
(* wherever an import stopped, it can be done again (import_one deletes    *)
(* the file last).  Unless the user has written over a log of it: then     *)
(* what another import has removed may be gone with it.                    *)
LogsOf(s) == {c \in Contents : SessionOf[c] = s}
StoredIsWhole ==
    \A s \in Sessions :
        LogsOf(s) \cap blobs # {} /\ LogsOf(s) \cap replaced = {} =>
            \/ parquet[s] # None /\ doc[s] # None
            \/ \E n \in Names : {inbox[n], failed[n]} \cap LogsOf(s) # {}

(* No import, lap index or rebuild undoes an edit of session.json (import: *)
(* "never overwriting one that does").                                     *)
EditsKept ==
    [][\A s \in Sessions : doc[s] # None =>
           doc'[s] # None /\ doc'[s].edits >= doc[s].edits]_vars
=============================================================================
