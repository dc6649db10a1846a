---------------------------- MODULE AtomicWrite ----------------------------
(***************************************************************************)
(* The write path of every file under <data>: core/src/store/atomic.rs.    *)
(*                                                                         *)
(* Several writers (threads of the app, its sync server, the command line  *)
(* tool, an editor outside the program) change one file.  A writer of this *)
(* program goes through write_atomic_with_retry: stage the bytes under     *)
(* tmp/, fsync, compare the target with what it was based on, rename,      *)
(* fsync the directory, and on a conflict read the target again and        *)
(* derive new bytes, at most MaxAttempts times.  Each file-system call is  *)
(* an action: the machine may lose power between any two of them.          *)
(*                                                                         *)
(* A file's content is the set of edits it carries, which is all the       *)
(* properties tell apart; hashes are compared as contents.                 *)
(***************************************************************************)
EXTENDS Naturals

CONSTANTS
    Reapply,      \* writers whose rederive applies their edit to what is on disk now
    Keep,         \* writers that merge once and hand back the same bytes on a conflict
    Replace,      \* writers of whole documents: their bytes ignore what is on disk
    External,     \* edits made by programs that do not use write_atomic
    MaxAttempts,  \* MAX_CONCURRENCY_RETRY_ATTEMPTS
    RenameTries   \* the tries of rename_with_retry

Writers == Reapply \union Keep \union Replace
Edits == Writers \union External

\* Two marks that are no edit: there is no file; its bytes are not all there.
Absent == {"absent"}
Torn == {"torn"}
Contents == (SUBSET Edits) \union {Absent}

ASSUME WritersAssumption ==
    /\ "absent" \notin Edits
    /\ "torn" \notin Edits
    /\ Reapply \intersect (Keep \union Replace) = {}
    /\ Keep \intersect Replace = {}
ASSUME LimitsAssumption ==
    /\ MaxAttempts \in Nat /\ MaxAttempts > 0
    /\ RenameTries \in Nat /\ RenameTries > 0

VARIABLES
    target,    \* the content a reader of the file finds
    onDisk,    \* the target's bytes are on the disk, not only in the page cache
    durable,   \* the content the directory on the disk names
    pending,   \* writers whose rename the disk's directory does not have yet
    pc,        \* per writer: where in write_atomic_with_retry it is
    bytes,     \* per writer: attempt_bytes
    basedOn,   \* per writer: attempt_based_on
    attempt,   \* per writer: attempt
    tries,     \* per writer: failed renames of this attempt
    tmp        \* per writer: its file under tmp/: "none", "dirty" or "synced"

fileVars == <<target, onDisk, durable, pending>>
vars == <<fileVars, pc, bytes, basedOn, attempt, tries, tmp>>

Returned == {"idle", "done", "conflict", "ioerr"}
Running == {"write", "fsync", "check", "reread", "rename", "dirsync"}

EditsIn(content) == IF content = Absent THEN {} ELSE content

Init ==
    /\ target = Absent /\ durable = Absent
    /\ onDisk = TRUE /\ pending = {}
    /\ pc = [w \in Writers |-> "idle"]
    /\ bytes = [w \in Writers |-> {}]
    /\ basedOn = [w \in Writers |-> Absent]
    /\ attempt = [w \in Writers |-> 1]
    /\ tries = [w \in Writers |-> 0]
    /\ tmp = [w \in Writers |-> "none"]

\* The call returns: its locals are gone.
Return(w, result) ==
    /\ pc' = [pc EXCEPT ![w] = result]
    /\ bytes' = [bytes EXCEPT ![w] = {}]
    /\ basedOn' = [basedOn EXCEPT ![w] = Absent]
    /\ attempt' = [attempt EXCEPT ![w] = 1]
    /\ tries' = [tries EXCEPT ![w] = 0]

---------------------------------------------------------------------------
(* The caller: it reads the target, hashes it and makes its bytes.         *)

FirstBytes(w, content) ==
    IF w \in Replace THEN {w} ELSE EditsIn(content) \union {w}

Begin(w) ==
    /\ pc[w] \in Returned
    /\ pc' = [pc EXCEPT ![w] = "write"]
    /\ basedOn' = [basedOn EXCEPT ![w] = target]
    /\ bytes' = [bytes EXCEPT ![w] = FirstBytes(w, target)]
    /\ UNCHANGED <<fileVars, attempt, tries, tmp>>

---------------------------------------------------------------------------
(* write_atomic, one file-system call at a time.                           *)

Create(w) ==
    /\ pc[w] = "write"
    /\ pc' = [pc EXCEPT ![w] = "fsync"]
    /\ tmp' = [tmp EXCEPT ![w] = "dirty"]
    /\ UNCHANGED <<fileVars, bytes, basedOn, attempt, tries>>

\* Mutant of Synced: write_and_fsync without sync_all.
NotSynced == "dirty"
Synced == "synced"

Fsync(w) ==
    /\ pc[w] = "fsync"
    /\ pc' = [pc EXCEPT ![w] = "check"]
    /\ tmp' = [tmp EXCEPT ![w] = Synced]
    /\ UNCHANGED <<fileVars, bytes, basedOn, attempt, tries>>

CheckPasses(w) ==
    /\ pc[w] = "check"
    /\ target = basedOn[w]
    /\ pc' = [pc EXCEPT ![w] = "rename"]
    /\ UNCHANGED <<fileVars, bytes, basedOn, attempt, tries, tmp>>

MayRetry(a) == a < MaxAttempts

CheckConflicts(w) ==
    /\ pc[w] = "check"
    /\ target # basedOn[w]
    /\ tmp' = [tmp EXCEPT ![w] = "none"]
    /\ IF MayRetry(attempt[w])
       THEN /\ pc' = [pc EXCEPT ![w] = "reread"]
            /\ UNCHANGED <<bytes, basedOn, attempt, tries>>
       ELSE Return(w, "conflict")
    /\ UNCHANGED fileVars

\* std::fs::rename replaces the target as a whole.
Rename(w) ==
    /\ pc[w] = "rename"
    /\ pc' = [pc EXCEPT ![w] = "dirsync"]
    /\ target' = bytes[w]
    /\ onDisk' = (tmp[w] = "synced")
    /\ pending' = pending \union {w}
    /\ tmp' = [tmp EXCEPT ![w] = "none"]
    /\ UNCHANGED <<durable, bytes, basedOn, attempt, tries>>

\* A sharing violation: tried again without another check.  What an error
\* leaves under tmp/ is never read again.
RenameFails(w) ==
    /\ pc[w] = "rename"
    /\ IF tries[w] + 1 < RenameTries
       THEN /\ tries' = [tries EXCEPT ![w] = @ + 1]
            /\ UNCHANGED <<pc, bytes, basedOn, attempt, tmp>>
       ELSE Return(w, "ioerr") /\ tmp' = [tmp EXCEPT ![w] = "none"]
    /\ UNCHANGED fileVars

\* Mutant of DirectorySynced: no fsync_parent_dir_posix.
DirectoryNotSynced == UNCHANGED <<durable, pending>>
DirectorySynced ==
    /\ durable' = target
    /\ pending' = {}

SyncDirectory(w) ==
    /\ pc[w] = "dirsync"
    /\ Return(w, "done")
    /\ DirectorySynced
    /\ UNCHANGED <<target, onDisk, tmp>>

\* Create, write, fsync or a read fails: the error is returned at once.
IoFails(w) ==
    /\ pc[w] \in {"write", "fsync", "check", "reread"}
    /\ Return(w, "ioerr")
    /\ tmp' = [tmp EXCEPT ![w] = "none"]
    /\ UNCHANGED fileVars

---------------------------------------------------------------------------
(* write_atomic_with_retry after a conflict.                               *)

\* Mutant of Rederive: a closure that returns the first attempt's bytes.
RederiveStale(w, content) == bytes[w]
Rederive(w, content) ==
    IF w \in Reapply THEN content \union {w} ELSE bytes[w]

\* Mutant of NextAttempt: the loop does not count.
SameAttempt(a) == a
NextAttempt(a) == a + 1

Reread(w) ==
    /\ pc[w] = "reread"
    /\ target # Absent
    /\ pc' = [pc EXCEPT ![w] = "write"]
    /\ basedOn' = [basedOn EXCEPT ![w] = target]
    /\ bytes' = [bytes EXCEPT ![w] = Rederive(w, target)]
    /\ attempt' = [attempt EXCEPT ![w] = NextAttempt(@)]
    /\ tries' = [tries EXCEPT ![w] = 0]
    /\ UNCHANGED <<fileVars, tmp>>

\* The file was deleted since: the re-read fails.
RereadFails(w) ==
    /\ pc[w] = "reread"
    /\ target = Absent
    /\ Return(w, "ioerr")
    /\ UNCHANGED <<fileVars, tmp>>

---------------------------------------------------------------------------
(* Outside the program.                                                    *)

\* Another program saves or deletes the file; it keeps or drops any edit.
ExternalWrite ==
    /\ External # {}
    /\ \E content \in {Absent} \union {EditsIn(target) \union x : x \in SUBSET External}
                               \union {EditsIn(target) \ x : x \in SUBSET External} :
          target' = content
    /\ onDisk' = TRUE
    /\ UNCHANGED <<durable, pending, pc, bytes, basedOn, attempt, tries, tmp>>

\* Power is lost: the directory comes back as it was on the disk or as it was
\* last renamed; bytes that were never synced are lost, and every call with
\* its locals.
Crash ==
    /\ target' \in {durable, IF onDisk THEN target ELSE Torn}
    /\ onDisk' = TRUE
    /\ durable' = target'
    /\ pending' = {}
    /\ pc' = [w \in Writers |-> "idle"]
    /\ bytes' = [w \in Writers |-> {}]
    /\ basedOn' = [w \in Writers |-> Absent]
    /\ attempt' = [w \in Writers |-> 1]
    /\ tries' = [w \in Writers |-> 0]
    /\ tmp' = [w \in Writers |-> "none"]

WriterStep(w) ==
    \/ Create(w) \/ Fsync(w) \/ CheckPasses(w) \/ CheckConflicts(w)
    \/ Rename(w) \/ RenameFails(w) \/ SyncDirectory(w) \/ IoFails(w)
    \/ Reread(w) \/ RereadFails(w)

Next ==
    \/ \E w \in Writers : Begin(w) \/ WriterStep(w)
    \/ ExternalWrite
    \/ Crash

Spec == Init /\ [][Next]_vars

\* A writer that is running is a thread that gets its turns.
FairSpec == Spec /\ \A w \in Writers : WF_vars(WriterStep(w))

---------------------------------------------------------------------------
(* Every write stays inside its two retry budgets, and its bookkeeping is  *)
(* well formed.                                                            *)
TypeOK ==
    /\ target \in Contents \union {Torn} /\ durable \in Contents \union {Torn}
    /\ onDisk \in BOOLEAN /\ pending \subseteq Writers
    /\ pc \in [Writers -> Returned \union Running]
    /\ bytes \in [Writers -> SUBSET Edits]
    /\ basedOn \in [Writers -> Contents \union {Torn}]
    /\ attempt \in [Writers -> 1 .. MaxAttempts]
    /\ tries \in [Writers -> 0 .. RenameTries - 1]
    /\ tmp \in [Writers -> {"none", "dirty", "synced"}]

(* Whatever is interrupted wherever, a reader never finds a file whose     *)
(* bytes are not all there: the staged file is synced before it is named.  *)
TargetWhole == target # Torn

(* A write that returned Ok survives a power loss: the directory on the    *)
(* disk names what it renamed, or something newer.                         *)
OkIsDurable == \A w \in Writers : pc[w] = "done" => w \notin pending

(* What makes the two above inductive: only synced bytes are ever renamed,  *)
(* so neither directory ever names a torn file.                            *)
OnlySyncedRenamed ==
    /\ onDisk /\ durable # Torn
    /\ \A w \in Writers : /\ pc[w] \in {"check", "rename"} => tmp[w] = "synced"
                          /\ basedOn[w] # Torn

(* What rederive is for: a writer about to replace content it has checked  *)
(* against carries every edit of that content and its own.                 *)
KeepsWhatItReplaces(w) ==
    pc[w] = "rename" => EditsIn(basedOn[w]) \union {w} \subseteq bytes[w]

\* Writers that re-apply their edit (video links, session.json, workbooks).
ReapplyKeepsEdits == \A w \in Reapply : KeepsWhatItReplaces(w)

\* A writer that re-reads has an attempt left to use.
RereadHasAttempt ==
    \A w \in Writers : pc[w] = "reread" => attempt[w] < MaxAttempts

\* Inductive form: the same in every state that still leads to a rename.
ReapplyCarriesEdits ==
    \A w \in Reapply : pc[w] \in {"write", "fsync", "check", "reread", "rename"}
                       => EditsIn(basedOn[w]) \union {w} \subseteq bytes[w]

IInv == /\ TypeOK /\ TargetWhole /\ OkIsDurable
        /\ OnlySyncedRenamed /\ RereadHasAttempt /\ ReapplyCarriesEdits

(* bikelog.rs, save_bike_file: "merged with the copy on disk, if any, so   *)
(* nothing written elsewhere in the meantime is lost".                     *)
SaveKeepsEdits == \A w \in Keep : KeepsWhatItReplaces(w)

(* Every write returns, however often other writers get in between.        *)
Returns == \A w \in Writers : pc[w] \in Running ~> pc[w] \in Returned
============================================================================
