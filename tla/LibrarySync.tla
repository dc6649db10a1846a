----------------------------- MODULE LibrarySync -----------------------------
(***************************************************************************)
(* Syncing one item of the library between paired devices (core/src/store/ *)
(* sync/{diff,apply,session_merge}.rs, bikelog.rs, and the run that moves  *)
(* it, transport/src/sync/{client,server}.rs).  The item is of one of four *)
(* classes: a track (a profile follows the same rule), a bike with its     *)
(* log, a session.json, or a session's data.parquet.                       *)
(*                                                                         *)
(* A device's run with a peer compares both manifests, then fetches the    *)
(* peer's copy and installs it, or sends its own for the peer's server to  *)
(* install.  People edit, and the other direction's run goes on, between   *)
(* any two of these steps; each of them may fail.                          *)
(***************************************************************************)
EXTENDS Naturals

CONSTANTS
    Devices,
    Nobody,         \* the author of a part nobody has set
    Classes,        \* the classes of item to look at
    Ties,           \* whether two changes may fall into one millisecond
    MaxTime         \* bound on the number of times a file is changed

ASSUME DevicesAssumption == Nobody \notin Devices
ASSUME ClassesAssumption == Classes \subseteq {"track", "bike", "session", "data"}
ASSUME TimeAssumption == MaxTime \in Nat \ {0} /\ Ties \in BOOLEAN

VARIABLES
    class,      \* the item's class, fixed
    copy,       \* device -> its copy: part -> value
    mtime,      \* device -> when its session.json was last written, 0 = absent
    run,        \* <<device, peer>> -> the device's sync run with that peer
    now,        \* the time of the latest change (every device's clock)
    written,    \* history: the pairs <<part, value>> people wrote
    done        \* history: the runs that moved all they had to since the last edit

vars == <<class, copy, mtime, run, now, written, done>>

-----------------------------------------------------------------------------
(* Parts and their values.  A value is known by when and by whom it was    *)
(* written; `at` is stored with a track, a bike's name, a log entry's      *)
(* version and a video link (updated_at_ms), and stands for the importer's *)
(* version of data.parquet.  A session's plain field and its laps carry no *)
(* time of their own: there `at` only tells values apart.                  *)

Unset == [at |-> 0, by |-> Nobody]
Value == [at : 0 .. MaxTime, by : Devices \cup {Nobody}]

Parts == [track |-> {"document"},
          bike |-> {"name", "note"},
          session |-> {"rider", "video", "laps"},
          data |-> {"columns"}]

Dated == {"document", "name", "note", "video"}
Own == {"laps"}

Absent(c) == [p \in Parts[c] |-> Unset]
Copies == [Parts[class] -> Value]

(* A session.json exists from its first write, all its fields unset or not.*)
Present(d) == IF class = "session" THEN mtime[d] > 0 ELSE copy[d] # Absent(class)

-----------------------------------------------------------------------------
(* Conflict rules, one part at a time.                                     *)

(* Mutant of Newer: the peer's copy always wins. *)
PeersWins(local, peer) == peer

(* Bike::merge, Entry::merge, merge_videos: the newer, a tie keeps local.  *)
Newer(local, peer) == IF peer.at > local.at THEN peer ELSE local

(* Mutant of MergeField: a field set here is never given up. *)
KeepsOwnField(local, peer, localNewer) == IF local = Unset THEN peer ELSE local

(* merge_field: what is set beats what is not; two different values go to  *)
(* the side whose file is newer.                                           *)
MergeField(local, peer, localNewer) ==
    IF peer # Unset /\ (local = Unset \/ ~localNewer) THEN peer ELSE local

(* Mutant of InstallTrack: what the plan said is not checked again. *)
TrackUnchecked(local, peer) == peer

(* install_track, install_profile: an older copy is refused (KeptLocal).   *)
InstallTrack(local, peer) == IF peer.at < local.at THEN local ELSE peer

MergedPart(p, local, peer, localNewer) ==
    CASE p = "document"               -> InstallTrack(local, peer)
      [] p \in {"name", "note", "video"} -> Newer(local, peer)
      [] p = "rider"                  -> MergeField(local, peer, localNewer)
      [] p = "columns"                -> peer
      [] p = "laps"                   -> local

Merge(local, peer, localNewer) ==
    [p \in DOMAIN local |-> MergedPart(p, local[p], peer[p], localNewer)]

-----------------------------------------------------------------------------
Links == {l \in Devices \X Devices : l[1] # l[2]}

Idle == [step |-> "idle", way |-> "pull", time |-> 0, fresh |-> FALSE,
         got |-> Absent(class), base |-> Absent(class), merged |-> Absent(class)]

(* Whose copy a run reads, and whose it writes. *)
Sender(l) == IF run[l].way = "pull" THEN l[2] ELSE l[1]
Receiver(l) == IF run[l].way = "pull" THEN l[1] ELSE l[2]

(* What plan_sync makes of the two manifests, seen from <<d, e>>'s side.   *)

(* lww_diff, diff_data_parquet: of two copies the newer is transferred.    *)
ByTime(d, e) ==
    LET Of(x) == IF class = "track" THEN copy[x].document.at ELSE copy[x].columns.at
    IN  IF Of(d) < Of(e) THEN "pull" ELSE IF Of(d) > Of(e) THEN "push" ELSE "nothing"

(* merge_diff, diff_session_json: copies that differ are pulled and merged.*)
ByContent(d, e) == IF copy[d] = copy[e] THEN "nothing" ELSE "pull"

(* A copy only one side has is transferred. *)
Planned(d, e) ==
    CASE ~Present(d) /\ ~Present(e) -> "nothing"
      [] ~Present(d) /\ Present(e)  -> "pull"
      [] Present(d) /\ ~Present(e)  -> "push"
      [] Present(d) /\ Present(e)   ->
           IF class \in {"bike", "session"} THEN ByContent(d, e) ELSE ByTime(d, e)

(* What the peer's manifest claims of its copy: the file's time for a      *)
(* session.json, the version for data.parquet.                             *)
Claim(e) == CASE class = "session" -> mtime[e]
              [] class = "data"    -> copy[e].columns.at
              [] OTHER             -> 0

-----------------------------------------------------------------------------
(* A session may be imported on either device, its fields still unset. *)
Init ==
    /\ class \in Classes
    /\ copy = [d \in Devices |-> Absent(class)]
    /\ mtime \in [Devices -> IF class = "session" THEN {0, 1} ELSE {0}]
    /\ run = [l \in Links |-> Idle]
    /\ now = IF class = "session" THEN 1 ELSE 0
    /\ written = {}
    /\ done = {}

(* The times a change may be stamped with. *)
Times == {t \in {now, now + 1} : t \in 1 .. MaxTime /\ (t = now => Ties)}

(* Once something was edited, no run so far has seen all there is. *)
Unsettle ==
    /\ done' = {}
    /\ run' = [l \in Links |-> [run[l] EXCEPT !.fresh = FALSE]]

(* A session.json's time is its last write's, whatever that changed. *)
Touch(d, t) ==
    mtime' = IF class = "session" THEN [mtime EXCEPT ![d] = t] ELSE mtime

(* A log entry's version is written once, and needs its bike; a field of a *)
(* session needs the session.                                              *)
Editable(d, p) ==
    CASE p = "note" -> copy[d].name # Unset /\ copy[d].note = Unset
      [] p \in {"rider", "video"} -> Present(d)
      [] OTHER -> TRUE

(* Somebody changes a part: a track or profile is saved, a bike renamed, a *)
(* log entry added, a session's field or video link set, a log imported or *)
(* its laps detected again, a data.parquet regenerated.  No device changes *)
(* one part twice in a millisecond.                                        *)
Edit(d, p, t) ==
    /\ Editable(d, p)
    /\ <<p, [at |-> t, by |-> d]>> \notin written
    /\ copy' = [copy EXCEPT ![d][p] = [at |-> t, by |-> d]]
    /\ written' = written \cup {<<p, [at |-> t, by |-> d]>>}
    /\ now' = t
    /\ Touch(d, t)
    /\ Unsettle
    /\ UNCHANGED class

(* A track or profile is deleted, or a session's field emptied: neither    *)
(* leaves anything behind that says so.                                    *)
Clear(d, p, t) ==
    /\ p \in {"document", "rider"} /\ copy[d][p] # Unset
    /\ copy' = [copy EXCEPT ![d][p] = Unset]
    /\ now' = IF class = "session" THEN t ELSE now
    /\ Touch(d, t)
    /\ Unsettle
    /\ UNCHANGED <<class, written>>

-----------------------------------------------------------------------------
(* A run: sync_with_peer for this item. *)

End(l, completed) ==
    /\ run' = [run EXCEPT ![l] = Idle]
    /\ done' = IF completed /\ run[l].fresh THEN done \cup {l} ELSE done

(* Both manifests are compared; one run per peer at a time. *)
Plan(l) ==
    LET way == Planned(l[1], l[2]) IN
    /\ run[l].step = "idle"
    /\ IF way = "nothing"
         THEN run' = run /\ done' = done \cup {l}
         ELSE /\ run' = [run EXCEPT ![l] =
                    [Idle EXCEPT !.step = "planned", !.way = way, !.fresh = TRUE,
                                 !.time = IF way = "pull" THEN Claim(l[2]) ELSE 0]]
              /\ done' = done \ {l}
    /\ UNCHANGED <<class, copy, mtime, now, written>>

(* The sender's copy is read as it is now, not as the manifest saw it. *)
Fetch(l) ==
    /\ run[l].step = "planned"
    /\ Present(Sender(l))
    /\ run' = [run EXCEPT ![l].step = "fetched", ![l].got = copy[Sender(l)]]
    /\ UNCHANGED <<class, copy, mtime, now, written, done>>

(* Of data.parquet, install refuses what is not the version claimed, and a *)
(* push claims none: the peer's server always refuses it.                  *)
Refused(l) == class = "data" /\ run[l].got.columns.at # run[l].time

(* A write by a run that has not seen the last edit unsettles the others,  *)
(* as an edit does.                                                        *)
Settle(l) ==
    IF run[l].fresh
      THEN End(l, TRUE)
      ELSE /\ done' = {}
           /\ run' = [k \in Links |-> IF k = l THEN Idle ELSE [run[k] EXCEPT !.fresh = FALSE]]

(* install_track, install_profile, install_bike, install_data_parquet.     *)
Install(l) ==
    /\ class # "session" /\ run[l].step = "fetched" /\ ~Refused(l)
    /\ copy' = [copy EXCEPT ![Receiver(l)] = Merge(@, run[l].got, TRUE)]
    /\ Settle(l)
    /\ UNCHANGED <<class, mtime, now, written>>

(* install_session_json reads the receiver's copy and merges ...           *)
MergeSession(l) ==
    LET mine == copy[Receiver(l)] IN
    /\ class = "session" /\ run[l].step = "fetched"
    /\ run' = [run EXCEPT ![l].step = "merged", ![l].base = mine,
                          ![l].merged = Merge(mine, run[l].got, mtime[Receiver(l)] >= run[l].time)]
    /\ UNCHANGED <<class, copy, mtime, now, written, done>>

(* Mutant of Rederived: the merge made before the edit is written anyway. *)
NotRederived(l, t) == run[l].merged

(* rederive_session_json_write: if the file changed since, the merge is    *)
(* made again with the current file, as changed just now.                  *)
Rederived(l, t) ==
    IF copy[Receiver(l)] = run[l].base
      THEN run[l].merged
      ELSE Merge(copy[Receiver(l)], run[l].got, t >= run[l].time)

(* ... and writes, which makes the receiver's file the newest.             *)
WriteSession(l, t) ==
    /\ run[l].step = "merged"
    /\ copy' = [copy EXCEPT ![Receiver(l)] = Rederived(l, t)]
    /\ mtime' = [mtime EXCEPT ![Receiver(l)] = t]
    /\ now' = t
    /\ Settle(l)
    /\ UNCHANGED <<class, written>>

(* One item's failure is logged and the run goes on without it: the peer   *)
(* is gone, the file too (404), the write fails, the bytes are refused.    *)
Fail(l) ==
    /\ run[l].step # "idle"
    /\ End(l, FALSE)
    /\ UNCHANGED <<class, copy, mtime, now, written>>

Next ==
    \/ \E d \in Devices, p \in Parts[class], t \in Times : Edit(d, p, t) \/ Clear(d, p, t)
    \/ \E l \in Links : Plan(l) \/ Fetch(l) \/ Install(l) \/ MergeSession(l) \/ Fail(l)
    \/ \E l \in Links, t \in Times : WriteSession(l, t)

Spec == Init /\ [][Next]_vars

-----------------------------------------------------------------------------
Runs ==
    [step : {"idle", "planned", "fetched", "merged"}, way : {"pull", "push"},
     time : 0 .. MaxTime, fresh : BOOLEAN,
     got : Copies, base : Copies, merged : Copies]

(* Every variable stays in its set; a run is merged only for a session. *)
TypeOK ==
    /\ class \in Classes
    /\ copy \in [Devices -> Copies]
    /\ mtime \in [Devices -> 0 .. MaxTime]
    /\ run \in [Links -> Runs]
    /\ now \in 0 .. MaxTime
    /\ written \subseteq Parts[class] \X Value
    /\ done \subseteq Links

(* Once every device has had an unbroken run with every other since the    *)
(* last edit, they all hold the same of what carries its time: neither     *)
(* direction undoes what the other did, however the runs interleaved.      *)
Converged ==
    done = Links =>
        \A d, e \in Devices : \A p \in Parts[class] \cap Dated : copy[d][p] = copy[e][p]

(* Two devices then agree on a session's plain field and on the version of *)
(* its data.parquet as well, though neither is merged by a time of its own.*)
(* (Among three one round need not be enough.)  Laps are each device's own.*)
PairConverged ==
    done = Links =>
        \A d, e \in Devices : Devices = {d, e} =>
            /\ class = "session" => copy[d].rider = copy[e].rider
            /\ class = "data" => copy[d].columns.at = copy[e].columns.at

(* Syncing implements Replicas: it only hands on values people wrote to    *)
(* that part, never clears one, never takes another device's laps, and     *)
(* never goes back in time where values are dated, whatever was edited     *)
(* between the plan, the fetch and the install.                            *)
R == INSTANCE Replicas WITH held <- copy, Ordered <- Dated

Replicated == R!Spec

(* An edit of a session's field that lands between a merge's read and its  *)
(* write stays, whichever side asked for the merge.                        *)
EditDuringMergeStays ==
    [][\A l \in Links : run[l].step = "merged" /\ run'[l].step = "idle" =>
          LET d == Receiver(l) IN
          \A p \in Parts[class] :
              copy[d][p] # run[l].base[p] /\ copy[d][p].by = d
                  => copy'[d][p] = copy[d][p]]_vars
=============================================================================
