-------------------------- MODULE LibrarySyncProofs --------------------------
(***************************************************************************)
(* For any devices, classes and bounds: LibrarySync implements Replicas    *)
(* (whatever is planned, fetched, edited and installed in whatever order,  *)
(* a device only takes values somebody wrote, and none older than its      *)
(* own); an edit during a merge stays; and where no two changes share a    *)
(* millisecond, what carries its time converges, and between two devices a *)
(* session's plain field and the version of its data.parquet do as well.   *)
(***************************************************************************)
EXTENDS LibrarySync, WellFoundedInduction, TLAPS

(* A value that is unset, or one somebody wrote to the part. *)
Known(p, v) == v = Unset \/ <<p, v>> \in written

(* What a device holds and what a run carries is known, ... *)
CopiesKnown == \A d \in Devices : \A p \in Parts[class] : Known(p, copy[d][p])
GotKnown == \A l \in Links : \A p \in Parts[class] : Known(p, run[l].got[p])

(* ... what is written has a time, so it is newer than what is unset, ... *)
WrittenLate == \A p \in Parts[class] : \A v \in Value : <<p, v>> \in written => v.at > 0

(* ... a data.parquet that was fetched is there, ... *)
FetchedData ==
    \A l \in Links : class = "data" /\ run[l].step = "fetched" => run[l].got["columns"] # Unset

(* ... and a merge takes only what may be taken over what it read. *)
MergedRight ==
    \A l \in Links : run[l].step = "merged" =>
        class = "session" /\ R!MayTake(run[l].base, run[l].merged)

IInv == TypeOK /\ CopiesKnown /\ GotKnown /\ WrittenLate /\ FetchedData /\ MergedRight

USE DevicesAssumption, ClassesAssumption, TimeAssumption

-----------------------------------------------------------------------------
LEMMA PartNames ==
    ASSUME NEW c \in Classes, NEW p \in Parts[c]
    PROVE  /\ p \in {"document", "name", "note", "video", "rider", "columns", "laps"}
           /\ p = "columns" => c = "data"
  BY DEF Parts

LEMMA UnsetIsValue == Unset \in Value /\ Unset.at = 0
  BY DEF Unset, Value

(* A value that is known and set has a time. *)
LEMMA KnownSet ==
    ASSUME WrittenLate, NEW p \in Parts[class], NEW v \in Value, Known(p, v), v # Unset
    PROVE  v.at > 0
  BY DEF WrittenLate, Known

(* One part of a merge is taken from the peer only if it may be.           *)
LEMMA MergedPartTakes ==
    ASSUME class \in Classes, WrittenLate, NEW p \in Parts[class],
           NEW local \in Value, NEW peer \in Value, NEW newer \in BOOLEAN,
           Known(p, local), Known(p, peer), p = "columns" => peer # Unset
    PROVE  LET new == MergedPart(p, local, peer, newer) IN
           \/ new = local
           \/ /\ new = peer /\ p \notin Own /\ <<p, peer>> \in written
              /\ p \in Dated => peer.at >= local.at
<1>1. p \in {"document", "name", "note", "video", "rider", "columns", "laps"}
  BY PartNames
<1>2. /\ local.at \in Nat /\ peer.at \in Nat
      /\ local # Unset => local.at > 0
      /\ peer # Unset => <<p, peer>> \in written
      /\ peer.at > 0 => peer # Unset
  BY KnownSet, UnsetIsValue DEF Value, Known
<1>3. CASE p = "document"
  <2>1. MergedPart(p, local, peer, newer) = InstallTrack(local, peer)
    BY <1>3 DEF MergedPart
  <2>2. CASE peer.at < local.at
    BY <2>1, <2>2 DEF InstallTrack
  <2>3. CASE peer.at >= local.at
    <3>1. MergedPart(p, local, peer, newer) = peer
      BY <2>1, <2>3, <1>2 DEF InstallTrack
    <3>2. peer = Unset => local = Unset
      BY <2>3, <1>2, UnsetIsValue
    <3>3. QED
      BY <3>1, <3>2, <2>3, <1>2, <1>3 DEF Own
  <2>4. QED
    BY <2>2, <2>3, <1>2
<1>4. CASE p \in {"name", "note", "video"}
  <2>1. MergedPart(p, local, peer, newer) = Newer(local, peer)
    BY <1>4 DEF MergedPart
  <2>2. QED
    BY <2>1, <1>2, <1>4 DEF Newer, Own
<1>5. CASE p = "rider"
  <2>1. MergedPart(p, local, peer, newer) = MergeField(local, peer, newer)
    BY <1>5 DEF MergedPart
  <2>2. QED
    BY <2>1, <1>2, <1>5 DEF MergeField, Own, Dated
<1>6. CASE p = "columns"
  <2>1. MergedPart(p, local, peer, newer) = peer
    BY <1>6 DEF MergedPart
  <2>2. QED
    BY <2>1, <1>2, <1>6 DEF Own, Dated
<1>7. CASE p = "laps"
  BY <1>7 DEF MergedPart
<1>8. QED
  BY <1>1, <1>3, <1>4, <1>5, <1>6, <1>7

(* So a whole merge may be taken. *)
LEMMA MergeTakes ==
    ASSUME class \in Classes, WrittenLate, NEW local \in Copies, NEW peer \in Copies,
           NEW newer \in BOOLEAN,
           \A p \in Parts[class] : Known(p, local[p]) /\ Known(p, peer[p]),
           class = "data" => peer["columns"] # Unset
    PROVE  /\ Merge(local, peer, newer) \in Copies
           /\ R!MayTake(local, Merge(local, peer, newer))
           /\ \A p \in Parts[class] : Known(p, Merge(local, peer, newer)[p])
<1> DEFINE new == Merge(local, peer, newer)
<1>1. DOMAIN local = Parts[class]
  BY DEF Copies
<1>2. new = [p \in Parts[class] |-> MergedPart(p, local[p], peer[p], newer)]
  BY <1>1 DEF Merge
<1>3. ASSUME NEW p \in Parts[class]
      PROVE  \/ new[p] = local[p]
             \/ /\ new[p] = peer[p] /\ p \notin Own /\ <<p, peer[p]>> \in written
                /\ p \in Dated => peer[p].at >= local[p].at
  <2>1. new[p] = MergedPart(p, local[p], peer[p], newer)
    BY <1>2
  <2>2. local[p] \in Value /\ peer[p] \in Value /\ (p = "columns" => peer[p] # Unset)
    BY PartNames DEF Copies
  <2>3. QED
    BY <2>1, <2>2, MergedPartTakes
<1> HIDE DEF new
<1>4. \A p \in Parts[class] : new[p] \in Value
  BY <1>3 DEF Copies
<1>5. new \in Copies
  BY <1>2, <1>4 DEF Copies
<1>6. R!MayTake(local, new)
  BY <1>1, <1>3 DEF R!MayTake
<1>7. \A p \in Parts[class] : Known(p, new[p])
  BY <1>3 DEF Known
<1>8. QED
  BY <1>5, <1>6, <1>7 DEF new

-----------------------------------------------------------------------------
LEMMA AbsentType == class \in Classes => Absent(class) \in Copies /\ Idle \in Runs
<1> SUFFICES ASSUME class \in Classes PROVE Absent(class) \in Copies /\ Idle \in Runs
  OBVIOUS
<1>1. Absent(class) \in Copies
  BY UnsetIsValue DEF Absent, Copies
<1>2. 0 \in 0 .. MaxTime
  OBVIOUS
<1>3. QED
  BY <1>1, <1>2 DEF Idle, Runs

LEMMA LinkEnds ==
    ASSUME NEW l \in Links PROVE Sender(l) \in Devices /\ Receiver(l) \in Devices
  BY DEF Links, Sender, Receiver

(* The initial state has the invariant. *)
LEMMA InitInv == Init => IInv
<1> SUFFICES ASSUME Init PROVE IInv
  OBVIOUS
<1>1. class \in Classes /\ Absent(class) \in Copies /\ Idle \in Runs
  BY AbsentType DEF Init
<1>2. /\ copy = [d \in Devices |-> Absent(class)]
      /\ mtime \in [Devices -> IF class = "session" THEN {0, 1} ELSE {0}]
      /\ run = [l \in Links |-> Idle]
      /\ now = IF class = "session" THEN 1 ELSE 0
      /\ written = {} /\ done = {}
  BY DEF Init
<1>3. mtime \in [Devices -> 0 .. MaxTime] /\ now \in 0 .. MaxTime
  BY <1>2
<1>4. TypeOK
  BY <1>1, <1>2, <1>3 DEF TypeOK
<1>5. \A p \in Parts[class] : Absent(class)[p] = Unset
  BY DEF Absent
<1>6. CopiesKnown
  BY <1>2, <1>5 DEF CopiesKnown, Known
<1>7. \A l \in Links : run[l].step = "idle" /\ run[l].got = Absent(class)
  BY <1>2 DEF Idle
<1>8. GotKnown /\ FetchedData /\ MergedRight
  BY <1>5, <1>7 DEF GotKnown, FetchedData, MergedRight, Known
<1>9. WrittenLate
  BY <1>2 DEF WrittenLate
<1>10. QED
  BY <1>4, <1>6, <1>8, <1>9 DEF IInv

(* What a run carries stays right when it goes on carrying it, or begins   *)
(* or ends, and nothing written is forgotten.                              *)
Carries(k) == /\ run'[k].step = run[k].step /\ run'[k].got = run[k].got
              /\ run'[k].base = run[k].base /\ run'[k].merged = run[k].merged
Empties(k) == run'[k].step \in {"idle", "planned"} /\ run'[k].got = Absent(class)

LEMMA RunsInv ==
    ASSUME IInv, class' = class, written \subseteq written',
           \A k \in Links : Carries(k) \/ Empties(k)
    PROVE  GotKnown' /\ FetchedData' /\ MergedRight'
<1>1. \A p \in Parts[class] : Absent(class)[p] = Unset
  BY DEF Absent
<1>2. GotKnown'
  BY <1>1 DEF IInv, GotKnown, Known, Carries, Empties
<1>3. FetchedData'
  BY DEF IInv, FetchedData, Carries, Empties
<1>4. MergedRight'
  <2>1. SUFFICES ASSUME NEW l \in Links, run'[l].step = "merged"
                 PROVE class = "session" /\ R!MayTake(run[l].base, run[l].merged)'
    BY DEF MergedRight, R!MayTake
  <2>2. Carries(l)
    BY <2>1 DEF Empties
  <2>3. class = "session" /\ R!MayTake(run[l].base, run[l].merged)
    BY <2>1, <2>2 DEF IInv, MergedRight, Carries
  <2>4. QED
    BY <2>2, <2>3 DEF R!MayTake, Carries
<1>5. QED
  BY <1>2, <1>3, <1>4

(* The ways the runs change without carrying anything new. *)
RunsOk == /\ run' \in [Links -> Runs] /\ done' \subseteq Links
          /\ \A k \in Links : Carries(k) \/ Empties(k)

LEMMA FreshStep ==
    ASSUME TypeOK, NEW k \in Links
    PROVE  /\ [run[k] EXCEPT !.fresh = FALSE] \in Runs
           /\ \A f \in {"step", "got", "base", "merged"} :
                  [run[k] EXCEPT !.fresh = FALSE][f] = run[k][f]
  BY DEF TypeOK, Runs

LEMMA UnsettleOk == TypeOK /\ Unsettle => RunsOk
<1> SUFFICES ASSUME TypeOK, Unsettle PROVE RunsOk
  OBVIOUS
<1>1. run' = [l \in Links |-> [run[l] EXCEPT !.fresh = FALSE]] /\ done' = {}
  BY DEF Unsettle
<1>2. \A k \in Links : run'[k] \in Runs /\ Carries(k)
  BY <1>1, FreshStep DEF Carries
<1>3. QED
  BY <1>1, <1>2 DEF RunsOk

LEMMA EndOk == \A l \in Links, b \in BOOLEAN : TypeOK /\ End(l, b) => RunsOk
<1> SUFFICES ASSUME NEW l \in Links, NEW b \in BOOLEAN, TypeOK, End(l, b) PROVE RunsOk
  OBVIOUS
<1>1. run' = [run EXCEPT ![l] = Idle] /\ done' \subseteq Links
  BY DEF End, TypeOK
<1>2. Idle \in Runs /\ run \in [Links -> Runs]
  BY AbsentType DEF TypeOK
<1>3. Idle.step = "idle" /\ Idle.got = Absent(class)
  BY DEF Idle
<1>4. run'[l] = Idle /\ \A k \in Links \ {l} : run'[k] = run[k]
  BY <1>1, <1>2
<1>5. \A k \in Links : Carries(k) \/ Empties(k)
  BY <1>3, <1>4 DEF Carries, Empties
<1>6. QED
  BY <1>1, <1>2, <1>5 DEF RunsOk

LEMMA SettleOk == \A l \in Links : TypeOK /\ Settle(l) => RunsOk
<1> SUFFICES ASSUME NEW l \in Links, TypeOK, Settle(l) PROVE RunsOk
  OBVIOUS
<1>1. CASE End(l, TRUE)
  BY <1>1, EndOk
<1>2. CASE /\ done' = {}
           /\ run' = [k \in Links |-> IF k = l THEN Idle ELSE [run[k] EXCEPT !.fresh = FALSE]]
  <2>1. Idle \in Runs /\ Idle.step = "idle" /\ Idle.got = Absent(class)
    BY AbsentType DEF TypeOK, Idle
  <2>2. run'[l] = Idle /\ \A k \in Links \ {l} : run'[k] = [run[k] EXCEPT !.fresh = FALSE]
    BY <1>2
  <2>3. \A k \in Links \ {l} : run'[k] \in Runs /\ Carries(k)
    BY <2>2, FreshStep DEF Carries
  <2>4. \A k \in Links : run'[k] \in Runs /\ (Carries(k) \/ Empties(k))
    BY <2>1, <2>2, <2>3 DEF Empties
  <2>5. QED
    BY <1>2, <2>4 DEF RunsOk
<1>3. QED
  BY <1>1, <1>2 DEF Settle

(* A step that changes no copy, or one device's, and carries nothing new.  *)
LEMMA CopyInv ==
    ASSUME IInv, RunsOk, class' = class, written \subseteq written',
           written' \subseteq Parts[class] \X Value, WrittenLate',
           mtime' \in [Devices -> 0 .. MaxTime], now' \in 0 .. MaxTime,
           copy' \in [Devices -> Copies], CopiesKnown'
    PROVE  IInv'
<1>1. TypeOK'
  BY DEF IInv, TypeOK, RunsOk, Copies, Runs
<1>2. GotKnown' /\ FetchedData' /\ MergedRight'
  BY RunsInv DEF RunsOk
<1>3. QED
  BY <1>1, <1>2 DEF IInv

-----------------------------------------------------------------------------
(* Each step keeps the invariant and is a step of Replicas, or none.       *)

LEMMA TimesType == \A t \in Times : t \in 1 .. MaxTime /\ t \in 0 .. MaxTime /\ t > 0
  BY DEF Times

LEMMA TouchType ==
    ASSUME TypeOK, NEW d \in Devices, NEW t \in 0 .. MaxTime, Touch(d, t)
    PROVE  mtime' \in [Devices -> 0 .. MaxTime]
  BY DEF TypeOK, Touch

(* Somebody writes a new value. *)
LEMMA EditInv ==
    \A d \in Devices, p \in Parts[class], t \in Times :
        IInv /\ Edit(d, p, t) => IInv' /\ R!Write(d)
<1> SUFFICES ASSUME NEW d \in Devices, NEW p \in Parts[class], NEW t \in Times,
                    IInv, Edit(d, p, t)
             PROVE  IInv' /\ R!Write(d)
  OBVIOUS
<1> DEFINE v == [at |-> t, by |-> d]
           new == [copy[d] EXCEPT ![p] = v]
<1>1. /\ <<p, v>> \notin written
      /\ copy' = [copy EXCEPT ![d] = new]
      /\ written' = written \cup {<<p, v>>}
      /\ now' = t /\ class' = class
      /\ Touch(d, t) /\ Unsettle
  BY DEF Edit
<1>2. v \in Value /\ v.at > 0 /\ t \in 0 .. MaxTime
  BY TimesType DEF Value
<1>3. TypeOK /\ copy[d] \in Copies
  BY DEF IInv, TypeOK
<1>4. new \in Copies /\ new[p] = v /\ \A q \in Parts[class] : q # p => new[q] = copy[d][q]
  BY <1>2, <1>3 DEF Copies
<1> HIDE DEF v, new
<1>5. copy' \in [Devices -> Copies] /\ copy'[d] = new
      /\ \A e \in Devices : e # d => copy'[e] = copy[e]
  BY <1>1, <1>3, <1>4 DEF TypeOK
<1>6. mtime' \in [Devices -> 0 .. MaxTime]
  BY <1>1, <1>2, <1>3, TouchType
<1>7. RunsOk
  BY <1>1, <1>3, UnsettleOk
<1>8. CopiesKnown'
  BY <1>1, <1>4, <1>5 DEF IInv, CopiesKnown, Known
<1>9. WrittenLate'
  BY <1>1, <1>2 DEF IInv, WrittenLate
<1>10. written' \subseteq Parts[class] \X Value
  BY <1>1, <1>2, <1>3 DEF TypeOK
<1>11. IInv'
  BY <1>1, <1>2, <1>5, <1>6, <1>7, <1>8, <1>9, <1>10, CopyInv
<1>12. R!Write(d)
  <2>1. p \in DOMAIN copy[d] /\ copy'[d][p] = v
    BY <1>3, <1>4, <1>5 DEF Copies
  <2>2. copy' = [copy EXCEPT ![d][p] = copy'[d][p]]
    BY <1>1, <2>1 DEF new
  <2>3. QED
    BY <1>1, <2>1, <2>2 DEF R!Write
<1>13. QED
  BY <1>11, <1>12

(* Somebody deletes or empties something. *)
LEMMA ClearInv ==
    \A d \in Devices, p \in Parts[class], t \in Times :
        IInv /\ Clear(d, p, t) => IInv' /\ R!Clear(d)
<1> SUFFICES ASSUME NEW d \in Devices, NEW p \in Parts[class], NEW t \in Times,
                    IInv, Clear(d, p, t)
             PROVE  IInv' /\ R!Clear(d)
  OBVIOUS
<1> DEFINE new == [copy[d] EXCEPT ![p] = Unset]
<1>1. /\ copy' = [copy EXCEPT ![d] = new]
      /\ now' = IF class = "session" THEN t ELSE now
      /\ class' = class /\ written' = written
      /\ Touch(d, t) /\ Unsettle
  BY DEF Clear
<1>2. t \in 0 .. MaxTime /\ TypeOK /\ copy[d] \in Copies
  BY TimesType DEF IInv, TypeOK
<1>3. /\ new \in Copies /\ new[p] = Unset
      /\ \A q \in Parts[class] : q # p => new[q] = copy[d][q]
  BY <1>2, UnsetIsValue DEF Copies
<1> HIDE DEF new
<1>4. copy' \in [Devices -> Copies] /\ copy'[d] = new
      /\ \A e \in Devices : e # d => copy'[e] = copy[e]
  BY <1>1, <1>2, <1>3 DEF TypeOK
<1>5. mtime' \in [Devices -> 0 .. MaxTime] /\ now' \in 0 .. MaxTime
  BY <1>1, <1>2, TouchType DEF TypeOK
<1>6. RunsOk
  BY <1>1, <1>2, UnsettleOk
<1>7. CopiesKnown'
  BY <1>1, <1>3, <1>4 DEF IInv, CopiesKnown, Known
<1>8. WrittenLate' /\ written' \subseteq Parts[class] \X Value
  BY <1>1, <1>2 DEF IInv, WrittenLate, TypeOK
<1>9. IInv'
  BY <1>1, <1>4, <1>5, <1>6, <1>7, <1>8, CopyInv
<1>10. R!Clear(d)
  <2>1. DOMAIN copy[d] = Parts[class] /\ {p} \in SUBSET DOMAIN copy[d]
    BY <1>2 DEF Copies
  <2>2. new = [q \in DOMAIN copy[d] |-> IF q \in {p} THEN Unset ELSE copy[d][q]]
    BY <2>1, <1>3 DEF Copies
  <2>3. copy' = [copy EXCEPT ![d] =
                    [q \in DOMAIN copy[d] |-> IF q \in {p} THEN Unset ELSE copy[d][q]]]
    BY <1>1, <2>2
  <2>4. QED
    BY <1>1, <2>1, <2>3 DEF R!Clear
<1>11. QED
  BY <1>9, <1>10

(* The manifests are compared, or something fails: nothing is installed.   *)
LEMMA QuietInv ==
    ASSUME IInv, RunsOk, UNCHANGED <<class, copy, mtime, now, written>>
    PROVE  IInv'
<1>1. WrittenLate' /\ CopiesKnown'
  BY DEF IInv, WrittenLate, CopiesKnown, Known
<1>2. QED
  BY <1>1, CopyInv DEF IInv, TypeOK

LEMMA PlanInv == \A l \in Links : IInv /\ Plan(l) => IInv'
<1> SUFFICES ASSUME NEW l \in Links, IInv, Plan(l) PROVE IInv'
  OBVIOUS
<1>1. TypeOK /\ UNCHANGED <<class, copy, mtime, now, written>>
  BY DEF IInv, Plan
<1> DEFINE way == Planned(l[1], l[2])
           time == IF way = "pull" THEN Claim(l[2]) ELSE 0
           new == [Idle EXCEPT !.step = "planned", !.way = way, !.fresh = TRUE, !.time = time]
<1>2. CASE way = "nothing"
  <2>1. run' = run /\ done' \subseteq Links
    BY <1>1, <1>2 DEF Plan, TypeOK
  <2>2. RunsOk
    BY <1>1, <2>1 DEF RunsOk, Carries, TypeOK
  <2>3. QED
    BY <1>1, <2>2, QuietInv
<1>3. CASE way # "nothing"
  <2>1. way \in {"nothing", "pull", "push"}
    BY DEF Planned, ByTime, ByContent
  <2>2. time \in 0 .. MaxTime
    <3>1. l[2] \in Devices
      BY DEF Links
    <3>2. mtime[l[2]] \in 0 .. MaxTime /\ copy[l[2]] \in Copies
      BY <1>1, <3>1 DEF TypeOK
    <3>3. class = "data" => copy[l[2]].columns.at \in 0 .. MaxTime
      <4>1. SUFFICES ASSUME class = "data" PROVE copy[l[2]].columns.at \in 0 .. MaxTime
        OBVIOUS
      <4>2. "columns" \in Parts["data"]
        BY DEF Parts
      <4>3. copy[l[2]]["columns"] \in Value
        BY <3>2, <4>1, <4>2 DEF Copies
      <4>4. QED
        BY <4>3 DEF Value
    <3>4. Claim(l[2]) \in 0 .. MaxTime
      BY <3>2, <3>3 DEF Claim
    <3>5. QED
      BY <3>4
  <2>3. Idle \in Runs /\ Idle.got = Absent(class)
    BY <1>1, AbsentType DEF TypeOK, Idle
  <2> HIDE DEF way, time
  <2>4. new \in Runs /\ new.step = "planned" /\ new.got = Absent(class)
    BY <1>3, <2>1, <2>2, <2>3 DEF Runs
  <2>5. run' = [run EXCEPT ![l] = new] /\ done' \subseteq Links
    BY <1>1, <1>3 DEF Plan, TypeOK, way, time
  <2>6. run' \in [Links -> Runs] /\ run'[l] = new /\ \A k \in Links \ {l} : run'[k] = run[k]
    BY <1>1, <2>4, <2>5 DEF TypeOK
  <2>7. \A k \in Links : Carries(k) \/ Empties(k)
    BY <2>4, <2>6 DEF Carries, Empties
  <2>8. QED
    BY <1>1, <2>5, <2>6, <2>7, QuietInv DEF RunsOk
<1>4. QED
  BY <1>2, <1>3

LEMMA FailInv == \A l \in Links : IInv /\ Fail(l) => IInv'
  BY EndOk, QuietInv DEF Fail, IInv

(* The sender's copy is read: what it holds is known. *)
LEMMA FetchInv == \A l \in Links : IInv /\ Fetch(l) => IInv'
<1> SUFFICES ASSUME NEW l \in Links, IInv, Fetch(l) PROVE IInv'
  OBVIOUS
<1> DEFINE theirs == copy[Sender(l)]
           new == [run[l] EXCEPT !.step = "fetched", !.got = theirs]
<1>1. /\ run[l].step = "planned" /\ Present(Sender(l))
      /\ run' = [run EXCEPT ![l] = new]
      /\ UNCHANGED <<class, copy, mtime, now, written, done>>
  BY DEF Fetch
<1>2. TypeOK /\ Sender(l) \in Devices /\ theirs \in Copies
  BY LinkEnds DEF IInv, TypeOK
<1>3. \A p \in Parts[class] : Known(p, theirs[p])
  BY <1>2 DEF IInv, CopiesKnown
<1>4. class = "data" => theirs["columns"] # Unset
  <2>1. SUFFICES ASSUME class = "data", theirs["columns"] = Unset PROVE FALSE
    OBVIOUS
  <2>2. Parts["data"] = {"columns"}
    BY DEF Parts
  <2>3. theirs = Absent(class)
    BY <1>2, <2>1, <2>2 DEF Absent, Copies
  <2>4. QED
    BY <1>1, <2>1, <2>3 DEF Present
<1> HIDE DEF theirs
<1>5. new \in Runs /\ new.step = "fetched" /\ new.got = theirs
  BY <1>2 DEF TypeOK, Runs
<1> HIDE DEF new
<1>6. run' \in [Links -> Runs] /\ run'[l] = new /\ \A k \in Links \ {l} : run'[k] = run[k]
  BY <1>1, <1>2, <1>5 DEF TypeOK
<1>7. TypeOK'
  BY <1>1, <1>2, <1>6 DEF TypeOK, Copies, Runs
<1>8. GotKnown'
  BY <1>1, <1>3, <1>5, <1>6 DEF IInv, GotKnown, Known
<1>9. FetchedData'
  BY <1>1, <1>4, <1>5, <1>6 DEF IInv, FetchedData
<1>10. MergedRight'
  <2>1. \A k \in Links : run'[k].step = "merged" => k # l /\ run'[k] = run[k]
    BY <1>5, <1>6
  <2>2. QED
    BY <1>1, <2>1 DEF IInv, MergedRight, R!MayTake
<1>11. WrittenLate' /\ CopiesKnown'
  BY <1>1 DEF IInv, WrittenLate, CopiesKnown, Known
<1>12. QED
  BY <1>7, <1>8, <1>9, <1>10, <1>11 DEF IInv

(* A device takes a merge. *)
LEMMA TakeInv ==
    ASSUME IInv, RunsOk, UNCHANGED <<class, written>>,
           mtime' \in [Devices -> 0 .. MaxTime], now' \in 0 .. MaxTime,
           NEW d \in Devices, NEW new \in Copies, copy' = [copy EXCEPT ![d] = new],
           R!MayTake(copy[d], new), \A p \in Parts[class] : Known(p, new[p])
    PROVE  IInv' /\ R!Take(d)
<1>1. TypeOK /\ copy[d] \in Copies
  BY DEF IInv, TypeOK
<1>2. copy' \in [Devices -> Copies] /\ copy'[d] = new
      /\ \A e \in Devices : e # d => copy'[e] = copy[e]
  BY <1>1 DEF TypeOK
<1>3. CopiesKnown' /\ WrittenLate'
  BY <1>2 DEF IInv, CopiesKnown, WrittenLate, Known
<1>4. written' \subseteq Parts[class] \X Value
  BY <1>1 DEF TypeOK
<1>5. IInv'
  BY <1>2, <1>3, <1>4, CopyInv
<1>6. DOMAIN copy'[d] = DOMAIN copy[d]
  BY <1>1, <1>2 DEF Copies
<1>7. R!Take(d)
  BY <1>2, <1>6 DEF R!Take
<1>8. QED
  BY <1>5, <1>7

(* install_track, install_bike, install_data_parquet. *)
LEMMA InstallInv == \A l \in Links : IInv /\ Install(l) => IInv' /\ R!Take(Receiver(l))
<1> SUFFICES ASSUME NEW l \in Links, IInv, Install(l) PROVE IInv' /\ R!Take(Receiver(l))
  OBVIOUS
<1> DEFINE d == Receiver(l)
           new == Merge(copy[d], run[l].got, TRUE)
<1>1. /\ run[l].step = "fetched" /\ Settle(l)
      /\ copy' = [copy EXCEPT ![d] = new]
      /\ UNCHANGED <<class, mtime, now, written>>
  BY DEF Install
<1>2. TypeOK /\ d \in Devices /\ copy[d] \in Copies /\ run[l].got \in Copies
  BY LinkEnds DEF IInv, TypeOK, Runs
<1>3. \A p \in Parts[class] : Known(p, copy[d][p]) /\ Known(p, run[l].got[p])
  BY <1>2 DEF IInv, CopiesKnown, GotKnown
<1>4. class = "data" => run[l].got["columns"] # Unset
  BY <1>1 DEF IInv, FetchedData
<1>5. /\ new \in Copies /\ R!MayTake(copy[d], new)
      /\ \A p \in Parts[class] : Known(p, new[p])
  BY <1>2, <1>3, <1>4, MergeTakes DEF IInv, TypeOK
<1>6. RunsOk /\ mtime' \in [Devices -> 0 .. MaxTime] /\ now' \in 0 .. MaxTime
  BY <1>1, <1>2, SettleOk DEF TypeOK
<1> HIDE DEF d, new
<1>7. IInv' /\ R!Take(d)
  BY <1>1, <1>2, <1>5, <1>6, TakeInv
<1>8. QED
  BY <1>7 DEF d

(* install_session_json merges what it read ... *)
LEMMA MergeInv == \A l \in Links : IInv /\ MergeSession(l) => IInv'
<1> SUFFICES ASSUME NEW l \in Links, IInv, MergeSession(l) PROVE IInv'
  OBVIOUS
<1> DEFINE mine == copy[Receiver(l)]
           newer == mtime[Receiver(l)] >= run[l].time
           merged == Merge(mine, run[l].got, newer)
           new == [run[l] EXCEPT !.step = "merged", !.base = mine, !.merged = merged]
<1>1. /\ class = "session" /\ run[l].step = "fetched"
      /\ run' = [run EXCEPT ![l] = new]
      /\ UNCHANGED <<class, copy, mtime, now, written, done>>
  BY DEF MergeSession
<1>2. TypeOK /\ Receiver(l) \in Devices /\ mine \in Copies /\ run[l] \in Runs
      /\ run[l].got \in Copies
  BY LinkEnds DEF IInv, TypeOK, Runs
<1>3. \A p \in Parts[class] : Known(p, mine[p]) /\ Known(p, run[l].got[p])
  BY <1>2 DEF IInv, CopiesKnown, GotKnown
<1>4. newer \in BOOLEAN /\ class # "data"
  BY <1>1
<1> HIDE DEF mine, newer
<1>5. merged \in Copies /\ R!MayTake(mine, merged)
  BY <1>2, <1>3, <1>4, MergeTakes DEF IInv, TypeOK
<1> HIDE DEF merged
<1>6. /\ new \in Runs /\ new.step = "merged" /\ new.got = run[l].got
      /\ new.base = mine /\ new.merged = merged
  BY <1>2, <1>5 DEF Runs
<1> HIDE DEF new
<1>7. run' \in [Links -> Runs] /\ run'[l] = new /\ \A k \in Links \ {l} : run'[k] = run[k]
  BY <1>1, <1>2, <1>6 DEF TypeOK
<1>8. TypeOK'
  BY <1>1, <1>2, <1>7 DEF TypeOK, Copies, Runs
<1>9. GotKnown'
  BY <1>1, <1>6, <1>7 DEF IInv, GotKnown, Known
<1>10. FetchedData'
  BY <1>1, <1>6, <1>7 DEF IInv, FetchedData
<1>11. MergedRight'
  <2>1. \A k \in Links : k # l => run'[k] = run[k]
    BY <1>7
  <2>2. R!MayTake(run'[l].base, run'[l].merged)
    BY <1>5, <1>6, <1>7
  <2>3. QED
    BY <1>1, <2>1, <2>2 DEF IInv, MergedRight, R!MayTake
<1>12. WrittenLate' /\ CopiesKnown'
  BY <1>1 DEF IInv, WrittenLate, CopiesKnown, Known
<1>13. QED
  BY <1>8, <1>9, <1>10, <1>11, <1>12 DEF IInv

(* ... and writes it, or what it makes of the file as it is by then.       *)
LEMMA WriteInv ==
    \A l \in Links, t \in Times : IInv /\ WriteSession(l, t) => IInv' /\ R!Take(Receiver(l))
<1> SUFFICES ASSUME NEW l \in Links, NEW t \in Times, IInv, WriteSession(l, t)
             PROVE  IInv' /\ R!Take(Receiver(l))
  OBVIOUS
<1> DEFINE d == Receiver(l)
           new == Rederived(l, t)
<1>1. /\ run[l].step = "merged" /\ Settle(l)
      /\ copy' = [copy EXCEPT ![d] = new]
      /\ mtime' = [mtime EXCEPT ![d] = t]
      /\ now' = t
      /\ UNCHANGED <<class, written>>
  BY DEF WriteSession
<1>2. TypeOK /\ d \in Devices /\ copy[d] \in Copies /\ run[l].got \in Copies
      /\ run[l].base \in Copies /\ run[l].merged \in Copies
  BY LinkEnds DEF IInv, TypeOK, Runs
<1>3. class = "session" /\ R!MayTake(run[l].base, run[l].merged)
  BY <1>1 DEF IInv, MergedRight
<1>4. \A p \in Parts[class] : Known(p, copy[d][p]) /\ Known(p, run[l].got[p])
  BY <1>2 DEF IInv, CopiesKnown, GotKnown
<1>5. /\ new \in Copies /\ R!MayTake(copy[d], new)
      /\ \A p \in Parts[class] : Known(p, new[p])
  <2>1. CASE copy[d] = run[l].base
    <3>1. new = run[l].merged
      BY <2>1 DEF Rederived
    <3>2. DOMAIN copy[d] = Parts[class]
      BY <1>2 DEF Copies
    <3>3. \A p \in Parts[class] : new[p] = copy[d][p] \/ <<p, new[p]>> \in written
      BY <2>1, <3>1, <3>2, <1>3 DEF R!MayTake
    <3>4. new \in Copies
      BY <3>1, <1>2
    <3>5. R!MayTake(copy[d], new)
      BY <2>1, <3>1, <1>3
    <3>6. \A p \in Parts[class] : Known(p, new[p])
      BY <3>3, <1>4 DEF Known
    <3>7. QED
      BY <3>4, <3>5, <3>6
  <2>2. CASE copy[d] # run[l].base
    <3> DEFINE newer == t >= run[l].time
               merge == Merge(copy[d], run[l].got, newer)
    <3>1. new = merge
      BY <2>2 DEF Rederived
    <3>2. newer \in BOOLEAN /\ class # "data" /\ WrittenLate /\ class \in Classes
      BY <1>2, <1>3 DEF IInv, TypeOK
    <3> HIDE DEF newer
    <3>3. /\ merge \in Copies /\ R!MayTake(copy[d], merge)
          /\ \A p \in Parts[class] : Known(p, merge[p])
      BY <3>2, <1>2, <1>4, MergeTakes
    <3> HIDE DEF merge
    <3>4. QED
      BY <3>1, <3>3
  <2>3. QED
    BY <2>1, <2>2
<1>6. RunsOk /\ mtime' \in [Devices -> 0 .. MaxTime] /\ now' \in 0 .. MaxTime
  BY <1>1, <1>2, SettleOk, TimesType DEF TypeOK
<1> HIDE DEF d, new
<1>7. IInv' /\ R!Take(d)
  BY <1>1, <1>2, <1>5, <1>6, TakeInv
<1>8. QED
  BY <1>7 DEF d

-----------------------------------------------------------------------------
(* The invariant is inductive, and every step is one of Replicas'.         *)
LEMMA NextInv == IInv /\ [Next]_vars => IInv' /\ [R!Next]_(R!vars)
<1> SUFFICES ASSUME IInv, [Next]_vars PROVE IInv' /\ [R!Next]_(R!vars)
  OBVIOUS
<1>1. ASSUME NEW d \in Devices, NEW p \in Parts[class], NEW t \in Times, Edit(d, p, t)
      PROVE  IInv' /\ R!Next
  BY <1>1, EditInv DEF R!Next
<1>2. ASSUME NEW d \in Devices, NEW p \in Parts[class], NEW t \in Times, Clear(d, p, t)
      PROVE  IInv' /\ R!Next
  BY <1>2, ClearInv DEF R!Next
<1>3. ASSUME NEW l \in Links, Plan(l) \/ Fetch(l) \/ MergeSession(l) \/ Fail(l)
      PROVE  IInv' /\ UNCHANGED R!vars
  <2>1. IInv'
    BY <1>3, PlanInv, FetchInv, MergeInv, FailInv
  <2>2. UNCHANGED <<copy, written>>
    BY <1>3 DEF Plan, Fetch, MergeSession, Fail
  <2>3. QED
    BY <2>1, <2>2 DEF R!vars
<1>4. ASSUME NEW l \in Links, Install(l) PROVE IInv' /\ R!Next
  BY <1>4, InstallInv, LinkEnds DEF R!Next
<1>5. ASSUME NEW l \in Links, NEW t \in Times, WriteSession(l, t) PROVE IInv' /\ R!Next
  BY <1>5, WriteInv, LinkEnds DEF R!Next
<1>6. CASE UNCHANGED vars
  BY <1>6 DEF vars, R!vars, IInv, TypeOK, Copies, Runs, CopiesKnown, GotKnown, WrittenLate,
         FetchedData, MergedRight, Known, R!MayTake
<1>7. QED
  BY <1>1, <1>2, <1>3, <1>4, <1>5, <1>6 DEF Next

(* Every reachable state has its type (the manifests, the copies and the   *)
(* runs of client.rs).                                                     *)
THEOREM TypeCorrect == Spec => []TypeOK
<1>1. IInv => TypeOK
  BY DEF IInv
<1>2. QED
  BY InitInv, NextInv, <1>1, PTL DEF Spec

(* Syncing implements Replicas (diff.rs, apply.rs, session_merge.rs,       *)
(* bikelog.rs): however plans, fetches, installs, edits and failures       *)
(* interleave, no device takes a value nobody wrote, none that is older    *)
(* than its own, or another device's laps.                                 *)
THEOREM SyncImplementsReplicas == Spec => Replicated
<1>1. Init => R!Init
  <2>1. SUFFICES ASSUME Init PROVE R!Init
    OBVIOUS
  <2>2. \A d \in Devices : \A p \in DOMAIN copy[d] : copy[d][p] = Unset
    BY <2>1 DEF Init, Absent
  <2>3. QED
    BY <2>1, <2>2 DEF R!Init, Init
<1>2. QED
  BY InitInv, NextInv, <1>1, PTL DEF Spec, Replicated, R!Spec
-----------------------------------------------------------------------------
(* An edit that lands during a merge stays.  The clock is ahead of every   *)
(* value and, for a session, of every file's time and every claim of one, ...*)
WrittenBefore == \A p \in Parts[class] : \A v \in Value : <<p, v>> \in written => v.at <= now
FilesBefore ==
    class = "session" =>
        /\ \A d \in Devices : mtime[d] <= now
        /\ \A l \in Links : run[l].time <= now

(* ... a device holds nothing older than what was written there, ...       *)
OwnLatest ==
    \A p \in Parts[class] \cap Dated : p # "document" =>
        \A d \in Devices, t \in 0 .. MaxTime :
            <<p, [at |-> t, by |-> d]>> \in written => t <= copy[d][p].at

(* ... a merge holds the newer video link of the two it was made of, and a *)
(* link set since is no older than the one it was made of.                 *)
MergedNewest ==
    \A l \in Links : run[l].step = "merged" =>
        run[l].merged.video = Newer(run[l].base.video, run[l].got.video)
EditSeen ==
    \A l \in Links : run[l].step = "merged" =>
        LET mine == copy[Receiver(l)].video IN
        mine # run[l].base.video /\ mine.by = Receiver(l) => run[l].got.video.at <= mine.at

MergeInvariant == WrittenBefore /\ FilesBefore /\ OwnLatest /\ MergedNewest /\ EditSeen

(* A run that goes on as it was, and one that is over. *)
Same(k) == Carries(k) /\ run'[k].time = run[k].time /\ run'[k].way = run[k].way
Ended(k) == run'[k].step = "idle" /\ run'[k].time = 0 /\ ~run'[k].fresh

LEMMA UnsettleRuns ==
    TypeOK /\ Unsettle => done' = {} /\ \A k \in Links : Same(k) /\ ~run'[k].fresh
<1> SUFFICES ASSUME TypeOK, Unsettle
             PROVE  done' = {} /\ \A k \in Links : Same(k) /\ ~run'[k].fresh
  OBVIOUS
<1>1. ASSUME NEW k \in Links PROVE Same(k) /\ ~run'[k].fresh
  <2>1. run'[k] = [run[k] EXCEPT !.fresh = FALSE] /\ run[k] \in Runs
    BY DEF Unsettle, TypeOK
  <2>2. QED
    BY <2>1 DEF Same, Carries, Runs
<1>2. QED
  BY <1>1 DEF Unsettle

LEMMA EndRuns ==
    \A l \in Links, b \in BOOLEAN : TypeOK /\ End(l, b) =>
        /\ Ended(l) /\ \A k \in Links \ {l} : run'[k] = run[k]
        /\ done' = IF b /\ run[l].fresh THEN done \cup {l} ELSE done
  BY DEF End, Ended, Idle, TypeOK

LEMMA SettleRuns ==
    \A l \in Links : TypeOK /\ Settle(l) =>
        /\ Ended(l) /\ \A k \in Links \ {l} : Same(k)
        /\ \/ /\ run[l].fresh /\ \A k \in Links \ {l} : run'[k] = run[k]
              /\ done' = done \cup {l}
           \/ done' = {} /\ \A k \in Links : ~run'[k].fresh
<1> SUFFICES ASSUME NEW l \in Links, TypeOK, Settle(l)
             PROVE  /\ Ended(l) /\ \A k \in Links \ {l} : Same(k)
                    /\ \/ /\ run[l].fresh /\ \A k \in Links \ {l} : run'[k] = run[k]
                          /\ done' = done \cup {l}
                       \/ done' = {} /\ \A k \in Links : ~run'[k].fresh
  OBVIOUS
<1>1. CASE run[l].fresh
  BY <1>1, EndRuns DEF Settle, Same, Carries
<1>2. CASE ~run[l].fresh
  <2>1. /\ done' = {}
        /\ run' = [k \in Links |-> IF k = l THEN Idle ELSE [run[k] EXCEPT !.fresh = FALSE]]
    BY <1>2 DEF Settle
  <2>2. Ended(l)
    BY <2>1 DEF Ended, Idle
  <2>3. ASSUME NEW k \in Links, k # l PROVE Same(k) /\ ~run'[k].fresh
    <3>1. run'[k] = [run[k] EXCEPT !.fresh = FALSE] /\ run[k] \in Runs
      BY <2>1, <2>3 DEF TypeOK
    <3>2. QED
      BY <3>1 DEF Same, Carries, Runs
  <2>4. QED
    BY <2>1, <2>2, <2>3 DEF Ended
<1>3. QED
  BY <1>1, <1>2

LEMMA VideoPart == class = "session" => "video" \in Parts[class] /\ "video" \in Dated /\ "rider" \in Parts[class]
  BY DEF Parts, Dated

(* What a run carries is no newer than the clock. *)
LEMMA GotBefore ==
    ASSUME IInv, WrittenBefore, NEW l \in Links, NEW p \in Parts[class]
    PROVE  run[l].got[p].at <= now
<1>1. run[l].got[p] \in Value /\ Known(p, run[l].got[p]) /\ now \in Nat
  BY DEF IInv, TypeOK, Runs, Copies, GotKnown
<1>2. QED
  BY <1>1, UnsetIsValue DEF WrittenBefore, Known

LEMMA InitMerge == Init => MergeInvariant
<1> SUFFICES ASSUME Init PROVE MergeInvariant
  OBVIOUS
<1>1. \A l \in Links : run[l].step = "idle" /\ run[l].time = 0
  BY DEF Init, Idle
<1>2. written = {} /\ (class = "session" => now = 1 /\ \A d \in Devices : mtime[d] \in {0, 1})
  BY DEF Init
<1>3. QED
  BY <1>1, <1>2 DEF MergeInvariant, WrittenBefore, FilesBefore, OwnLatest, MergedNewest, EditSeen

(* Nothing is written or installed, and no merge is made. *)
LEMMA QuietMerge ==
    ASSUME IInv, MergeInvariant, UNCHANGED <<class, copy, mtime, now, written>>,
           \A k \in Links : run'[k] = run[k] \/ run'[k].step \notin {"merged"},
           class = "session" => \A k \in Links : run'[k].time <= now
    PROVE  MergeInvariant'
<1>1. WrittenBefore' /\ FilesBefore' /\ OwnLatest'
  BY DEF MergeInvariant, WrittenBefore, FilesBefore, OwnLatest
<1>2. MergedNewest' /\ EditSeen'
  BY DEF MergeInvariant, MergedNewest, EditSeen, Receiver
<1>3. QED
  BY <1>1, <1>2 DEF MergeInvariant

LEMMA PlanMerge == \A l \in Links : IInv /\ MergeInvariant /\ Plan(l) => MergeInvariant'
<1> SUFFICES ASSUME NEW l \in Links, IInv, MergeInvariant, Plan(l) PROVE MergeInvariant'
  OBVIOUS
<1> DEFINE way == Planned(l[1], l[2])
           time == IF way = "pull" THEN Claim(l[2]) ELSE 0
           new == [Idle EXCEPT !.step = "planned", !.way = way, !.fresh = TRUE, !.time = time]
<1>1. UNCHANGED <<class, copy, mtime, now, written>> /\ TypeOK /\ now \in Nat
  BY DEF Plan, IInv, TypeOK
<1>2. CASE run' = run
  BY <1>1, <1>2, QuietMerge DEF MergeInvariant, FilesBefore
<1>3. CASE run' = [run EXCEPT ![l] = new]
  <2>1. l[2] \in Devices
    BY DEF Links
  <2>2. class = "session" => time <= now
    BY <1>1, <2>1 DEF Claim, MergeInvariant, FilesBefore, TypeOK
  <2>3. new.step = "planned" /\ new.time = time
    BY DEF Idle
  <2> HIDE DEF new, time
  <2>4. run'[l] = new /\ \A k \in Links \ {l} : run'[k] = run[k]
    BY <1>1, <1>3 DEF TypeOK
  <2>5. class = "session" => \A k \in Links : run'[k].time <= now
    BY <2>2, <2>3, <2>4 DEF MergeInvariant, FilesBefore
  <2>6. QED
    BY <1>1, <2>3, <2>4, <2>5, QuietMerge
<1>4. QED
  BY <1>2, <1>3 DEF Plan

LEMMA FetchMerge == \A l \in Links : IInv /\ MergeInvariant /\ Fetch(l) => MergeInvariant'
<1> SUFFICES ASSUME NEW l \in Links, IInv, MergeInvariant, Fetch(l) PROVE MergeInvariant'
  OBVIOUS
<1>1. UNCHANGED <<class, copy, mtime, now, written>> /\ TypeOK
  BY DEF Fetch, IInv
<1>2. run'[l].step = "fetched" /\ run'[l].time = run[l].time
      /\ \A k \in Links \ {l} : run'[k] = run[k]
  BY <1>1 DEF Fetch, TypeOK, Runs
<1>3. QED
  BY <1>1, <1>2, QuietMerge DEF MergeInvariant, FilesBefore

LEMMA FailMerge == \A l \in Links : IInv /\ MergeInvariant /\ Fail(l) => MergeInvariant'
<1> SUFFICES ASSUME NEW l \in Links, IInv, MergeInvariant, Fail(l) PROVE MergeInvariant'
  OBVIOUS
<1>1. UNCHANGED <<class, copy, mtime, now, written>> /\ TypeOK /\ now \in Nat
  BY DEF Fail, IInv, TypeOK
<1>2. Ended(l) /\ \A k \in Links \ {l} : run'[k] = run[k]
  BY <1>1, EndRuns DEF Fail
<1>3. QED
  BY <1>1, <1>2, QuietMerge DEF MergeInvariant, FilesBefore, Ended

(* The merge is made of the copy the receiver has then. *)
LEMMA SessionMerge == \A l \in Links : IInv /\ MergeInvariant /\ MergeSession(l) => MergeInvariant'
<1> SUFFICES ASSUME NEW l \in Links, IInv, MergeInvariant, MergeSession(l) PROVE MergeInvariant'
  OBVIOUS
<1> DEFINE mine == copy[Receiver(l)]
           newer == mtime[Receiver(l)] >= run[l].time
           merged == Merge(mine, run[l].got, newer)
<1>1. UNCHANGED <<class, copy, mtime, now, written>> /\ TypeOK /\ class = "session"
  BY DEF MergeSession, IInv
<1>2. /\ run'[l] = [run[l] EXCEPT !.step = "merged", !.base = mine, !.merged = merged]
      /\ run[l] \in Runs /\ \A k \in Links \ {l} : run'[k] = run[k]
  BY <1>1 DEF MergeSession, TypeOK
<1>3. DOMAIN mine = Parts[class]
  BY <1>1, LinkEnds DEF TypeOK, Copies
<1>4. merged.video = MergedPart("video", mine.video, run[l].got.video, newer)
  BY <1>1, <1>3, VideoPart DEF Merge
<1>5. merged.video = Newer(mine.video, run[l].got.video)
  BY <1>4 DEF MergedPart
<1> HIDE DEF mine, newer, merged
<1>6. /\ run'[l].merged = merged /\ run'[l].base = mine /\ run'[l].got = run[l].got
      /\ run'[l].time = run[l].time /\ run'[l].way = run[l].way
  BY <1>2 DEF Runs
<1>7. WrittenBefore' /\ FilesBefore' /\ OwnLatest'
  BY <1>1, <1>2, <1>6 DEF MergeInvariant, WrittenBefore, FilesBefore, OwnLatest
<1>8. \A k \in Links \ {l} : run'[k] = run[k]
  BY <1>2
<1>9. MergedNewest'
  <2>1. run'[l].merged.video = Newer(run'[l].base.video, run'[l].got.video)
    BY <1>5, <1>6
  <2>2. QED
    BY <1>8, <2>1 DEF MergeInvariant, MergedNewest
<1>10. EditSeen'
  <2>1. Receiver(l)' = Receiver(l)
    BY <1>6 DEF Receiver
  <2>2. copy'[Receiver(l)'].video = run'[l].base.video
    BY <1>1, <1>6, <2>1 DEF mine
  <2>3. \A k \in Links \ {l} : Receiver(k)' = Receiver(k)
    BY <1>8 DEF Receiver
  <2>4. QED
    BY <1>1, <1>8, <2>2, <2>3 DEF MergeInvariant, EditSeen
<1>11. QED
  BY <1>7, <1>9, <1>10 DEF MergeInvariant

LEMMA TimesAhead ==
    ASSUME TypeOK, NEW t \in Times PROVE t \in Nat /\ now \in Nat /\ t >= now
  BY DEF TypeOK, Times

(* Every file a step may have touched has the new time, at most. *)
LEMMA TouchBefore ==
    ASSUME IInv, MergeInvariant, NEW t \in Times, class' = class, now' = t,
           \A e \in Devices : mtime'[e] \in {mtime[e], t},
           \A k \in Links : run'[k].time \in {run[k].time, 0}
    PROVE  FilesBefore'
<1>1. SUFFICES ASSUME class = "session"
               PROVE  /\ \A d \in Devices : mtime'[d] <= t
                      /\ \A l \in Links : run'[l].time <= t
  BY DEF FilesBefore
<1>2. t \in Nat /\ now \in Nat /\ t >= now
  BY TimesAhead DEF IInv
<1>3. /\ \A d \in Devices : mtime[d] <= now /\ mtime[d] \in Nat
      /\ \A l \in Links : run[l].time <= now /\ run[l].time \in Nat
  BY <1>1 DEF MergeInvariant, FilesBefore, IInv, TypeOK, Runs
<1>4. QED
  BY <1>2, <1>3

LEMMA EditMerge ==
    \A d \in Devices, p \in Parts[class], t \in Times :
        IInv /\ MergeInvariant /\ Edit(d, p, t) => MergeInvariant'
<1> SUFFICES ASSUME NEW d \in Devices, NEW p \in Parts[class], NEW t \in Times,
                    IInv, MergeInvariant, Edit(d, p, t)
             PROVE  MergeInvariant'
  OBVIOUS
<1> DEFINE v == [at |-> t, by |-> d]
<1>1. /\ copy' = [copy EXCEPT ![d][p] = v]
      /\ written' = written \cup {<<p, v>>}
      /\ now' = t /\ class' = class /\ Touch(d, t) /\ TypeOK
  BY DEF Edit, IInv
<1>2. t \in Nat /\ now \in Nat /\ t >= now
  BY <1>1, TimesAhead
<1>3. \A k \in Links : Same(k)
  BY <1>1, UnsettleRuns DEF Edit
<1>4. \A e \in Devices, q \in Parts[class] :
          copy'[e][q] = IF e = d /\ q = p THEN v ELSE copy[e][q]
  BY <1>1 DEF TypeOK, Copies
<1>5. \A q \in Parts[class] : \A u \in Value : <<q, u>> \in written => u.at <= t
  BY <1>2 DEF MergeInvariant, WrittenBefore, Value
<1>6. WrittenBefore'
  BY <1>1, <1>2, <1>5 DEF WrittenBefore
<1>7. FilesBefore'
  <2>1. \A e \in Devices : mtime'[e] \in {mtime[e], t}
    BY <1>1 DEF Touch, TypeOK
  <2>2. QED
    BY <1>1, <1>3, <2>1, TouchBefore DEF Same
<1>8. OwnLatest'
  <2>1. SUFFICES ASSUME NEW q \in Parts[class] \cap Dated, q # "document", NEW e \in Devices,
                        NEW u \in 0 .. MaxTime, <<q, [at |-> u, by |-> e]>> \in written'
                 PROVE  u <= copy'[e][q].at
    BY <1>1 DEF OwnLatest
  <2>2. CASE e = d /\ q = p
    <3>1. copy'[e][q].at = t
      BY <1>4, <2>2
    <3>2. [at |-> u, by |-> e] \in Value
      BY DEF Value
    <3>3. u <= t
      BY <1>1, <1>2, <1>5, <2>1, <3>2
    <3>4. QED
      BY <3>1, <3>3
  <2>3. CASE ~(e = d /\ q = p)
    <3>1. copy'[e][q] = copy[e][q]
      BY <1>4, <2>3
    <3>2. <<q, [at |-> u, by |-> e]>> \in written
      BY <1>1, <2>1, <2>3
    <3>3. QED
      BY <2>1, <3>1, <3>2 DEF MergeInvariant, OwnLatest
  <2>4. QED
    BY <2>2, <2>3
<1>9. MergedNewest'
  BY <1>3 DEF MergeInvariant, MergedNewest, Same, Carries
<1>10. EditSeen'
  <2>1. SUFFICES ASSUME NEW l \in Links, run[l].step = "merged",
                        copy'[Receiver(l)].video # run[l].base.video,
                        copy'[Receiver(l)].video.by = Receiver(l)
                 PROVE  run[l].got.video.at <= copy'[Receiver(l)].video.at
    <3>1. \A l \in Links : Receiver(l)' = Receiver(l)
      BY <1>3 DEF Receiver, Same
    <3>2. QED
      BY <1>3, <2>1, <3>1 DEF EditSeen, Same, Carries
  <2>2. class = "session" /\ "video" \in Parts[class] /\ Receiver(l) \in Devices
    BY <2>1, VideoPart, LinkEnds DEF IInv, MergedRight
  <2>3. CASE copy'[Receiver(l)].video = copy[Receiver(l)].video
    BY <2>1, <2>3 DEF MergeInvariant, EditSeen
  <2>4. CASE copy'[Receiver(l)].video = v
    <3>1. run[l].got.video \in Value /\ run[l].got.video.at <= now
      BY <2>2, GotBefore DEF MergeInvariant, IInv, TypeOK, Runs, Copies
    <3>2. QED
      BY <1>2, <2>4, <3>1 DEF Value
  <2>5. QED
    BY <1>4, <2>2, <2>3, <2>4
<1>11. QED
  BY <1>6, <1>7, <1>8, <1>9, <1>10 DEF MergeInvariant

LEMMA ClearMerge ==
    \A d \in Devices, p \in Parts[class], t \in Times :
        IInv /\ MergeInvariant /\ Clear(d, p, t) => MergeInvariant'
<1> SUFFICES ASSUME NEW d \in Devices, NEW p \in Parts[class], NEW t \in Times,
                    IInv, MergeInvariant, Clear(d, p, t)
             PROVE  MergeInvariant'
  OBVIOUS
<1>1. /\ copy' = [copy EXCEPT ![d][p] = Unset] /\ p \in {"document", "rider"}
      /\ now' = (IF class = "session" THEN t ELSE now) /\ Touch(d, t)
      /\ class' = class /\ written' = written /\ TypeOK
  BY DEF Clear, IInv
<1>2. t \in Nat /\ now \in Nat /\ t >= now
  BY <1>1, TimesAhead
<1>3. \A k \in Links : Same(k) /\ Receiver(k)' = Receiver(k)
  BY <1>1, UnsettleRuns DEF Clear, Same, Receiver
<1>4. \A e \in Devices, q \in Parts[class] : q # p => copy'[e][q] = copy[e][q]
  BY <1>1 DEF TypeOK, Copies
<1>5. WrittenBefore'
  BY <1>1, <1>2 DEF MergeInvariant, WrittenBefore, Value
<1>6. FilesBefore'
  <2>1. \A e \in Devices : mtime'[e] \in {mtime[e], t}
    BY <1>1 DEF Touch, TypeOK
  <2>2. CASE class = "session"
    BY <1>1, <1>3, <2>1, <2>2, TouchBefore DEF Same
  <2>3. CASE class # "session"
    BY <1>1, <2>3 DEF FilesBefore
  <2>4. QED
    BY <2>2, <2>3
<1>7. OwnLatest'
  <2>1. \A q \in Parts[class] \cap Dated : q # "document" => q # p
    BY <1>1 DEF Dated
  <2>2. QED
    BY <1>1, <1>4, <2>1 DEF MergeInvariant, OwnLatest
<1>8. MergedNewest'
  BY <1>3 DEF MergeInvariant, MergedNewest, Same, Carries
<1>9. EditSeen'
  <2>1. \A l \in Links : run[l].step = "merged" =>
            copy'[Receiver(l)].video = copy[Receiver(l)].video
    BY <1>1, <1>4, VideoPart, LinkEnds DEF IInv, MergedRight
  <2>2. QED
    BY <1>3, <2>1 DEF MergeInvariant, EditSeen, Same, Carries
<1>10. QED
  BY <1>5, <1>6, <1>7, <1>8, <1>9 DEF MergeInvariant

(* Taking never makes a device's copy older. *)
LEMMA TakeOwn ==
    ASSUME IInv, OwnLatest, NEW d \in Devices, R!Take(d), class' = class, IInv'
    PROVE  OwnLatest'
<1>1. SUFFICES ASSUME NEW q \in Parts[class] \cap Dated, q # "document", NEW e \in Devices,
                      NEW u \in 0 .. MaxTime, <<q, [at |-> u, by |-> e]>> \in written'
               PROVE  u <= copy'[e][q].at
  BY DEF OwnLatest
<1>2. copy' = [copy EXCEPT ![d] = copy'[d]] /\ written' = written
      /\ R!MayTake(copy[d], copy'[d])
  BY DEF R!Take
<1>3. /\ copy \in [Devices -> Copies] /\ copy[e][q] \in Value /\ copy'[e][q] \in Value
      /\ DOMAIN copy[e] = Parts[class]
  BY DEF IInv, TypeOK, Copies
<1>4. copy'[e][q].at >= copy[e][q].at
  <2>1. CASE e = d
    <3>1. \/ copy'[d][q] = copy[d][q]
          \/ copy'[d][q].at >= copy[d][q].at
      BY <1>2, <1>3, <2>1 DEF R!MayTake
    <3>2. copy[d][q].at \in Nat
      BY <1>3, <2>1 DEF Value
    <3>3. QED
      BY <2>1, <3>1, <3>2
  <2>2. CASE e # d
    BY <1>2, <1>3, <2>2 DEF Value
  <2>3. QED
    BY <2>1, <2>2
<1>5. u <= copy[e][q].at
  BY <1>1, <1>2 DEF OwnLatest
<1>6. QED
  BY <1>3, <1>4, <1>5 DEF Value

LEMMA InstallMerge == \A l \in Links : IInv /\ MergeInvariant /\ Install(l) => MergeInvariant'
<1> SUFFICES ASSUME NEW l \in Links, IInv, MergeInvariant, Install(l) PROVE MergeInvariant'
  OBVIOUS
<1>1. class # "session" /\ UNCHANGED <<class, now, written>> /\ IInv' /\ R!Take(Receiver(l))
  BY InstallInv DEF Install
<1>2. OwnLatest'
  BY <1>1, TakeOwn, LinkEnds DEF MergeInvariant
<1>3. \A k \in Links : run'[k].step # "merged"
  BY <1>1 DEF IInv, MergedRight
<1>4. WrittenBefore' /\ FilesBefore' /\ MergedNewest' /\ EditSeen'
  BY <1>1, <1>3 DEF MergeInvariant, WrittenBefore, FilesBefore, MergedNewest, EditSeen
<1>5. QED
  BY <1>2, <1>4 DEF MergeInvariant

(* Whichever merge is written, the newer video link is in it.              *)
LEMMA VideoWritten ==
    \A l \in Links, t \in Times : IInv /\ MergeInvariant /\ WriteSession(l, t) =>
        copy'[Receiver(l)].video = Newer(copy[Receiver(l)].video, run[l].got.video)
<1> SUFFICES ASSUME NEW l \in Links, NEW t \in Times,
                    IInv, MergeInvariant, WriteSession(l, t)
             PROVE  copy'[Receiver(l)].video
                        = Newer(copy[Receiver(l)].video, run[l].got.video)
  OBVIOUS
<1> DEFINE mine == copy[Receiver(l)]
<1>1. run[l].step = "merged" /\ class = "session" /\ Receiver(l) \in Devices
      /\ copy \in [Devices -> Copies]
  BY LinkEnds DEF WriteSession, IInv, MergedRight, TypeOK
<1>2. copy'[Receiver(l)] = Rederived(l, t) /\ DOMAIN mine = Parts[class]
  BY <1>1 DEF WriteSession, Copies
<1>3. CASE mine = run[l].base
  BY <1>1, <1>2, <1>3 DEF Rederived, MergeInvariant, MergedNewest
<1>4. CASE mine # run[l].base
  <2> DEFINE newer == t >= run[l].time
  <2>1. copy'[Receiver(l)] = Merge(mine, run[l].got, newer)
    BY <1>2, <1>4 DEF Rederived
  <2>2. copy'[Receiver(l)].video = MergedPart("video", mine.video, run[l].got.video, newer)
    BY <1>1, <1>2, <2>1, VideoPart DEF Merge
  <2>3. QED
    BY <2>2 DEF MergedPart
<1>5. QED
  BY <1>3, <1>4

LEMMA WriteMerge ==
    \A l \in Links, t \in Times : IInv /\ MergeInvariant /\ WriteSession(l, t) => MergeInvariant'
<1> SUFFICES ASSUME NEW l \in Links, NEW t \in Times,
                    IInv, MergeInvariant, WriteSession(l, t)
             PROVE  MergeInvariant'
  OBVIOUS
<1> DEFINE d == Receiver(l)
           theirs == run[l].got.video
<1>1. /\ run[l].step = "merged" /\ Settle(l) /\ mtime' = [mtime EXCEPT ![d] = t]
      /\ now' = t /\ UNCHANGED <<class, written>> /\ TypeOK /\ class = "session"
      /\ IInv' /\ R!Take(d) /\ d \in Devices
  BY WriteInv, LinkEnds DEF WriteSession, IInv, MergedRight
<1>2. t \in Nat /\ now \in Nat /\ t >= now
  BY <1>1, TimesAhead
<1>3. Ended(l) /\ \A k \in Links \ {l} : Same(k) /\ Receiver(k)' = Receiver(k)
  BY <1>1, SettleRuns DEF Same, Receiver
<1>4. WrittenBefore'
  BY <1>1, <1>2 DEF MergeInvariant, WrittenBefore, Value
<1>5. FilesBefore'
  <2>1. \A e \in Devices : mtime'[e] \in {mtime[e], t}
    BY <1>1 DEF TypeOK
  <2>2. QED
    BY <1>1, <1>3, <2>1, TouchBefore DEF Same, Ended
<1>6. OwnLatest'
  BY <1>1, TakeOwn DEF MergeInvariant
<1>7. MergedNewest'
  BY <1>3 DEF MergeInvariant, MergedNewest, Same, Carries, Ended
<1>8. EditSeen'
  <2>1. SUFFICES ASSUME NEW k \in Links \ {l}, run[k].step = "merged",
                        copy'[Receiver(k)].video # run[k].base.video,
                        copy'[Receiver(k)].video.by = Receiver(k)
                 PROVE  run[k].got.video.at <= copy'[Receiver(k)].video.at
    BY <1>3 DEF EditSeen, Same, Carries, Ended
  <2>2. copy'[Receiver(k)].video = copy[Receiver(k)].video
    <3>1. CASE Receiver(k) # d
      <4>1. copy' = [copy EXCEPT ![d] = copy'[d]]
        BY <1>1 DEF R!Take
      <4>2. QED
        BY <3>1, <4>1, <1>1, LinkEnds DEF TypeOK
    <3>2. CASE Receiver(k) = d
      <4>1. copy'[d].video = Newer(copy[d].video, theirs)
        BY VideoWritten
      <4>2. CASE theirs.at > copy[d].video.at
        <5>1. "video" \in Parts[class] /\ "video" \in Dated
          BY <1>1, VideoPart
        <5>2. theirs \in Value /\ copy[d].video \in Value /\ Known("video", theirs)
          BY <1>1, <5>1 DEF TypeOK, Runs, Copies, IInv, GotKnown
        <5>3. theirs.by = d
          BY <2>1, <3>2, <4>1, <4>2 DEF Newer
        <5>4. theirs # Unset
          BY <1>1, <5>3 DEF Unset
        <5>5. theirs = [at |-> theirs.at, by |-> d] /\ theirs.at \in 0 .. MaxTime
          BY <5>2, <5>3 DEF Value
        <5>6. theirs.at <= copy[d].video.at
          BY <1>1, <5>1, <5>2, <5>4, <5>5 DEF Known, MergeInvariant, OwnLatest
        <5>7. QED
          BY <4>2, <5>2, <5>6 DEF Value
      <4>3. CASE ~(theirs.at > copy[d].video.at)
        BY <3>2, <4>1, <4>3 DEF Newer
      <4>4. QED
        BY <4>2, <4>3
    <3>3. QED
      BY <3>1, <3>2
  <2>3. QED
    BY <2>1, <2>2 DEF MergeInvariant, EditSeen
<1>9. QED
  BY <1>4, <1>5, <1>6, <1>7, <1>8 DEF MergeInvariant

LEMMA NextMerge == IInv /\ MergeInvariant /\ [Next]_vars => MergeInvariant'
<1> SUFFICES ASSUME IInv, MergeInvariant, [Next]_vars PROVE MergeInvariant'
  OBVIOUS
<1>1. CASE UNCHANGED vars
  BY <1>1 DEF vars, MergeInvariant, WrittenBefore, FilesBefore, OwnLatest, MergedNewest,
         EditSeen, Receiver
<1>2. CASE Next
  BY <1>2, EditMerge, ClearMerge, PlanMerge, FetchMerge, InstallMerge, SessionMerge,
     FailMerge, WriteMerge DEF Next
<1>3. QED
  BY <1>1, <1>2

(* No step but its write, or its failure, ends a merge. *)
LEMMA MergeEnds ==
    ASSUME IInv, Next, NEW l \in Links, run[l].step = "merged", run'[l].step = "idle"
    PROVE  (\E t \in Times : WriteSession(l, t)) \/ UNCHANGED copy
<1>1. TypeOK /\ class = "session"
  BY DEF IInv, MergedRight
<1>2. ASSUME NEW d \in Devices, NEW p \in Parts[class], NEW t \in Times,
             Edit(d, p, t) \/ Clear(d, p, t)
      PROVE  FALSE
  BY <1>1, <1>2, UnsettleRuns DEF Edit, Clear, Same, Carries
<1>3. ASSUME NEW k \in Links, Plan(k) \/ Fetch(k) \/ MergeSession(k) \/ Fail(k)
      PROVE  UNCHANGED copy
  BY <1>3 DEF Plan, Fetch, MergeSession, Fail
<1>4. ASSUME NEW k \in Links, Install(k) PROVE FALSE
  BY <1>1, <1>4 DEF Install
<1>5. ASSUME NEW k \in Links, NEW t \in Times, WriteSession(k, t) PROVE k = l
  BY <1>1, <1>5, SettleRuns DEF WriteSession, Same, Carries
<1>6. QED
  BY <1>2, <1>3, <1>4, <1>5 DEF Next

(* A part the device set itself is kept by the merge made again.           *)
LEMMA OwnEditKept ==
    ASSUME IInv, MergeInvariant, NEW l \in Links, NEW t \in Times, WriteSession(l, t),
           NEW p \in Parts[class], copy[Receiver(l)][p] # run[l].base[p],
           copy[Receiver(l)][p].by = Receiver(l)
    PROVE  copy'[Receiver(l)][p] = copy[Receiver(l)][p]
<1> DEFINE d == Receiver(l)
           newer == t >= run[l].time
<1>1. /\ run[l].step = "merged" /\ class = "session" /\ d \in Devices
      /\ copy \in [Devices -> Copies] /\ copy[d] # run[l].base
  BY LinkEnds DEF WriteSession, IInv, MergedRight, TypeOK
<1>2. DOMAIN copy[d] = Parts[class] /\ Parts[class] = {"rider", "video", "laps"}
  BY <1>1 DEF Copies, Parts
<1>3. copy'[d] = Merge(copy[d], run[l].got, newer)
  BY <1>1 DEF WriteSession, Rederived
<1>4. copy'[d][p] = MergedPart(p, copy[d][p], run[l].got[p], newer)
  BY <1>2, <1>3 DEF Merge
<1>5. CASE p = "laps"
  BY <1>4, <1>5 DEF MergedPart
<1>6. CASE p = "rider"
  <2>1. newer
    <3>1. t >= now /\ t \in Nat /\ now \in Nat /\ run[l].time \in Nat
      BY TimesAhead DEF IInv, TypeOK, Runs
    <3>2. run[l].time <= now
      BY <1>1 DEF MergeInvariant, FilesBefore
    <3>3. QED
      BY <3>1, <3>2
  <2>2. copy[d][p] # Unset
    BY <1>1 DEF Unset
  <2>3. QED
    BY <1>4, <1>6, <2>1, <2>2 DEF MergedPart, MergeField
<1>7. CASE p = "video"
  <2>1. run[l].got.video.at <= copy[d].video.at
    BY <1>1, <1>7 DEF MergeInvariant, EditSeen
  <2>2. run[l].got.video \in Value /\ copy[d].video \in Value
    BY <1>1, <1>7 DEF IInv, TypeOK, Runs, Copies
  <2>3. ~(run[l].got.video.at > copy[d].video.at)
    BY <2>1, <2>2 DEF Value
  <2>4. QED
    BY <1>4, <1>7, <2>3 DEF MergedPart, Newer
<1>8. QED
  BY <1>2, <1>5, <1>6, <1>7

(* An edit of a session's field, video link or laps between a merge's read *)
(* and its write survives the write (rederive_session_json_write of        *)
(* apply.rs), with any devices and any times, ties included.               *)
THEOREM EditsSurviveMerges == Spec => EditDuringMergeStays
<1> DEFINE Stays ==
        \A l \in Links : run[l].step = "merged" /\ run'[l].step = "idle" =>
            LET d == Receiver(l) IN
            \A p \in Parts[class] :
                copy[d][p] # run[l].base[p] /\ copy[d][p].by = d
                    => copy'[d][p] = copy[d][p]
<1>1. IInv /\ MergeInvariant /\ [Next]_vars => [Stays]_vars
  <2>1. SUFFICES ASSUME IInv, MergeInvariant, Next PROVE Stays
    OBVIOUS
  <2>2. QED
    BY <2>1, MergeEnds, OwnEditKept
<1>2. QED
  BY InitInv, NextInv, InitMerge, NextMerge, <1>1, PTL DEF Spec, EditDuringMergeStays

-----------------------------------------------------------------------------
(* Convergence of what is dated, when no two changes share a millisecond:  *)
(* a time belongs to one change of a part, ...                             *)
OneChangeAtATime ==
    \A p \in Parts[class] : \A u, v \in Value :
        <<p, u>> \in written /\ <<p, v>> \in written /\ u.at = v.at => u = v

(* ... a session without a file has no fields, ...                         *)
NoFileNoFields ==
    class = "session" => \A d \in Devices : mtime[d] = 0 => copy[d] = Absent(class)

(* ... and of every dated part some device w holds the newest there is; a  *)
(* run with w that has seen the last edit brings just that, so a device    *)
(* that finished such a run holds it too.                                  *)
Brings(l) == run[l].fresh /\ run[l].step \in {"fetched", "merged"}
Newest(w, p) ==
    /\ \A d \in Devices : copy[d][p].at <= copy[w][p].at
    /\ \A l \in Links : Brings(l) => run[l].got[p].at <= copy[w][p].at
    /\ \A l \in Links : l[2] = w =>
          /\ l \in done => copy[l[1]][p].at = copy[w][p].at
          /\ Brings(l) => run[l].got[p].at = copy[w][p].at
          /\ run[l].fresh /\ run[l].way = "push" => copy[w][p].at = 0
Settling ==
    Devices # {} => \A p \in Parts[class] \cap Dated : \E w \in Devices : Newest(w, p)

SettlingInvariant == OneChangeAtATime /\ NoFileNoFields /\ Settling

LEMMA TimesOfParts ==
    ASSUME IInv, NEW p \in Parts[class]
    PROVE  /\ \A d \in Devices : copy[d][p] \in Value /\ copy[d][p].at \in Nat
           /\ \A l \in Links : run[l].got[p] \in Value /\ run[l].got[p].at \in Nat
<1>1. \A v \in Value : v.at \in Nat
  BY DEF Value
<1>2. /\ \A d \in Devices : copy[d][p] \in Value
      /\ \A l \in Links : run[l].got[p] \in Value
  BY DEF IInv, TypeOK, Runs, Copies
<1>3. QED
  BY <1>1, <1>2

LEMMA DatedClasses ==
    ASSUME class \in Classes, NEW p \in Parts[class] \cap Dated
    PROVE  \/ class = "track" /\ p = "document"
           \/ class = "bike" /\ p \in {"name", "note"}
           \/ class = "session" /\ p = "video"
<1>1. class \in {"track", "bike", "session", "data"}
  OBVIOUS
<1>2. /\ Parts.track = {"document"} /\ Parts.bike = {"name", "note"}
      /\ Parts.session = {"rider", "video", "laps"} /\ Parts.data = {"columns"}
  BY DEF Parts
<1>3. CASE class = "track"
  BY <1>2, <1>3
<1>4. CASE class = "bike"
  BY <1>2, <1>4
<1>5. CASE class = "session"
  BY <1>2, <1>5 DEF Dated
<1>6. CASE class = "data"
  BY <1>2, <1>6 DEF Dated
<1>7. QED
  BY <1>1, <1>3, <1>4, <1>5, <1>6

(* What a copy that is not there holds. *)
LEMMA AbsentTime ==
    ASSUME IInv, NoFileNoFields, NEW d \in Devices, ~Present(d), NEW p \in Parts[class]
    PROVE  copy[d][p].at = 0
<1>1. copy[d] = Absent(class)
  <2>1. CASE class = "session"
    BY <2>1 DEF Present, NoFileNoFields, IInv, TypeOK
  <2>2. CASE class # "session"
    BY <2>2 DEF Present
  <2>3. QED
    BY <2>1, <2>2
<1>2. QED
  BY <1>1, UnsetIsValue DEF Absent

(* A plan with nothing to do, and one to push, say how the copies compare. *)
LEMMA PlanCompares ==
    ASSUME IInv, NoFileNoFields, NEW d \in Devices, NEW e \in Devices,
           NEW p \in Parts[class] \cap Dated
    PROVE  /\ Planned(d, e) = "nothing" => copy[d][p].at = copy[e][p].at
           /\ Planned(d, e) = "push" => copy[e][p].at = 0 \/ copy[e][p].at < copy[d][p].at
<1>1. copy[d][p].at \in Nat /\ copy[e][p].at \in Nat
  BY TimesOfParts
<1>2. CASE ~Present(d) \/ ~Present(e)
  BY <1>2, AbsentTime DEF Planned
<1>3. CASE Present(d) /\ Present(e)
  <2>1. CASE class \in {"bike", "session"}
    BY <1>3, <2>1 DEF Planned, ByContent
  <2>2. CASE class = "track" /\ p = "document"
    <3>1. Planned(d, e) = ByTime(d, e)
      BY <1>3, <2>2 DEF Planned
    <3>2. ByTime(d, e) = IF copy[d].document.at < copy[e].document.at THEN "pull"
                         ELSE IF copy[d].document.at > copy[e].document.at THEN "push"
                         ELSE "nothing"
      BY <2>2 DEF ByTime
    <3>3. QED
      BY <1>1, <2>2, <3>1, <3>2
  <2>3. QED
    BY <2>1, <2>2, DatedClasses DEF IInv, TypeOK
<1>4. QED
  BY <1>2, <1>3

LEMMA LinkIs ==
    ASSUME NEW l \in Links PROVE l = <<l[1], l[2]>> /\ l[1] \in Devices /\ l[2] \in Devices
  BY DEF Links

LEMMA PlanNewest ==
    ASSUME IInv, NoFileNoFields, NEW l \in Links, Plan(l),
           NEW p \in Parts[class] \cap Dated, NEW w \in Devices, Newest(w, p)
    PROVE  Newest(w, p)'
<1> DEFINE way == Planned(l[1], l[2])
           time == IF way = "pull" THEN Claim(l[2]) ELSE 0
           new == [Idle EXCEPT !.step = "planned", !.way = way, !.fresh = TRUE, !.time = time]
<1>1. UNCHANGED copy /\ TypeOK /\ l[1] \in Devices /\ l[2] \in Devices
  BY LinkIs DEF Plan, IInv
<1>2. \A d \in Devices : copy[d][p].at \in Nat
  BY TimesOfParts
<1>3. CASE way = "nothing"
  <2>1. run' = run /\ done' = done \cup {l}
    BY <1>3 DEF Plan
  <2>2. copy[l[1]][p].at = copy[l[2]][p].at
    BY <1>1, <1>3, PlanCompares
  <2>3. QED
    BY <1>1, <2>1, <2>2 DEF Newest, Brings
<1>4. CASE way # "nothing"
  <2>1. run' = [run EXCEPT ![l] = new] /\ done' = done \ {l}
    BY <1>4 DEF Plan
  <2>2. new.step = "planned" /\ new.way = way
    BY DEF Idle
  <2>3. way = "push" /\ l[2] = w => copy[w][p].at = 0
    BY <1>1, <1>2, PlanCompares DEF Newest
  <2> HIDE DEF new, way
  <2>4. run'[l] = new /\ \A k \in Links \ {l} : run'[k] = run[k]
    BY <1>1, <2>1 DEF TypeOK
  <2>5. ~Brings(l)' /\ \A k \in Links \ {l} : Brings(k)' = Brings(k)
    BY <2>2, <2>4 DEF Brings
  <2>6. QED
    BY <1>1, <2>1, <2>2, <2>3, <2>4, <2>5 DEF Newest
<1>5. QED
  BY <1>3, <1>4

LEMMA FetchNewest ==
    ASSUME IInv, NEW l \in Links, Fetch(l),
           NEW p \in Parts[class] \cap Dated, NEW w \in Devices, Newest(w, p)
    PROVE  Newest(w, p)'
<1>1. UNCHANGED <<copy, done>> /\ TypeOK /\ Sender(l) \in Devices
      /\ l[1] \in Devices /\ l[2] \in Devices
  BY LinkEnds, LinkIs DEF Fetch, IInv
<1>2. \A d \in Devices : copy[d][p].at \in Nat
  BY TimesOfParts
<1>3. /\ run'[l].got = copy[Sender(l)] /\ run'[l].step = "fetched"
      /\ run'[l].fresh = run[l].fresh /\ run'[l].way = run[l].way
      /\ \A k \in Links \ {l} : run'[k] = run[k]
  BY <1>1 DEF Fetch, TypeOK, Runs
<1>4. copy[Sender(l)][p].at <= copy[w][p].at
  BY <1>1 DEF Newest
<1>5. run[l].fresh /\ l[2] = w => copy[Sender(l)][p].at = copy[w][p].at
  <2>1. SUFFICES ASSUME run[l].fresh, l[2] = w PROVE copy[Sender(l)][p].at = copy[w][p].at
    OBVIOUS
  <2>2. CASE run[l].way = "pull"
    BY <2>1, <2>2 DEF Sender
  <2>3. CASE run[l].way # "pull"
    <3>1. run[l].way = "push"
      BY <1>1, <2>3 DEF TypeOK, Runs
    <3>2. copy[w][p].at = 0
      BY <2>1, <3>1 DEF Newest
    <3>3. QED
      BY <1>1, <1>2, <1>4, <3>2
  <2>4. QED
    BY <2>2, <2>3
<1>6. \A k \in Links \ {l} : Brings(k)' = Brings(k)
  BY <1>3 DEF Brings
<1>7. QED
  BY <1>1, <1>3, <1>4, <1>5, <1>6 DEF Newest, Brings

LEMMA MergeNewest ==
    ASSUME IInv, NEW l \in Links, MergeSession(l),
           NEW p \in Parts[class] \cap Dated, NEW w \in Devices, Newest(w, p)
    PROVE  Newest(w, p)'
<1>1. UNCHANGED <<copy, done>> /\ TypeOK /\ run[l].step = "fetched"
  BY DEF MergeSession, IInv
<1>2. /\ run'[l].got = run[l].got /\ run'[l].step = "merged"
      /\ run'[l].fresh = run[l].fresh /\ run'[l].way = run[l].way
      /\ \A k \in Links \ {l} : run'[k] = run[k]
  BY <1>1 DEF MergeSession, TypeOK, Runs
<1>3. \A k \in Links : Brings(k)' = Brings(k) /\ run'[k].got = run[k].got
                       /\ run'[k].fresh = run[k].fresh /\ run'[k].way = run[k].way
  BY <1>1, <1>2 DEF Brings
<1>4. QED
  BY <1>1, <1>3 DEF Newest

LEMMA FailNewest ==
    ASSUME IInv, NEW l \in Links, Fail(l),
           NEW p \in Parts[class] \cap Dated, NEW w \in Devices, Newest(w, p)
    PROVE  Newest(w, p)'
<1>1. UNCHANGED copy /\ TypeOK
  BY DEF Fail, IInv
<1>2. Ended(l) /\ (\A k \in Links \ {l} : run'[k] = run[k]) /\ done' = done
  BY <1>1, EndRuns DEF Fail
<1>3. ~Brings(l)' /\ ~run'[l].fresh /\ \A k \in Links \ {l} : Brings(k)' = Brings(k)
  BY <1>2 DEF Brings, Ended
<1>4. QED
  BY <1>1, <1>2, <1>3 DEF Newest

(* Taking a copy leaves the newer of the two. *)
Raised(l, p) == IF run[l].got[p].at > copy[Receiver(l)][p].at
                  THEN run[l].got[p].at ELSE copy[Receiver(l)][p].at

LEMMA InstallRaises ==
    ASSUME IInv, NEW l \in Links, Install(l), NEW p \in Parts[class] \cap Dated
    PROVE  /\ copy'[Receiver(l)][p].at = Raised(l, p)
           /\ \A d \in Devices : d # Receiver(l) => copy'[d] = copy[d]
<1> DEFINE d == Receiver(l)
<1>1. /\ TypeOK /\ d \in Devices /\ class # "session"
      /\ copy' = [copy EXCEPT ![d] = Merge(copy[d], run[l].got, TRUE)]
  BY LinkEnds DEF Install, IInv
<1>2. DOMAIN copy[d] = Parts[class]
  BY <1>1 DEF TypeOK, Copies
<1>3. copy'[d][p] = MergedPart(p, copy[d][p], run[l].got[p], TRUE)
  BY <1>1, <1>2 DEF TypeOK, Merge
<1>4. copy[d][p].at \in Nat /\ run[l].got[p].at \in Nat
  BY <1>1, TimesOfParts
<1>5. p = "document" \/ p \in {"name", "note"}
  BY <1>1, DatedClasses DEF TypeOK
<1>6. copy'[d][p].at = Raised(l, p)
  <2>1. CASE p = "document"
    BY <1>3, <1>4, <2>1 DEF MergedPart, InstallTrack, Raised
  <2>2. CASE p \in {"name", "note"}
    BY <1>3, <2>2 DEF MergedPart, Newer, Raised
  <2>3. QED
    BY <1>5, <2>1, <2>2
<1>7. \A e \in Devices : e # d => copy'[e] = copy[e]
  BY <1>1 DEF TypeOK
<1>8. QED
  BY <1>6, <1>7

LEMMA WriteRaises ==
    ASSUME IInv, MergeInvariant, NEW l \in Links, NEW t \in Times, WriteSession(l, t),
           NEW p \in Parts[class] \cap Dated
    PROVE  /\ copy'[Receiver(l)][p].at = Raised(l, p)
           /\ \A d \in Devices : d # Receiver(l) => copy'[d] = copy[d]
<1>1. TypeOK /\ Receiver(l) \in Devices /\ run[l].step = "merged" /\ class = "session"
  BY LinkEnds DEF WriteSession, IInv, MergedRight
<1>2. p = "video"
  BY <1>1, DatedClasses DEF TypeOK
<1>3. copy'[Receiver(l)].video = Newer(copy[Receiver(l)].video, run[l].got.video)
  BY VideoWritten
<1>4. \A e \in Devices : e # Receiver(l) => copy'[e] = copy[e]
  BY <1>1 DEF TypeOK, WriteSession
<1>5. QED
  BY <1>2, <1>3, <1>4 DEF Newer, Raised

(* A fresh run's taking: w's own copy stays, and who took it has the same. *)
LEMMA TakeNewest ==
    ASSUME IInv, NEW l \in Links, Brings(l), NEW p \in Parts[class] \cap Dated,
           NEW w \in Devices, Newest(w, p),
           copy'[Receiver(l)][p].at = Raised(l, p),
           \A d \in Devices : d # Receiver(l) => copy'[d] = copy[d],
           Ended(l), \A k \in Links \ {l} : run'[k] = run[k], done' = done \cup {l}
    PROVE  Newest(w, p)'
<1>1. /\ \A d \in Devices : copy[d][p].at \in Nat
      /\ run[l].got[p].at \in Nat /\ Receiver(l) \in Devices /\ TypeOK
      /\ l[1] \in Devices /\ l[2] \in Devices
  BY TimesOfParts, LinkEnds, LinkIs DEF IInv
<1>2. run[l].got[p].at <= copy[w][p].at
  BY DEF Newest
<1>3. copy'[w][p].at = copy[w][p].at
  BY <1>1, <1>2 DEF Raised
<1>4. \A d \in Devices : /\ copy'[d][p].at <= copy[w][p].at
                         /\ copy[d][p].at = copy[w][p].at => copy'[d][p].at = copy[w][p].at
  BY <1>1, <1>2 DEF Raised, Newest
<1>5. ~Brings(l)' /\ ~run'[l].fresh /\ \A k \in Links \ {l} : Brings(k)' = Brings(k)
  BY DEF Brings, Ended
<1>6. l[2] = w => copy'[l[1]][p].at = copy[w][p].at
  <2>1. SUFFICES ASSUME l[2] = w PROVE copy'[l[1]][p].at = copy[w][p].at
    OBVIOUS
  <2>2. CASE run[l].way = "pull"
    <3>1. Receiver(l) = l[1] /\ run[l].got[p].at = copy[w][p].at
      BY <2>1, <2>2 DEF Receiver, Newest
    <3>2. copy[l[1]][p].at <= copy[w][p].at
      BY <1>1 DEF Newest
    <3>3. QED
      BY <1>1, <3>1, <3>2 DEF Raised
  <2>3. CASE run[l].way # "pull"
    <3>1. run[l].way = "push"
      BY <1>1, <2>3 DEF TypeOK, Runs
    <3>2. copy[w][p].at = 0 /\ copy[l[1]][p].at <= copy[w][p].at
      BY <1>1, <2>1, <3>1 DEF Newest, Brings
    <3>3. QED
      BY <1>1, <1>4, <3>2
  <2>4. QED
    BY <2>2, <2>3
<1>7. \A k \in Links : k[1] \in Devices
  BY LinkIs
<1>8. \A k \in Links : k[2] = w =>
          /\ k \in done' => copy'[k[1]][p].at = copy'[w][p].at
          /\ Brings(k)' => run'[k].got[p].at = copy'[w][p].at
          /\ run'[k].fresh /\ run'[k].way = "push" => copy'[w][p].at = 0
  BY <1>3, <1>4, <1>5, <1>6, <1>7 DEF Newest
<1>9. \A k \in Links : Brings(k)' => run'[k].got[p].at <= copy'[w][p].at
  BY <1>3, <1>5 DEF Newest
<1>10. QED
  BY <1>3, <1>4, <1>8, <1>9 DEF Newest

(* Among the devices' times of a part one is the latest.                   *)
Later == {pair \in Nat \X Nat : pair[1] < pair[2]}

LEMMA LatestExists ==
    ASSUME Devices # {}, NEW time \in [Devices -> 0 .. MaxTime]
    PROVE  \E w \in Devices : \A d \in Devices : time[d] <= time[w]
<1> DEFINE Left(d) == MaxTime - time[d]
           T == {Left(d) : d \in Devices}
<1>1. T \in SUBSET Nat /\ T # {}
  OBVIOUS
<1>2. IsWellFoundedOn(Later, Nat)
  <2>1. Later = OpToRel(<, Nat)
    BY DEF Later, OpToRel
  <2>2. QED
    BY <2>1, NatLessThanWellFounded
<1> HIDE DEF T
<1>3. PICK x \in T : \A y \in T : ~(<<y, x>> \in Later)
  BY <1>1, <1>2, WFMin
<1>4. PICK w \in Devices : x = Left(w)
  BY <1>3 DEF T
<1>5. ASSUME NEW d \in Devices PROVE time[d] <= time[w]
  <2>1. Left(d) \in T /\ Left(d) \in Nat /\ Left(w) \in Nat
    BY DEF T
  <2>2. ~(Left(d) < Left(w))
    BY <1>3, <1>4, <2>1 DEF Later
  <2>3. QED
    BY <2>1, <2>2
<1>6. QED
  BY <1>5

(* After an edit, or a write by a run that has not seen it, all is open:   *)
(* whoever has the newest now will do.                                     *)
LEMMA UnsettledNewest ==
    ASSUME IInv', done' = {}, \A k \in Links : ~run'[k].fresh
    PROVE  Settling'
<1>1. SUFFICES ASSUME Devices # {}, NEW p \in (Parts[class] \cap Dated)'
               PROVE  \E w \in Devices : Newest(w, p)'
  BY DEF Settling
<1> DEFINE time == [d \in Devices |-> copy'[d][p].at]
<1>2. time \in [Devices -> 0 .. MaxTime]
  BY DEF IInv, TypeOK, Copies, Value
<1>3. \A d \in Devices : time[d] = copy'[d][p].at
  OBVIOUS
<1> HIDE DEF time
<1>4. PICK w \in Devices : \A d \in Devices : time[d] <= time[w]
  BY <1>1, <1>2, LatestExists
<1>5. \A d \in Devices : copy'[d][p].at <= copy'[w][p].at
  BY <1>3, <1>4
<1>6. Newest(w, p)'
  BY <1>5 DEF Newest, Brings
<1>7. QED
  BY <1>6

-----------------------------------------------------------------------------
LEMMA InitSettling == Init => SettlingInvariant
<1> SUFFICES ASSUME Init PROVE SettlingInvariant
  OBVIOUS
<1>1. \A l \in Links : ~run[l].fresh
  BY DEF Init, Idle
<1>2. written = {} /\ done = {} /\ \A d \in Devices : copy[d] = Absent(class)
  BY DEF Init
<1>3. \A p \in Parts[class], d \in Devices : copy[d][p].at = 0
  BY <1>2, UnsetIsValue DEF Absent
<1>4. Settling
  BY <1>1, <1>2, <1>3 DEF Settling, Newest, Brings
<1>5. QED
  BY <1>2, <1>4 DEF SettlingInvariant, OneChangeAtATime, NoFileNoFields

(* Who has the newest still has it. *)
LEMMA SettlingKept ==
    ASSUME Settling, class' = class,
           \A p \in Parts[class] \cap Dated, w \in Devices : Newest(w, p) => Newest(w, p)'
    PROVE  Settling'
  BY DEF Settling

(* Only an edit adds to what was written, with the clock's next tick.      *)
LEMMA OneChangeKept ==
    ASSUME ~Ties, IInv, MergeInvariant, OneChangeAtATime, [Next]_vars
    PROVE  OneChangeAtATime'
<1>1. ASSUME NEW d \in Devices, NEW q \in Parts[class], NEW t \in Times, Edit(d, q, t)
      PROVE  OneChangeAtATime'
  <2>1. class' = class /\ written' = written \cup {<<q, [at |-> t, by |-> d]>>}
    BY <1>1 DEF Edit
  <2>2. t = now + 1 /\ now \in Nat
    BY DEF Times, IInv, TypeOK
  <2>3. \A p \in Parts[class] : \A v \in Value : <<p, v>> \in written => v.at <= now /\ v.at \in Nat
    BY DEF MergeInvariant, WrittenBefore, Value
  <2>4. SUFFICES ASSUME NEW p \in Parts[class], NEW u \in Value, NEW v \in Value,
                        <<p, u>> \in written', <<p, v>> \in written', u.at = v.at
                 PROVE  u = v
    BY <2>1 DEF OneChangeAtATime
  <2>5. CASE <<p, u>> \in written /\ <<p, v>> \in written
    BY <2>4, <2>5 DEF OneChangeAtATime
  <2>6. CASE <<p, u>> \notin written
    <3>1. u.at = t
      BY <2>1, <2>4, <2>6
    <3>2. <<p, v>> \notin written
      <4>1. v.at = now + 1
        BY <2>2, <2>4, <3>1
      <4>2. QED
        BY <2>2, <2>3, <4>1
    <3>3. QED
      BY <2>1, <2>4, <2>6, <3>2
  <2>7. CASE <<p, v>> \notin written
    <3>1. v.at = t
      BY <2>1, <2>4, <2>7
    <3>2. <<p, u>> \notin written
      <4>1. u.at = now + 1
        BY <2>2, <2>4, <3>1
      <4>2. QED
        BY <2>2, <2>3, <4>1
    <3>3. QED
      BY <2>1, <2>4, <2>7, <3>2
  <2>8. QED
    BY <2>5, <2>6, <2>7
<1>2. CASE UNCHANGED <<class, written>>
  BY <1>2 DEF OneChangeAtATime
<1>3. QED
  BY <1>1, <1>2 DEF Next, Clear, Plan, Fetch, Install, MergeSession, Fail, WriteSession, vars

(* Fields are set in a session that is there, and a merge makes its file.  *)
LEMMA FilesKept ==
    ASSUME IInv, NoFileNoFields, [Next]_vars
    PROVE  NoFileNoFields'
<1>1. TypeOK /\ class' = class
  BY DEF IInv, Next, Edit, Clear, Plan, Fetch, Install, MergeSession, Fail, WriteSession, vars
<1>2. SUFFICES ASSUME class = "session", NEW e \in Devices, mtime'[e] = 0
               PROVE  copy'[e] = Absent(class)
  BY <1>1 DEF NoFileNoFields, Absent
<1>3. ASSUME NEW d \in Devices, NEW p \in Parts[class], NEW t \in Times,
             Edit(d, p, t) \/ Clear(d, p, t)
      PROVE  copy'[e] = Absent(class)
  <2>1. Touch(d, t) /\ \A f \in Devices : f # d => copy'[f] = copy[f]
    BY <1>1, <1>3 DEF Edit, Clear, TypeOK
  <2>2. t > 0 /\ mtime' = [mtime EXCEPT ![d] = t]
    BY <1>2, <2>1, TimesType DEF Touch
  <2>3. e # d /\ mtime'[e] = mtime[e]
    BY <1>1, <1>2, <2>2 DEF TypeOK
  <2>4. QED
    BY <1>2, <2>1, <2>3 DEF NoFileNoFields
<1>4. ASSUME NEW l \in Links, NEW t \in Times, WriteSession(l, t)
      PROVE  copy'[e] = Absent(class)
  <2>1. /\ mtime' = [mtime EXCEPT ![Receiver(l)] = t] /\ t > 0 /\ Receiver(l) \in Devices
        /\ \A f \in Devices : f # Receiver(l) => copy'[f] = copy[f]
    BY <1>1, <1>4, TimesType, LinkEnds DEF WriteSession, TypeOK
  <2>2. e # Receiver(l) /\ mtime'[e] = mtime[e]
    BY <1>1, <1>2, <2>1 DEF TypeOK
  <2>3. QED
    BY <1>2, <2>1, <2>2 DEF NoFileNoFields
<1>5. CASE UNCHANGED <<copy, mtime>>
  BY <1>2, <1>5 DEF NoFileNoFields
<1>6. QED
  BY <1>2, <1>3, <1>4, <1>5 DEF Next, Plan, Fetch, Install, MergeSession, Fail, vars

(* A copy that is taken: by a run that has seen the last edit, or by one   *)
(* whose write unsettles the rest.                                         *)
LEMMA TakeSettling ==
    ASSUME IInv, IInv', Settling, class' = class, NEW l \in Links, Settle(l),
           run[l].step \in {"fetched", "merged"},
           \A p \in Parts[class] \cap Dated : copy'[Receiver(l)][p].at = Raised(l, p),
           \A d \in Devices : d # Receiver(l) => copy'[d] = copy[d]
    PROVE  Settling'
<1>1. /\ Ended(l)
      /\ \/ /\ run[l].fresh /\ \A k \in Links \ {l} : run'[k] = run[k]
            /\ done' = done \cup {l}
         \/ done' = {} /\ \A k \in Links : ~run'[k].fresh
  BY SettleRuns DEF IInv
<1>2. CASE /\ run[l].fresh /\ \A k \in Links \ {l} : run'[k] = run[k]
           /\ done' = done \cup {l}
  <2>1. Brings(l)
    BY <1>2 DEF Brings
  <2>2. \A p \in Parts[class] \cap Dated, w \in Devices : Newest(w, p) => Newest(w, p)'
    BY <1>1, <1>2, <2>1, TakeNewest
  <2>3. QED
    BY <2>2, SettlingKept
<1>3. CASE done' = {} /\ \A k \in Links : ~run'[k].fresh
  BY <1>3, UnsettledNewest
<1>4. QED
  BY <1>1, <1>2, <1>3

LEMMA NextSettling ==
    ASSUME ~Ties
    PROVE  IInv /\ MergeInvariant /\ SettlingInvariant /\ [Next]_vars => SettlingInvariant'
<1> SUFFICES ASSUME IInv, MergeInvariant, SettlingInvariant, [Next]_vars
             PROVE  SettlingInvariant'
  OBVIOUS
<1>1. IInv' /\ OneChangeAtATime /\ NoFileNoFields /\ Settling /\ TypeOK
  BY NextInv DEF SettlingInvariant, IInv
<1>2. OneChangeAtATime' /\ NoFileNoFields'
  BY <1>1, OneChangeKept, FilesKept
<1>3. ASSUME NEW d \in Devices, NEW p \in Parts[class], NEW t \in Times,
             Edit(d, p, t) \/ Clear(d, p, t)
      PROVE  Settling'
  BY <1>1, <1>3, UnsettleRuns, UnsettledNewest DEF Edit, Clear
<1>4. ASSUME NEW l \in Links, Plan(l) PROVE Settling'
  BY <1>1, <1>4, PlanNewest, SettlingKept DEF Plan
<1>5. ASSUME NEW l \in Links, Fetch(l) PROVE Settling'
  BY <1>1, <1>5, FetchNewest, SettlingKept DEF Fetch
<1>6. ASSUME NEW l \in Links, MergeSession(l) PROVE Settling'
  BY <1>1, <1>6, MergeNewest, SettlingKept DEF MergeSession
<1>7. ASSUME NEW l \in Links, Fail(l) PROVE Settling'
  BY <1>1, <1>7, FailNewest, SettlingKept DEF Fail
<1>8. ASSUME NEW l \in Links, Install(l) PROVE Settling'
  <2>1. class' = class /\ Settle(l) /\ run[l].step \in {"fetched", "merged"}
    BY <1>8 DEF Install
  <2>2. (\A p \in Parts[class] \cap Dated : copy'[Receiver(l)][p].at = Raised(l, p))
        /\ \A d \in Devices : d # Receiver(l) => copy'[d] = copy[d]
    <3>1. \A p \in Parts[class] \cap Dated : copy'[Receiver(l)][p].at = Raised(l, p)
      BY <1>8, InstallRaises
    <3>2. \A d \in Devices : d # Receiver(l) => copy'[d] = copy[d]
      BY <1>1, <1>8, LinkEnds DEF Install, TypeOK
    <3>3. QED
      BY <3>1, <3>2
  <2>3. QED
    BY <1>1, <2>1, <2>2, TakeSettling
<1>9. ASSUME NEW l \in Links, NEW t \in Times, WriteSession(l, t) PROVE Settling'
  <2>1. class' = class /\ Settle(l) /\ run[l].step \in {"fetched", "merged"}
    BY <1>9 DEF WriteSession
  <2>2. \A p \in Parts[class] \cap Dated : copy'[Receiver(l)][p].at = Raised(l, p)
    BY <1>9, WriteRaises
  <2>3. \A d \in Devices : d # Receiver(l) => copy'[d] = copy[d]
    BY <1>1, <1>9, LinkEnds DEF WriteSession, TypeOK
  <2>4. QED
    BY <1>1, <2>1, <2>2, <2>3, TakeSettling
<1>10. ASSUME UNCHANGED vars PROVE Settling'
  <2>1. \A p \in Parts[class] \cap Dated, w \in Devices : Newest(w, p) => Newest(w, p)'
    BY <1>10 DEF vars, Newest, Brings
  <2>2. QED
    BY <1>1, <1>10, <2>1, SettlingKept DEF vars
<1>11. Settling'
  BY <1>3, <1>4, <1>5, <1>6, <1>7, <1>8, <1>9, <1>10 DEF Next
<1>12. QED
  BY <1>2, <1>11 DEF SettlingInvariant

(* When every run is done, all hold the time of the newest, so its value.  *)
LEMMA SettledAgree == IInv /\ SettlingInvariant => Converged
<1> SUFFICES ASSUME IInv, SettlingInvariant, done = Links,
                    NEW d \in Devices, NEW e \in Devices, NEW p \in Parts[class] \cap Dated
             PROVE  copy[d][p] = copy[e][p]
  BY DEF Converged
<1>1. PICK w \in Devices : Newest(w, p)
  BY DEF SettlingInvariant, Settling
<1>2. ASSUME NEW f \in Devices PROVE copy[f][p].at = copy[w][p].at
  <2>1. CASE f # w
    <3>1. <<f, w>> \in Links /\ <<f, w>>[1] = f /\ <<f, w>>[2] = w
      BY <2>1 DEF Links
    <3>2. QED
      BY <1>1, <3>1 DEF Newest
  <2>2. QED
    BY <2>1
<1>3. /\ copy[d][p] \in Value /\ Known(p, copy[d][p]) /\ copy[d][p].at = copy[e][p].at
      /\ copy[e][p] \in Value /\ Known(p, copy[e][p])
  BY <1>2, TimesOfParts DEF IInv, CopiesKnown
<1>4. CASE copy[d][p] = Unset \/ copy[e][p] = Unset
  BY <1>3, <1>4, KnownSet, UnsetIsValue DEF IInv
<1>5. CASE copy[d][p] # Unset /\ copy[e][p] # Unset
  BY <1>3, <1>5 DEF Known, SettlingInvariant, OneChangeAtATime
<1>6. QED
  BY <1>4, <1>5

(* Where no two changes fall into one millisecond, any number of devices   *)
(* agree on every track, profile, bike name, log entry and video link once *)
(* each has had an unbroken run with each other (plan_sync and the install *)
(* functions of apply.rs), however the runs interleaved or failed before.  *)
THEOREM DatedPartsConverge == ASSUME ~Ties PROVE Spec => []Converged
  BY InitInv, NextInv, InitMerge, NextMerge, InitSettling, NextSettling, SettledAgree, PTL
     DEF Spec

-----------------------------------------------------------------------------
(* Two devices also agree on what carries no time.  No push claims a       *)
(* version, so a pushed data.parquet is refused; ...                       *)
PushClaims == \A l \in Links : run[l].way = "push" => run[l].time = 0

(* ... a run that has seen the last change pulls the newer version, the    *)
(* one it claimed, and a run that is over leaves the versions equal.       *)
Pulls(l) == run[l].fresh /\ run[l].way = "pull"
DataSettling ==
    class = "data" =>
        /\ \A l \in done : copy[l[1]].columns.at = copy[l[2]].columns.at
        /\ \A l \in Links : Pulls(l) =>
              /\ copy[l[1]].columns.at < copy[l[2]].columns.at
              /\ run[l].time = copy[l[2]].columns.at

(* Two session files with a rider were not written in one millisecond; ... *)
OneWriteAtATime ==
    class = "session" => \A d, e \in Devices :
        d # e /\ mtime[d] = mtime[e] => copy[d].rider = Unset

(* ... so the rider of some device w prevails: a file with another one is  *)
(* older, and what a run that has seen the last change reads, merges and   *)
(* writes comes out as w's.                                                *)
Behind(w, d) == copy[d].rider \notin {copy[w].rider, Unset}
ReadsRight(w, l) ==
    LET s == Sender(l)
        r == Receiver(l)
    IN  /\ Behind(w, s) => copy[r].rider = copy[w].rider /\ run[l].time <= mtime[r]
        /\ Behind(w, r) => copy[s].rider = copy[w].rider /\ mtime[r] < run[l].time
MergesRight(w, l) ==
    LET r == Receiver(l)
    IN  MergeField(copy[r].rider, run[l].got.rider, mtime[r] >= run[l].time) = copy[w].rider
WritesRight(w, l) ==
    /\ run[l].merged.rider = copy[w].rider
    /\ copy[w].rider = Unset => run[l].got.rider = Unset
    /\ copy[Receiver(l)] = run[l].base \/ copy[Receiver(l)].rider = copy[w].rider
RunsRight(w, l) ==
    /\ run[l].way = "push" => copy[l[1]].rider = copy[w].rider /\ ~Behind(w, l[2])
    /\ run[l].step = "planned" => ReadsRight(w, l)
    /\ run[l].step = "fetched" => MergesRight(w, l)
    /\ run[l].step = "merged" => WritesRight(w, l)
Prevails(w) ==
    /\ copy[w].rider = Unset => \A d \in Devices : copy[d].rider = Unset
    /\ \A d, e \in Devices :
          Behind(w, d) /\ copy[e].rider = copy[w].rider => mtime[d] < mtime[e]
    /\ \A l \in done : copy[l[1]].rider = copy[w].rider
    /\ \A l \in Links : run[l].fresh => RunsRight(w, l)
RiderSettling == class = "session" /\ Devices # {} => \E w \in Devices : Prevails(w)

PairInvariant == PushClaims /\ DataSettling /\ OneWriteAtATime /\ RiderSettling

(* There are no more than two devices. *)
Pair == \A d, e, f \in Devices : d # e /\ d # f => e = f

LEMMA PairLinks ==
    ASSUME Pair, NEW l \in Links, NEW k \in Links
    PROVE  k = l \/ (k[1] = l[2] /\ k[2] = l[1])
<1>1. /\ l = <<l[1], l[2]>> /\ l[1] \in Devices /\ l[2] \in Devices /\ l[1] # l[2]
      /\ k = <<k[1], k[2]>> /\ k[1] \in Devices /\ k[2] \in Devices /\ k[1] # k[2]
  BY DEF Links
<1>2. CASE k[1] = l[1]
  <2>1. k[2] = l[2]
    BY <1>1, <1>2 DEF Pair
  <2>2. QED
    BY <1>1, <1>2, <2>1
<1>3. CASE k[1] # l[1]
  <2>1. k[1] = l[2]
    BY <1>1, <1>3 DEF Pair
  <2>2. k[2] = l[1]
    BY <1>1, <1>3 DEF Pair
  <2>3. QED
    BY <2>1, <2>2
<1>4. QED
  BY <1>2, <1>3

LEMMA PartsOfClass ==
    /\ class = "session" => Parts[class] = {"rider", "video", "laps"}
    /\ class = "data" => Parts[class] = {"columns"}
  BY DEF Parts

LEMMA PushClaimsKept ==
    ASSUME IInv, PushClaims, [Next]_vars
    PROVE  PushClaims'
<1>1. TypeOK
  BY DEF IInv
<1>2. SUFFICES ASSUME NEW k \in Links
               PROVE  \/ run'[k].time = run[k].time /\ run'[k].way = run[k].way
                      \/ run'[k].time = 0
                      \/ run'[k].way = "pull"
  BY DEF PushClaims
<1>3. ASSUME Unsettle
      PROVE  run'[k].time = run[k].time /\ run'[k].way = run[k].way
  BY <1>1, <1>3, UnsettleRuns DEF Same
<1>4. ASSUME NEW l \in Links, Settle(l)
      PROVE  \/ run'[k].time = run[k].time /\ run'[k].way = run[k].way
             \/ run'[k].time = 0
  BY <1>1, <1>4, SettleRuns DEF Same, Ended
<1>5. ASSUME NEW l \in Links, Fail(l)
      PROVE  \/ run'[k].time = run[k].time /\ run'[k].way = run[k].way
             \/ run'[k].time = 0
  BY <1>1, <1>5, EndRuns DEF Fail, Ended
<1>6. ASSUME NEW l \in Links, Fetch(l) \/ MergeSession(l)
      PROVE  run'[k].time = run[k].time /\ run'[k].way = run[k].way
  BY <1>1, <1>6 DEF Fetch, MergeSession, TypeOK, Runs
<1>7. ASSUME NEW l \in Links, Plan(l)
      PROVE  \/ run'[k].time = run[k].time /\ run'[k].way = run[k].way
             \/ run'[k].time = 0
             \/ run'[k].way = "pull"
  <2> DEFINE way == Planned(l[1], l[2])
             time == IF way = "pull" THEN Claim(l[2]) ELSE 0
             new == [Idle EXCEPT !.step = "planned", !.way = way, !.fresh = TRUE, !.time = time]
  <2>1. run' = run \/ run' = [run EXCEPT ![l] = new]
    BY <1>7 DEF Plan
  <2>2. new.way = "pull" \/ new.time = 0
    BY DEF Idle
  <2> HIDE DEF new
  <2>3. QED
    BY <1>1, <2>1, <2>2 DEF TypeOK
<1>8. CASE UNCHANGED run
  BY <1>8
<1>9. QED
  BY <1>3, <1>4, <1>5, <1>6, <1>7, <1>8 DEF Next, Edit, Clear, Install, WriteSession, vars

LEMMA OneWriteKept ==
    ASSUME ~Ties, IInv, MergeInvariant, OneWriteAtATime, [Next]_vars
    PROVE  OneWriteAtATime'
<1>1. TypeOK /\ class' = class
  BY DEF IInv, Next, Edit, Clear, Plan, Fetch, Install, MergeSession, Fail, WriteSession, vars
<1>2. SUFFICES ASSUME class = "session", NEW d \in Devices, NEW e \in Devices, d # e,
                      mtime'[d] = mtime'[e]
               PROVE  copy'[d].rider = Unset
  BY <1>1 DEF OneWriteAtATime
<1>3. ASSUME NEW f \in Devices, NEW t \in Times, mtime' = [mtime EXCEPT ![f] = t],
             \A g \in Devices : g # f => copy'[g] = copy[g]
      PROVE  copy'[d].rider = Unset
  <2>1. t = now + 1 /\ now \in Nat /\ \A g \in Devices : mtime[g] \in Nat /\ mtime[g] <= now
    BY <1>1, <1>2 DEF Times, TypeOK, MergeInvariant, FilesBefore
  <2>2. mtime'[f] = t /\ \A g \in Devices : g # f => mtime'[g] = mtime[g] /\ mtime'[g] # t
    BY <1>1, <1>3, <2>1 DEF TypeOK
  <2>3. d # f /\ e # f
    BY <1>2, <2>2
  <2>4. QED
    BY <1>2, <1>3, <2>2, <2>3 DEF OneWriteAtATime
<1>4. ASSUME NEW f \in Devices, NEW p \in Parts[class], NEW t \in Times,
             Edit(f, p, t) \/ Clear(f, p, t)
      PROVE  copy'[d].rider = Unset
  <2>1. Touch(f, t) /\ \A g \in Devices : g # f => copy'[g] = copy[g]
    BY <1>1, <1>4 DEF Edit, Clear, TypeOK
  <2>2. mtime' = [mtime EXCEPT ![f] = t]
    BY <1>2, <2>1 DEF Touch
  <2>3. QED
    BY <1>3, <2>1, <2>2
<1>5. ASSUME NEW l \in Links, NEW t \in Times, WriteSession(l, t)
      PROVE  copy'[d].rider = Unset
  <2>1. /\ mtime' = [mtime EXCEPT ![Receiver(l)] = t] /\ Receiver(l) \in Devices
        /\ \A g \in Devices : g # Receiver(l) => copy'[g] = copy[g]
    BY <1>1, <1>5, LinkEnds DEF WriteSession, TypeOK
  <2>2. QED
    BY <1>3, <2>1
<1>6. CASE UNCHANGED <<copy, mtime>>
  BY <1>2, <1>6 DEF OneWriteAtATime
<1>7. QED
  BY <1>2, <1>4, <1>5, <1>6 DEF Next, Plan, Fetch, Install, MergeSession, Fail, vars

(* The versions of data.parquet. *)
LEMMA VersionTimes ==
    ASSUME IInv, class = "data", NEW d \in Devices
    PROVE  copy[d].columns.at \in Nat /\ (Present(d) <=> copy[d].columns.at > 0)
<1>1. "columns" \in Parts[class] /\ Parts[class] = {"columns"}
  BY PartsOfClass
<1>2. copy[d].columns \in Value /\ copy[d].columns.at \in Nat /\ Known("columns", copy[d].columns)
  BY <1>1, TimesOfParts DEF IInv, CopiesKnown
<1>3. CASE copy[d].columns = Unset
  <2>1. copy[d] = Absent(class)
    BY <1>1, <1>3 DEF Absent, IInv, TypeOK, Copies
  <2>2. QED
    BY <1>2, <1>3, <2>1, UnsetIsValue DEF Present
<1>4. CASE copy[d].columns # Unset
  <2>1. copy[d].columns.at > 0
    BY <1>1, <1>2, <1>4 DEF Known, IInv, WrittenLate
  <2>2. copy[d] # Absent(class)
    BY <1>1, <1>4 DEF Absent
  <2>3. QED
    BY <1>2, <2>1, <2>2 DEF Present
<1>5. QED
  BY <1>3, <1>4

LEMMA PlanVersions ==
    ASSUME IInv, class = "data", NEW d \in Devices, NEW e \in Devices
    PROVE  /\ Planned(d, e) = "nothing" => copy[d].columns.at = copy[e].columns.at
           /\ Planned(d, e) = "pull" => copy[d].columns.at < copy[e].columns.at
<1>1. /\ copy[d].columns.at \in Nat /\ (Present(d) <=> copy[d].columns.at > 0)
      /\ copy[e].columns.at \in Nat /\ (Present(e) <=> copy[e].columns.at > 0)
  BY VersionTimes
<1>2. CASE ~Present(d) \/ ~Present(e)
  BY <1>1, <1>2 DEF Planned
<1>3. CASE Present(d) /\ Present(e)
  <2>1. Planned(d, e) = ByTime(d, e)
    BY <1>3 DEF Planned
  <2>2. ByTime(d, e) = IF copy[d].columns.at < copy[e].columns.at THEN "pull"
                       ELSE IF copy[d].columns.at > copy[e].columns.at THEN "push" ELSE "nothing"
    BY DEF ByTime
  <2>3. QED
    BY <1>1, <2>1, <2>2
<1>4. QED
  BY <1>2, <1>3

LEMMA PlanData ==
    ASSUME IInv, DataSettling, class = "data", NEW l \in Links, Plan(l)
    PROVE  DataSettling'
<1> DEFINE way == Planned(l[1], l[2])
           time == IF way = "pull" THEN Claim(l[2]) ELSE 0
           new == [Idle EXCEPT !.step = "planned", !.way = way, !.fresh = TRUE, !.time = time]
<1>1. UNCHANGED <<class, copy>> /\ TypeOK /\ l[1] \in Devices /\ l[2] \in Devices
  BY LinkIs DEF Plan, IInv
<1>2. CASE way = "nothing"
  <2>1. run' = run /\ done' = done \cup {l}
    BY <1>2 DEF Plan
  <2>2. copy[l[1]].columns.at = copy[l[2]].columns.at
    BY <1>1, <1>2, PlanVersions
  <2>3. QED
    BY <1>1, <2>1, <2>2 DEF DataSettling, Pulls
<1>3. CASE way # "nothing"
  <2>1. run' = [run EXCEPT ![l] = new] /\ done' = done \ {l}
    BY <1>3 DEF Plan
  <2>2. /\ new.way = "pull" => copy[l[1]].columns.at < copy[l[2]].columns.at
        /\ new.way = "pull" => new.time = copy[l[2]].columns.at
    BY <1>1, PlanVersions DEF Idle, Claim
  <2> HIDE DEF new
  <2>3. run'[l] = new /\ \A k \in Links \ {l} : run'[k] = run[k]
    BY <1>1, <2>1 DEF TypeOK
  <2>4. QED
    BY <1>1, <2>1, <2>2, <2>3 DEF DataSettling, Pulls
<1>4. QED
  BY <1>2, <1>3

LEMMA InstallData ==
    ASSUME Pair, IInv, PushClaims, DataSettling, class = "data",
           NEW l \in Links, Install(l)
    PROVE  DataSettling'
<1>1. /\ class' = class /\ TypeOK /\ run[l].step = "fetched" /\ Settle(l)
      /\ run[l].got.columns.at = run[l].time
      /\ copy' = [copy EXCEPT ![Receiver(l)] = Merge(copy[Receiver(l)], run[l].got, TRUE)]
      /\ l[1] \in Devices /\ l[2] \in Devices /\ l[1] # l[2]
  BY DEF Install, Refused, IInv, Links
<1>2. /\ Ended(l)
      /\ \/ /\ run[l].fresh /\ \A k \in Links \ {l} : run'[k] = run[k]
            /\ done' = done \cup {l}
         \/ done' = {} /\ \A k \in Links : ~run'[k].fresh
  BY <1>1, SettleRuns
<1>3. CASE done' = {} /\ \A k \in Links : ~run'[k].fresh
  BY <1>3 DEF DataSettling, Pulls
<1>4. CASE run[l].fresh /\ (\A k \in Links \ {l} : run'[k] = run[k]) /\ done' = done \cup {l}
  <2>1. run[l].way # "push"
    <3>1. "columns" \in Parts[class] /\ run[l].got.columns \in Value
      BY PartsOfClass, TimesOfParts
    <3>2. run[l].got.columns # Unset /\ Known("columns", run[l].got.columns)
      BY <1>1, <3>1 DEF IInv, FetchedData, GotKnown
    <3>3. run[l].got.columns.at > 0
      BY <3>1, <3>2 DEF Known, IInv, WrittenLate
    <3>4. QED
      BY <1>1, <3>3 DEF PushClaims
  <2>2. run[l].way = "pull" /\ Receiver(l) = l[1]
    BY <1>1, <2>1 DEF TypeOK, Runs, Receiver
  <2>3. /\ copy[l[1]].columns.at < copy[l[2]].columns.at
        /\ run[l].time = copy[l[2]].columns.at
        /\ copy[l[1]].columns.at \in Nat /\ copy[l[2]].columns.at \in Nat
    BY <1>1, <1>4, <2>2, VersionTimes DEF DataSettling, Pulls
  <2>4. copy'[l[1]].columns.at = copy[l[2]].columns.at /\ copy'[l[2]] = copy[l[2]]
    <3>1. copy'[l[1]] = Merge(copy[l[1]], run[l].got, TRUE) /\ copy'[l[2]] = copy[l[2]]
      BY <1>1, <2>2 DEF TypeOK
    <3>2. "columns" \in DOMAIN copy[l[1]]
      BY <1>1, PartsOfClass DEF TypeOK, Copies
    <3>3. copy'[l[1]].columns = run[l].got.columns
      BY <3>1, <3>2 DEF Merge, MergedPart
    <3>4. QED
      BY <1>1, <2>3, <3>1, <3>3
  <2>5. ASSUME NEW k \in done' PROVE k = l
    BY <1>4, <2>3, <2>5, <1>1, PairLinks DEF DataSettling, TypeOK
  <2>6. ASSUME NEW k \in Links, Pulls(k)' PROVE FALSE
    <3>1. k # l
      BY <1>2, <2>6 DEF Pulls, Ended
    <3>2. Pulls(k) /\ k[1] = l[2] /\ k[2] = l[1]
      BY <1>4, <2>6, <3>1, PairLinks DEF Pulls
    <3>3. copy[l[2]].columns.at < copy[l[1]].columns.at
      BY <3>2 DEF DataSettling
    <3>4. QED
      BY <2>3, <3>3
  <2>7. QED
    BY <2>4, <2>5, <2>6 DEF DataSettling
<1>5. QED
  BY <1>2, <1>3, <1>4

LEMMA NextData ==
    ASSUME Pair, IInv, PushClaims, DataSettling, [Next]_vars
    PROVE  DataSettling'
<1>1. TypeOK /\ class' = class
  BY DEF IInv, Next, Edit, Clear, Plan, Fetch, Install, MergeSession, Fail, WriteSession, vars
<1>2. SUFFICES ASSUME class = "data" PROVE DataSettling'
  BY <1>1 DEF DataSettling
<1>3. ASSUME Unsettle PROVE DataSettling'
  <2>1. done' = {} /\ \A k \in Links : ~run'[k].fresh
    BY <1>1, <1>3, UnsettleRuns
  <2>2. QED
    BY <2>1 DEF DataSettling, Pulls
<1>4. ASSUME NEW l \in Links, Fetch(l) PROVE DataSettling'
  <2>1. UNCHANGED <<copy, done>>
    BY <1>4 DEF Fetch
  <2>2. \A k \in Links : /\ run'[k].fresh = run[k].fresh /\ run'[k].way = run[k].way
                         /\ run'[k].time = run[k].time
    BY <1>1, <1>4 DEF Fetch, TypeOK, Runs
  <2>3. QED
    BY <1>1, <2>1, <2>2 DEF DataSettling, Pulls
<1>5. ASSUME NEW l \in Links, Fail(l) PROVE DataSettling'
  <2>1. Ended(l) /\ (\A k \in Links \ {l} : run'[k] = run[k]) /\ done' = done /\ copy' = copy
    BY <1>1, <1>5, EndRuns DEF Fail
  <2>2. QED
    BY <1>1, <2>1 DEF DataSettling, Pulls, Ended
<1>6. ASSUME NEW l \in Links, MergeSession(l) PROVE DataSettling'
  BY <1>2, <1>6 DEF MergeSession
<1>7. ASSUME NEW l \in Links, NEW t \in Times, WriteSession(l, t) PROVE DataSettling'
  BY <1>2, <1>7 DEF WriteSession, IInv, MergedRight
<1>8. CASE UNCHANGED vars
  BY <1>8 DEF vars, DataSettling, Pulls
<1>9. QED
  BY <1>2, <1>3, <1>4, <1>5, <1>6, <1>7, <1>8, PlanData, InstallData DEF Next, Edit, Clear

(* The riders of session files. *)
LEMMA RiderTypes ==
    ASSUME IInv, class = "session"
    PROVE  /\ "rider" \in Parts[class]
           /\ \A d \in Devices : mtime[d] \in Nat /\ copy[d].rider \in Value
           /\ \A l \in Links : run[l].time \in Nat
<1>1. "rider" \in Parts[class]
  BY PartsOfClass
<1>2. QED
  BY <1>1 DEF IInv, TypeOK, Runs, Copies

LEMMA NoFileNoRider ==
    ASSUME IInv, NoFileNoFields, class = "session", NEW d \in Devices, ~Present(d)
    PROVE  copy[d].rider = Unset
<1>1. copy[d] = Absent(class) /\ "rider" \in Parts[class]
  BY RiderTypes DEF Present, NoFileNoFields
<1>2. QED
  BY <1>1 DEF Absent

(* Where all runs are open again, the rider of the newest file prevails.   *)
AllOpen == done = {} /\ \A k \in Links : ~run[k].fresh

LEMMA UnsettledRider ==
    Pair => (IInv /\ NoFileNoFields /\ OneWriteAtATime /\ AllOpen => RiderSettling)
<1> SUFFICES ASSUME Pair, IInv, NoFileNoFields, OneWriteAtATime, AllOpen
             PROVE  RiderSettling
  OBVIOUS
<1>1. SUFFICES ASSUME class = "session", Devices # {} PROVE \E w \in Devices : Prevails(w)
  BY DEF RiderSettling
<1> DEFINE time == [d \in Devices |-> IF copy[d].rider = Unset THEN 0 ELSE mtime[d]]
<1>2. time \in [Devices -> 0 .. MaxTime]
  BY DEF IInv, TypeOK
<1>3. \A d \in Devices : /\ copy[d].rider = Unset => time[d] = 0
                         /\ copy[d].rider # Unset => time[d] = mtime[d] /\ mtime[d] # 0
  <2>1. ASSUME NEW d \in Devices, mtime[d] = 0 PROVE copy[d].rider = Unset
    BY <1>1, <2>1, NoFileNoRider DEF Present
  <2>2. QED
    BY <2>1
<1> HIDE DEF time
<1>4. PICK w \in Devices : \A d \in Devices : time[d] <= time[w]
  BY <1>1, <1>2, LatestExists
<1>5. \A d \in Devices : mtime[d] \in Nat
  BY <1>1, RiderTypes
<1>6. copy[w].rider = Unset => \A d \in Devices : copy[d].rider = Unset
  <2>1. SUFFICES ASSUME copy[w].rider = Unset, NEW d \in Devices PROVE copy[d].rider = Unset
    OBVIOUS
  <2>2. time[d] <= 0
    BY <1>3, <1>4, <2>1
  <2>3. QED
    BY <1>3, <1>5, <2>2
<1>7. ASSUME NEW d \in Devices, NEW e \in Devices, Behind(w, d), copy[e].rider = copy[w].rider
      PROVE  mtime[d] < mtime[e]
  <2>1. copy[d].rider # copy[w].rider /\ copy[d].rider # Unset /\ d # w /\ d # e
    BY <1>7 DEF Behind
  <2>2. e = w
    BY <2>1 DEF Pair
  <2>3. copy[w].rider # Unset
    BY <1>6, <2>1
  <2>4. mtime[d] <= mtime[w]
    BY <1>3, <1>4, <2>1, <2>3
  <2>5. mtime[d] # mtime[w]
    BY <1>1, <2>1 DEF OneWriteAtATime
  <2>6. QED
    BY <1>5, <2>2, <2>4, <2>5
<1>8. Prevails(w)
  BY <1>6, <1>7 DEF Prevails, AllOpen
<1>9. QED
  BY <1>8

LEMMA UnsettledRiderNext ==
    ASSUME Pair
    PROVE  IInv' /\ NoFileNoFields' /\ OneWriteAtATime' /\ AllOpen' => RiderSettling'
<1>1. IInv /\ NoFileNoFields /\ OneWriteAtATime /\ AllOpen => RiderSettling
  BY UnsettledRider
<1>2. QED
  BY <1>1, PTL

LEMMA PlanRider ==
    ASSUME Pair, IInv, NoFileNoFields, class = "session", NEW l \in Links, Plan(l),
           NEW w \in Devices, Prevails(w)
    PROVE  Prevails(w)'
<1> DEFINE way == Planned(l[1], l[2])
           time == IF way = "pull" THEN Claim(l[2]) ELSE 0
           new == [Idle EXCEPT !.step = "planned", !.way = way, !.fresh = TRUE, !.time = time]
           v == copy[w].rider
<1>1. /\ UNCHANGED <<copy, mtime>> /\ TypeOK
      /\ l[1] \in Devices /\ l[2] \in Devices /\ l[1] # l[2]
  BY DEF Plan, IInv, Links
<1>2. copy[l[1]].rider = v \/ copy[l[2]].rider = v
  BY <1>1 DEF Pair
<1>3. CASE way = "nothing"
  <2>1. run' = run /\ done' = done \cup {l}
    BY <1>3 DEF Plan
  <2>2. copy[l[1]].rider = v
    <3>1. CASE copy[l[1]] = copy[l[2]]
      BY <1>2, <3>1
    <3>2. CASE copy[l[1]] # copy[l[2]]
      <4>1. ~Present(l[1]) /\ ~Present(l[2])
        BY <1>3, <3>2 DEF Planned, ByContent
      <4>2. QED
        BY <1>1, <1>2, <4>1, NoFileNoRider
    <3>3. QED
      BY <3>1, <3>2
  <2>3. \A k \in Links : RunsRight(w, k)' = RunsRight(w, k)
    BY <1>1, <2>1 DEF RunsRight, ReadsRight, MergesRight, WritesRight, Behind, Sender, Receiver
  <2>4. QED
    BY <1>1, <2>1, <2>2, <2>3 DEF Prevails, Behind
<1>4. CASE way # "nothing"
  <2>1. run' = [run EXCEPT ![l] = new] /\ done' = done \ {l}
    BY <1>4 DEF Plan
  <2>2. new.step = "planned" /\ new.way = way /\ new.time = time
    BY DEF Idle
  <2>3. way \in {"pull", "push"} /\ (way = "push" => ~Present(l[2]))
    BY <1>1, <1>4 DEF Planned, ByContent
  <2>4. way = "pull" => time = mtime[l[2]]
    BY DEF Claim
  <2> HIDE DEF new, way, time
  <2>5. run'[l] = new /\ \A k \in Links \ {l} : run'[k] = run[k]
    BY <1>1, <2>1 DEF TypeOK
  <2>6. ASSUME NEW k \in Links \ {l} PROVE RunsRight(w, k)' = RunsRight(w, k)
    BY <1>1, <2>5 DEF RunsRight, ReadsRight, MergesRight, WritesRight, Behind, Sender, Receiver
  <2>7. CASE way = "pull"
    <3>1. Behind(w, l[2]) => copy[l[1]].rider = v /\ mtime[l[2]] <= mtime[l[1]]
      <4>1. SUFFICES ASSUME Behind(w, l[2])
                     PROVE  copy[l[1]].rider = v /\ mtime[l[2]] <= mtime[l[1]]
        OBVIOUS
      <4>2. copy[l[1]].rider = v
        BY <1>2, <4>1 DEF Behind
      <4>3. mtime[l[2]] < mtime[l[1]]
        BY <1>1, <4>1, <4>2 DEF Prevails
      <4>4. QED
        BY <1>1, <4>2, <4>3, RiderTypes
    <3>2. Behind(w, l[1]) => copy[l[2]].rider = v /\ mtime[l[1]] < mtime[l[2]]
      BY <1>1, <1>2 DEF Behind, Prevails
    <3>3. RunsRight(w, l)'
      BY <1>1, <2>2, <2>4, <2>5, <2>7, <3>1, <3>2
         DEF RunsRight, ReadsRight, Behind, Sender, Receiver
    <3>4. QED
      BY <1>1, <2>1, <2>6, <3>3 DEF Prevails, Behind
  <2>8. CASE way = "push"
    <3>1. copy[l[2]].rider = Unset
      BY <1>1, <2>3, <2>8, NoFileNoRider
    <3>2. copy[l[1]].rider = v
      BY <1>1, <1>2, <3>1 DEF Prevails
    <3>3. RunsRight(w, l)'
      BY <1>1, <2>2, <2>5, <2>8, <3>1, <3>2
         DEF RunsRight, ReadsRight, Behind, Sender, Receiver
    <3>4. QED
      BY <1>1, <2>1, <2>6, <3>3 DEF Prevails, Behind
  <2>9. QED
    BY <2>3, <2>7, <2>8
<1>5. QED
  BY <1>3, <1>4

(* Steps of one run that change no file. *)
LEMMA RiderUntouched ==
    ASSUME UNCHANGED <<copy, mtime>>, NEW l \in Links, done' = done,
           \A k \in Links \ {l} : run'[k] = run[k],
           NEW w \in Devices, Prevails(w), run'[l].fresh => RunsRight(w, l)'
    PROVE  Prevails(w)'
<1>1. ASSUME NEW k \in Links \ {l} PROVE RunsRight(w, k)' = RunsRight(w, k)
  BY DEF RunsRight, ReadsRight, MergesRight, WritesRight, Behind, Sender, Receiver
<1>2. \A k \in Links : run'[k].fresh => RunsRight(w, k)'
  BY <1>1 DEF Prevails
<1>3. QED
  BY <1>2 DEF Prevails, Behind

LEMMA FetchRider ==
    ASSUME Pair, IInv, class = "session", NEW l \in Links, Fetch(l),
           NEW w \in Devices, Prevails(w)
    PROVE  Prevails(w)'
<1> DEFINE s == Sender(l)
           r == Receiver(l)
           v == copy[w].rider
<1>1. /\ UNCHANGED <<copy, mtime, done>> /\ TypeOK /\ run[l].step = "planned"
      /\ s \in Devices /\ r \in Devices /\ s # r
  BY LinkEnds DEF Fetch, IInv, Sender, Receiver, Links
<1>2. /\ run'[l].got = copy[s] /\ run'[l].step = "fetched" /\ run'[l].time = run[l].time
      /\ run'[l].fresh = run[l].fresh /\ run'[l].way = run[l].way
      /\ \A k \in Links \ {l} : run'[k] = run[k]
  BY <1>1 DEF Fetch, TypeOK, Runs
<1>3. Receiver(l)' = r
  BY <1>2 DEF Receiver
<1>4. copy[s].rider = v \/ copy[r].rider = v
  BY <1>1 DEF Pair
<1>5. v = Unset => copy[s].rider = Unset /\ copy[r].rider = Unset
  BY <1>1 DEF Prevails
<1>6. ASSUME run[l].fresh
      PROVE  MergeField(copy[r].rider, copy[s].rider, mtime[r] >= run[l].time) = v
  <2>1. ReadsRight(w, l) /\ mtime[r] \in Nat /\ run[l].time \in Nat
    BY <1>1, <1>6, RiderTypes DEF Prevails, RunsRight
  <2>2. CASE copy[s].rider = v
    <3>1. CASE copy[r].rider \in {v, Unset}
      BY <1>5, <2>2, <3>1 DEF MergeField
    <3>2. CASE copy[r].rider \notin {v, Unset}
      BY <1>5, <2>1, <2>2, <3>2 DEF ReadsRight, Behind, MergeField
    <3>3. QED
      BY <3>1, <3>2
  <2>3. CASE copy[s].rider # v /\ copy[s].rider = Unset
    BY <1>4, <2>3 DEF MergeField
  <2>4. CASE copy[s].rider # v /\ copy[s].rider # Unset
    BY <1>5, <2>1, <2>4 DEF ReadsRight, Behind, MergeField
  <2>5. QED
    BY <2>2, <2>3, <2>4
<1>7. run'[l].fresh => RunsRight(w, l)'
  <2>1. SUFFICES ASSUME run'[l].fresh PROVE RunsRight(w, l)'
    OBVIOUS
  <2>2. run[l].fresh /\ RunsRight(w, l)
    BY <1>2, <2>1 DEF Prevails
  <2>3. MergesRight(w, l)'
    BY <1>1, <1>2, <1>3, <1>6, <2>2 DEF MergesRight
  <2>4. QED
    BY <1>1, <1>2, <2>2, <2>3 DEF RunsRight, Behind
<1>8. QED
  BY <1>1, <1>2, <1>7, RiderUntouched

LEMMA MergeRider ==
    ASSUME IInv, class = "session", NEW l \in Links, MergeSession(l),
           NEW w \in Devices, Prevails(w)
    PROVE  Prevails(w)'
<1> DEFINE r == Receiver(l)
           v == copy[w].rider
<1>1. /\ UNCHANGED <<copy, mtime, done>> /\ TypeOK /\ run[l].step = "fetched"
      /\ r \in Devices
  BY LinkEnds DEF MergeSession, IInv
<1>2. /\ run'[l].got = run[l].got /\ run'[l].step = "merged" /\ run'[l].base = copy[r]
      /\ run'[l].merged = Merge(copy[r], run[l].got, mtime[r] >= run[l].time)
      /\ run'[l].fresh = run[l].fresh /\ run'[l].way = run[l].way
      /\ \A k \in Links \ {l} : run'[k] = run[k]
  BY <1>1 DEF MergeSession, TypeOK, Runs
<1>3. Receiver(l)' = r
  BY <1>2 DEF Receiver
<1>4. run'[l].merged.rider
          = MergeField(copy[r].rider, run[l].got.rider, mtime[r] >= run[l].time)
  <2>1. "rider" \in DOMAIN copy[r]
    BY <1>1, RiderTypes DEF TypeOK, Copies
  <2>2. QED
    BY <1>2, <2>1 DEF Merge, MergedPart
<1>5. run'[l].fresh => RunsRight(w, l)'
  <2>1. SUFFICES ASSUME run'[l].fresh PROVE RunsRight(w, l)'
    OBVIOUS
  <2>2. RunsRight(w, l) /\ MergesRight(w, l)
    BY <1>1, <1>2, <2>1 DEF Prevails, RunsRight
  <2>3. run'[l].merged.rider = v
    BY <1>4, <2>2 DEF MergesRight
  <2>4. v = Unset => run[l].got.rider = Unset
    BY <2>2 DEF MergesRight, MergeField
  <2>5. WritesRight(w, l)'
    BY <1>1, <1>2, <1>3, <2>3, <2>4 DEF WritesRight
  <2>6. QED
    BY <1>1, <1>2, <2>2, <2>5 DEF RunsRight, Behind
<1>6. QED
  BY <1>1, <1>2, <1>5, RiderUntouched

LEMMA FailRider ==
    ASSUME IInv, NEW l \in Links, Fail(l), NEW w \in Devices, Prevails(w)
    PROVE  Prevails(w)'
<1>1. UNCHANGED <<copy, mtime>> /\ TypeOK
  BY DEF Fail, IInv
<1>2. Ended(l) /\ (\A k \in Links \ {l} : run'[k] = run[k]) /\ done' = done
  BY <1>1, EndRuns DEF Fail
<1>3. QED
  BY <1>1, <1>2, RiderUntouched DEF Ended

(* What a fresh run writes has the prevailing rider, in the newest file.   *)
LEMMA WriteRider ==
    ASSUME ~Ties, Pair, IInv, MergeInvariant, NEW l \in Links, NEW t \in Times,
           WriteSession(l, t), run[l].fresh, NEW w \in Devices, Prevails(w)
    PROVE  Prevails(w)'
<1> DEFINE r == Receiver(l)
           v == copy[w].rider
<1>1. /\ run[l].step = "merged" /\ class = "session" /\ TypeOK /\ r \in Devices
      /\ copy' = [copy EXCEPT ![r] = Rederived(l, t)] /\ mtime' = [mtime EXCEPT ![r] = t]
      /\ Settle(l)
  BY LinkEnds DEF WriteSession, IInv, MergedRight
<1>2. /\ copy'[r] = Rederived(l, t) /\ mtime'[r] = t
      /\ \A d \in Devices : d # r => copy'[d] = copy[d] /\ mtime'[d] = mtime[d]
  BY <1>1 DEF TypeOK
<1>3. /\ t \in Nat /\ \A d \in Devices : mtime[d] \in Nat /\ mtime[d] < t
      /\ \A k \in Links : run[k].time \in Nat /\ run[k].time < t
  <2>1. t = now + 1 /\ now \in Nat
    BY <1>1 DEF Times, TypeOK
  <2>2. QED
    BY <1>1, <2>1, RiderTypes DEF MergeInvariant, FilesBefore
<1>4. /\ Ended(l) /\ \A k \in Links \ {l} : run'[k] = run[k]
      /\ done' = done \cup {l}
  BY <1>1, EndRuns DEF Settle
<1>5. RunsRight(w, l) /\ WritesRight(w, l)
  BY <1>1 DEF Prevails, RunsRight
<1>6. copy'[r].rider = v
  <2>1. CASE copy[r] = run[l].base
    BY <1>2, <1>5, <2>1 DEF Rederived, WritesRight
  <2>2. CASE copy[r] # run[l].base
    <3>1. copy'[r] = Merge(copy[r], run[l].got, t >= run[l].time)
      BY <1>2, <2>2 DEF Rederived
    <3>2. "rider" \in DOMAIN copy[r]
      BY <1>1, RiderTypes DEF TypeOK, Copies
    <3>3. copy'[r].rider = MergeField(copy[r].rider, run[l].got.rider, t >= run[l].time)
      BY <3>1, <3>2 DEF Merge, MergedPart
    <3>4. t >= run[l].time
      BY <1>3
    <3>5. QED
      BY <1>5, <2>2, <3>3, <3>4 DEF WritesRight, MergeField
  <2>3. QED
    BY <2>1, <2>2
<1>7. v' = v
  BY <1>2, <1>6
<1>8. v' = Unset => \A d \in Devices : copy'[d].rider = Unset
  BY <1>2, <1>6, <1>7 DEF Prevails
<1>9. \A d \in Devices : Behind(w, d)' => d # r /\ Behind(w, d)
  BY <1>2, <1>6, <1>7 DEF Behind
<1>10. ASSUME NEW d \in Devices, NEW e \in Devices, Behind(w, d)', copy'[e].rider = v'
       PROVE  mtime'[d] < mtime'[e]
  <2>1. d # r /\ Behind(w, d) /\ mtime'[d] = mtime[d]
    BY <1>2, <1>9, <1>10
  <2>2. CASE e = r
    BY <1>2, <1>3, <2>1, <2>2
  <2>3. CASE e # r
    BY <1>2, <1>7, <1>10, <2>1, <2>3 DEF Prevails
  <2>4. QED
    BY <2>2, <2>3
<1>11. \A k \in Links : k[1] \in Devices /\ k[2] \in Devices
  BY LinkIs
<1>12. ASSUME NEW k \in done' PROVE copy'[k[1]].rider = v'
  <2>1. CASE k \in done
    BY <1>1, <1>2, <1>6, <1>7, <1>11, <2>1 DEF Prevails, TypeOK
  <2>2. CASE k = l
    <3>1. CASE run[l].way = "pull"
      BY <1>6, <1>7, <2>2, <3>1 DEF Receiver
    <3>2. CASE run[l].way # "pull"
      <4>1. copy[l[1]].rider = v
        BY <1>1, <1>5, <3>2 DEF RunsRight, TypeOK, Runs
      <4>2. QED
        BY <1>2, <1>6, <1>7, <1>11, <2>2, <4>1
    <3>3. QED
      BY <3>1, <3>2
  <2>3. QED
    BY <1>4, <1>12, <2>1, <2>2
<1>13. ASSUME NEW k \in Links \ {l}, run'[k].fresh PROVE RunsRight(w, k)'
  <2> DEFINE s == Sender(k)
             u == Receiver(k)
  <2>1. run'[k] = run[k] /\ RunsRight(w, k) /\ s' = s /\ u' = u
    BY <1>4, <1>13 DEF Prevails, Sender, Receiver
  <2>2. s \in Devices /\ u \in Devices
    BY LinkEnds, <1>11 DEF Sender, Receiver
  <2>3. copy[u].rider = v => copy'[u].rider = v
    BY <1>2, <1>6, <2>2
  <2>4. copy[s].rider = v => copy'[s].rider = v
    BY <1>2, <1>6, <2>2
  <2> HIDE DEF s, u
  <2>5. run[k].way = "push" => copy'[k[1]].rider = v' /\ ~Behind(w, k[2])'
    BY <1>2, <1>6, <1>7, <1>9, <1>11, <2>1 DEF RunsRight
  <2>6. CASE run[k].step = "planned"
    <3>1. ReadsRight(w, k)
      BY <2>1, <2>6 DEF RunsRight
    <3>2. Behind(w, s)' => copy'[u].rider = v' /\ run[k].time <= mtime'[u]
      <4>1. SUFFICES ASSUME Behind(w, s)'
                     PROVE  copy'[u].rider = v' /\ run[k].time <= mtime'[u]
        OBVIOUS
      <4>2. Behind(w, s)
        BY <1>9, <2>1, <2>2, <4>1 DEF Behind
      <4>3. copy[u].rider = v /\ run[k].time <= mtime[u]
        BY <3>1, <4>2 DEF ReadsRight, s, u
      <4>4. run[k].time <= mtime'[u]
        BY <1>2, <1>3, <2>2, <4>3
      <4>5. QED
        BY <1>7, <2>3, <4>3, <4>4
    <3>3. Behind(w, u)' => copy'[s].rider = v' /\ mtime'[u] < run[k].time
      <4>1. SUFFICES ASSUME Behind(w, u)'
                     PROVE  copy'[s].rider = v' /\ mtime'[u] < run[k].time
        OBVIOUS
      <4>2. u # r /\ Behind(w, u)
        BY <1>9, <2>1, <2>2, <4>1 DEF Behind
      <4>3. copy[s].rider = v /\ mtime[u] < run[k].time
        BY <3>1, <4>2 DEF ReadsRight, s, u
      <4>4. QED
        BY <1>2, <1>7, <2>2, <2>4, <4>2, <4>3
    <3>4. ReadsRight(w, k)'
      BY <2>1, <3>2, <3>3 DEF ReadsRight, s, u
    <3>5. QED
      BY <2>1, <2>5, <2>6, <3>4 DEF RunsRight
  <2>7. CASE run[k].step = "fetched"
    <3>1. MergeField(copy[u].rider, run[k].got.rider, mtime[u] >= run[k].time) = v
      BY <2>1, <2>7 DEF RunsRight, MergesRight, u
    <3>2. MergeField(copy'[u].rider, run[k].got.rider, mtime'[u] >= run[k].time) = v
      <4>1. CASE u # r
        BY <1>2, <2>2, <3>1, <4>1
      <4>2. CASE u = r
        <5>1. mtime'[u] >= run[k].time
          BY <1>2, <1>3, <4>2
        <5>2. v = Unset => run[k].got.rider = Unset
          BY <3>1 DEF MergeField
        <5>3. QED
          BY <1>6, <4>2, <5>1, <5>2 DEF MergeField
      <4>3. QED
        BY <4>1, <4>2
    <3>3. MergesRight(w, k)'
      BY <1>7, <2>1, <3>2 DEF MergesRight, u
    <3>4. QED
      BY <2>1, <2>5, <2>7, <3>3 DEF RunsRight
  <2>8. CASE run[k].step = "merged"
    <3>1. WritesRight(w, k)
      BY <2>1, <2>8 DEF RunsRight
    <3>2. copy'[u] = run[k].base \/ copy'[u].rider = v
      <4>1. CASE u # r
        BY <1>2, <2>2, <3>1, <4>1 DEF WritesRight, u
      <4>2. CASE u = r
        BY <1>6, <4>2
      <4>3. QED
        BY <4>1, <4>2
    <3>3. WritesRight(w, k)'
      BY <1>7, <2>1, <3>1, <3>2 DEF WritesRight, u
    <3>4. QED
      BY <2>1, <2>5, <2>8, <3>3 DEF RunsRight
  <2>9. QED
    BY <2>1, <2>5, <2>6, <2>7, <2>8 DEF RunsRight
<1>14. \A k \in Links : run'[k].fresh => RunsRight(w, k)'
  BY <1>4, <1>13 DEF Ended
<1>15. QED
  BY <1>8, <1>10, <1>12, <1>14 DEF Prevails

LEMMA NextRider ==
    ASSUME ~Ties, Pair, IInv, MergeInvariant, NoFileNoFields, OneWriteAtATime,
           RiderSettling, [Next]_vars
    PROVE  RiderSettling'
<1>1. /\ TypeOK /\ class' = class /\ IInv' /\ NoFileNoFields' /\ OneWriteAtATime'
  BY NextInv, FilesKept, OneWriteKept
     DEF IInv, Next, Edit, Clear, Plan, Fetch, Install, MergeSession, Fail, WriteSession, vars
<1>2. SUFFICES ASSUME class = "session", Devices # {} PROVE RiderSettling'
  BY <1>1 DEF RiderSettling
<1>3. PICK w \in Devices : Prevails(w)
  BY <1>2 DEF RiderSettling
<1>4. ASSUME Prevails(w)' PROVE RiderSettling'
  BY <1>4 DEF RiderSettling
<1>5. ASSUME AllOpen' PROVE RiderSettling'
  BY <1>1, <1>5, UnsettledRiderNext
<1>6. ASSUME Unsettle PROVE RiderSettling'
  <2>1. AllOpen'
    BY <1>1, <1>6, UnsettleRuns DEF AllOpen
  <2>2. QED
    BY <1>5, <2>1
<1>7. ASSUME NEW l \in Links, Plan(l) PROVE RiderSettling'
  BY <1>2, <1>3, <1>4, <1>7, PlanRider
<1>8. ASSUME NEW l \in Links, Fetch(l) PROVE RiderSettling'
  BY <1>2, <1>3, <1>4, <1>8, FetchRider
<1>9. ASSUME NEW l \in Links, MergeSession(l) PROVE RiderSettling'
  BY <1>2, <1>3, <1>4, <1>9, MergeRider
<1>10. ASSUME NEW l \in Links, Fail(l) PROVE RiderSettling'
  BY <1>3, <1>4, <1>10, FailRider
<1>11. ASSUME NEW l \in Links, NEW t \in Times, WriteSession(l, t) PROVE RiderSettling'
  <2>1. CASE run[l].fresh
    BY <1>3, <1>4, <1>11, <2>1, WriteRider
  <2>2. CASE ~run[l].fresh
    <3>1. AllOpen'
      BY <1>1, <1>11, <2>2, SettleRuns DEF WriteSession, AllOpen
    <3>2. QED
      BY <1>5, <3>1
  <2>3. QED
    BY <2>1, <2>2
<1>12. ASSUME NEW l \in Links, Install(l) PROVE RiderSettling'
  BY <1>2, <1>12 DEF Install
<1>13. CASE UNCHANGED vars
  <2>1. Prevails(w)'
    BY <1>3, <1>13 DEF vars, Prevails, RunsRight, ReadsRight, MergesRight, WritesRight,
       Behind, Sender, Receiver
  <2>2. QED
    BY <1>4, <2>1
<1>14. QED
  BY <1>6, <1>7, <1>8, <1>9, <1>10, <1>11, <1>12, <1>13 DEF Next, Edit, Clear

-----------------------------------------------------------------------------
LEMMA InitPair == Pair => (Init => PairInvariant)
<1> SUFFICES ASSUME Pair, Init PROVE PairInvariant
  OBVIOUS
<1>1. /\ \A l \in Links : ~run[l].fresh /\ run[l].way = "pull"
      /\ done = {} /\ \A d \in Devices : copy[d] = Absent(class)
  BY DEF Init, Idle
<1>2. PushClaims /\ DataSettling
  BY <1>1 DEF PushClaims, DataSettling, Pulls
<1>3. OneWriteAtATime
  BY <1>1, PartsOfClass DEF OneWriteAtATime, Absent
<1>4. RiderSettling
  BY <1>1, <1>3, InitInv, InitSettling, UnsettledRider DEF SettlingInvariant, AllOpen
<1>5. QED
  BY <1>2, <1>3, <1>4 DEF PairInvariant

LEMMA NextPair ==
    ASSUME ~Ties, Pair
    PROVE  IInv /\ MergeInvariant /\ SettlingInvariant /\ PairInvariant /\ [Next]_vars
               => PairInvariant'
  BY PushClaimsKept, NextData, OneWriteKept, NextRider DEF PairInvariant, SettlingInvariant

(* When both runs are done, the riders and the versions are the same.      *)
LEMMA PairAgrees ==
    ASSUME IInv, PairInvariant PROVE PairConverged
<1>1. SUFFICES ASSUME done = Links, NEW d \in Devices, NEW e \in Devices, d # e
               PROVE  /\ class = "session" => copy[d].rider = copy[e].rider
                      /\ class = "data" => copy[d].columns.at = copy[e].columns.at
  BY DEF PairConverged
<1>2. <<d, e>> \in done /\ <<e, d>> \in done
  BY <1>1 DEF Links
<1>3. ASSUME class = "session" PROVE copy[d].rider = copy[e].rider
  <2>1. PICK w \in Devices : Prevails(w)
    BY <1>1, <1>3 DEF PairInvariant, RiderSettling
  <2>2. copy[<<d, e>>[1]].rider = copy[w].rider /\ copy[<<e, d>>[1]].rider = copy[w].rider
    BY <1>2, <2>1 DEF Prevails
  <2>3. QED
    BY <2>2
<1>4. ASSUME class = "data" PROVE copy[d].columns.at = copy[e].columns.at
  <2>1. copy[<<d, e>>[1]].columns.at = copy[<<d, e>>[2]].columns.at
    BY <1>2, <1>4 DEF PairInvariant, DataSettling
  <2>2. QED
    BY <2>1
<1>5. QED
  BY <1>3, <1>4

(* Where no two changes fall into one millisecond, two devices agree on a  *)
(* session's plain field and on the version of its data.parquet once each  *)
(* has had an unbroken run with the other (plan_sync, install_session_json *)
(* and install_data_parquet), though a field carries no time of its own    *)
(* and the peer's server refuses every data.parquet that is pushed.        *)
THEOREM PairsConverge == ASSUME ~Ties PROVE Spec => []PairConverged
<1>1. CASE Pair
  <2>1. Init => PairInvariant
    BY <1>1, InitPair
  <2>2. IInv /\ MergeInvariant /\ SettlingInvariant /\ PairInvariant /\ [Next]_vars
            => PairInvariant'
    BY <1>1, NextPair
  <2>3. IInv /\ PairInvariant => PairConverged
    BY PairAgrees
  <2>4. QED
    BY <2>1, <2>2, <2>3, InitInv, NextInv, InitMerge, NextMerge, InitSettling, NextSettling,
       PTL DEF Spec
<1>2. CASE ~Pair
  <2>1. PairConverged
    BY <1>2 DEF PairConverged, Pair
  <2>2. QED
    BY <2>1, PTL
<1>3. QED
  BY <1>1, <1>2
=============================================================================
