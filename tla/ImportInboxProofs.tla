-------------------------- MODULE ImportInboxProofs --------------------------
(***************************************************************************)
(* What ImportInbox keeps for any names, contents, sessions and bounds:    *)
(* the type invariant, that nothing put in the inbox is lost, that no      *)
(* import or lap index undoes a rider's edit, and that a session of which  *)
(* a log is stored is whole or can be imported again.                      *)
(***************************************************************************)
EXTENDS ImportInbox, TLAPS

(* Where a handler holds the content it read, and where that is stored. *)
Stored == {"stored", "regenerate", "write", "written", "nodoc", "indexing", "merging",
           "imported"}
Holding == Stored \cup {"parsed"}

(* A handler has a file under its name, ... *)
HasFile == \A n \in Names : job[n].step # "idle" => inbox[n] # None

(* ... which is the last the user put there, ... *)
Latest == \A n \in Names : inbox[n] # None => inbox[n] = given[n]

(* ... and the one it read, or a late one; ... *)
AsRead == \A n \in Names : job[n].step \in Holding =>
             /\ job[n].content \in Contents
             /\ SessionOf[job[n].content] \in Sessions
             /\ inbox[n] \in {job[n].content} \cup replaced

(* ... what it stored is stored. *)
InStore == \A n \in Names : job[n].step \in Stored => job[n].content \in blobs

Replacing == \A s \in Sessions : job[s].step = "replacing" => job[s].content \in Contents

IInv == TypeOK /\ HasFile /\ Latest /\ AsRead /\ InStore /\ Replacing /\ NothingLost

Handler == [step : Steps, content : Contents \cup {None}, seen : Parquet \cup Doc \cup {None}]

USE NoneAssumption, SessionOfAssumption, JobsAssumption, BoundsAssumption

-----------------------------------------------------------------------------
(* The initial state has the invariant. *)
LEMMA InitInv == Init => IInv
<1> SUFFICES ASSUME Init PROVE IInv
  OBVIOUS
<1>1. \A j \in Jobs : job[j] = Idle
  BY DEF Init
<1>2. Idle \in Handler
  BY DEF Idle, Handler, Steps
<1>3. TypeOK
  BY <1>2, SMT DEF Init, TypeOK, Handler, Versions
<1>4. QED
  BY <1>1, <1>3, SMT DEF Init, IInv, HasFile, Latest, AsRead, InStore, Replacing,
         NothingLost, Idle, Stored, Holding, Jobs

(* Moving one job to another step changes that step only. *)
LEMMA GoStep ==
    ASSUME TypeOK, NEW j \in Jobs, NEW step \in Steps, Go(j, step)
    PROVE  /\ job' \in [Jobs -> Handler]
           /\ job'[j].step = step
           /\ job'[j].content = job[j].content
           /\ job'[j].seen = job[j].seen
           /\ \A i \in Jobs \ {j} : job'[i] = job[i]
  BY SMT DEF TypeOK, Go, Handler

(* A finished job is idle. *)
LEMMA StopStep ==
    ASSUME TypeOK, NEW j \in Jobs, Stop(j)
    PROVE  /\ job' \in [Jobs -> Handler]
           /\ job'[j].step = "idle"
           /\ \A i \in Jobs \ {j} : job'[i] = job[i]
  BY SMT DEF TypeOK, Stop, Idle, Steps, Handler

(* Starting handlers for names that have a file. *)
LEMMA SpawnStep ==
    ASSUME TypeOK, NEW names \in SUBSET Names, job' = Spawned(names)
    PROVE  /\ job' \in [Jobs -> Handler]
           /\ \A j \in Jobs : job'[j] = job[j] \/
                  (j \in names /\ job[j].step = "idle" /\ job'[j].step = "settling")
  BY SMT DEF TypeOK, Spawned, Idle, Steps, Handler, Jobs

(* What a step of one job has to see to: its own part of the invariant.    *)
LEMMA OneJob ==
    ASSUME IInv, TypeOK', UNCHANGED folder, blobs \subseteq blobs',
           NEW j \in Jobs,
           \A i \in Jobs \ {j} : job'[i] = job[i],
           j \in Names =>
               /\ job[j].step # "idle" \/ job'[j].step = "idle"
               /\ job'[j].step \in Holding =>
                     /\ job'[j].content \in Contents
                     /\ SessionOf[job'[j].content] \in Sessions
                     /\ inbox[j] \in {job'[j].content} \cup replaced
               /\ job'[j].step \in Stored => job'[j].content \in blobs',
           j \in Sessions => (job'[j].step = "replacing" => job'[j].content \in Contents)
    PROVE  IInv'
<1> USE DEF IInv, folder, history
<1>1. HasFile'
  BY DEF HasFile, Jobs
<1>2. Latest'
  BY DEF Latest
<1>3. AsRead'
  BY DEF AsRead, Jobs
<1>4. InStore'
  BY DEF InStore, Jobs
<1>5. Replacing'
  BY DEF Replacing, Jobs
<1>6. NothingLost'
  BY DEF NothingLost
<1>7. QED
  BY <1>1, <1>2, <1>3, <1>4, <1>5, <1>6

(* The same when the step only moves the job on, from a step where it held *)
(* as much already.                                                        *)
LEMMA MoveOn ==
    ASSUME IInv, UNCHANGED <<app, version, folder, blobs>>, faults' \in 0..MaxFaults,
           parquet' \in [Sessions -> Parquet \cup {None}],
           doc' \in [Sessions -> Doc \cup {None}],
           NEW j \in Jobs, NEW step \in Steps \ {"replacing"}, Go(j, step),
           job[j].step # "idle",
           j \in Names => /\ step \in Holding => job[j].step \in Holding
                          /\ step \in Stored => job[j].step \in Stored
    PROVE  IInv'
<1> USE DEF IInv
<1>1. /\ job' \in [Jobs -> Handler]
      /\ job'[j].step = step
      /\ job'[j].content = job[j].content
      /\ \A i \in Jobs \ {j} : job'[i] = job[i]
  BY GoStep
<1>2. TypeOK'
  BY <1>1 DEF TypeOK, folder, history, Handler
<1>3. j \in Names => /\ job'[j].step \in Holding =>
                         /\ job'[j].content \in Contents
                         /\ SessionOf[job'[j].content] \in Sessions
                         /\ inbox[j] \in {job'[j].content} \cup replaced
                     /\ job'[j].step \in Stored => job'[j].content \in blobs'
  BY <1>1 DEF AsRead, InStore
<1>4. QED
  BY <1>1, <1>2, <1>3, OneJob

(* The same when the step ends the job and leaves the folder alone. *)
LEMMA End ==
    ASSUME IInv, UNCHANGED <<app, version, folder, blobs>>,
           parquet' \in [Sessions -> Parquet \cup {None}],
           doc' \in [Sessions -> Doc \cup {None}],
           faults' \in 0..MaxFaults,
           NEW j \in Jobs, Stop(j)
    PROVE  IInv'
<1> USE DEF IInv
<1>1. /\ job' \in [Jobs -> Handler]
      /\ job'[j].step = "idle"
      /\ \A i \in Jobs \ {j} : job'[i] = job[i]
  BY StopStep
<1>2. TypeOK'
  BY <1>1 DEF TypeOK, folder, history, Handler
<1>3. job'[j].step \notin Holding /\ job'[j].step \notin Stored
  BY <1>1 DEF Holding, Stored
<1>4. QED
  BY <1>1, <1>2, <1>3, OneJob

(* The steps of the library keep their files' shapes. *)
LEMMA ParquetSet ==
    ASSUME TypeOK, NEW s, NEW p \in Parquet \cup {None}, parquet' = [parquet EXCEPT ![s] = p]
    PROVE  parquet' \in [Sessions -> Parquet \cup {None}]
  BY DEF TypeOK

LEMMA DocSet ==
    ASSUME TypeOK, NEW s, NEW d \in Doc \cup {None}, doc' = [doc EXCEPT ![s] = d]
    PROVE  doc' \in [Sessions -> Doc \cup {None}]
  BY DEF TypeOK

(* index_laps is done: a rebuild ends, an import goes on to the deletion. *)
LEMMA IndexedStep ==
    ASSUME IInv, UNCHANGED <<app, version, folder, blobs>>, faults' \in 0..MaxFaults,
           parquet' \in [Sessions -> Parquet \cup {None}],
           doc' \in [Sessions -> Doc \cup {None}],
           NEW j \in Jobs, job[j].step \in {"indexing", "merging"},
           job' = [job EXCEPT ![j] = Indexed(j)]
    PROVE  IInv'
<1>1. CASE j \in Sessions
  <2>1. Stop(j)
    BY <1>1 DEF Indexed, Stop
  <2>2. QED
    BY <2>1, End
<1>2. CASE j \notin Sessions
  <2>1. Go(j, "imported")
    BY <1>2 DEF Indexed, Go, IInv, TypeOK, Handler
  <2>2. job[j].step \in Stored /\ job[j].step \in Holding /\ job[j].step # "idle"
    BY DEF Stored, Holding
  <2>3. "imported" \in Steps \ {"replacing"}
    BY DEF Steps
  <2>4. QED
    BY <2>1, <2>2, <2>3, MoveOn
<1>3. QED
  BY <1>1, <1>2

(* index_laps has read a session.json. *)
LEMMA MergingStep ==
    ASSUME IInv, UNCHANGED <<app, version, folder, library, faults>>,
           NEW j \in Jobs, NEW d \in Doc \cup {None}, job[j].step = "indexing",
           job' = [job EXCEPT ![j] = [job[j] EXCEPT !.step = "merging", !.seen = d]]
    PROVE  IInv'
<1> DEFINE new == [job[j] EXCEPT !.step = "merging", !.seen = d]
<1>1. job \in [Jobs -> Handler] /\ job[j] \in Handler /\ TypeOK
  BY DEF IInv, TypeOK, Handler
<1>2. new \in Handler /\ new.step = "merging" /\ new.content = job[j].content
  BY <1>1 DEF Handler, Steps
<1>3. /\ job' \in [Jobs -> Handler]
      /\ job'[j] = new
      /\ \A i \in Jobs \ {j} : job'[i] = job[i]
  BY <1>1, <1>2
<1>4. TypeOK'
  BY <1>1, <1>3 DEF TypeOK, folder, history, library, Handler
<1>5. j \in Names => /\ job[j].content \in Contents
                     /\ SessionOf[job[j].content] \in Sessions
                     /\ inbox[j] \in {job[j].content} \cup replaced
                     /\ job[j].content \in blobs
  BY DEF IInv, AsRead, InStore, Holding, Stored
<1>6. QED
  BY <1>2, <1>3, <1>4, <1>5, OneJob DEF library

(* It writes a session.json of the same shape. *)
LEMMA LapsType ==
    ASSUME IInv, NEW j \in Jobs, WriteLaps(j), SessionAt(j) \in Sessions
    PROVE  doc' \in [Sessions -> Doc \cup {None}]
<1> DEFINE s == SessionAt(j)
<1>1. TypeOK /\ doc[s] \in Doc \cup {None}
  BY DEF IInv, TypeOK
<1>2. CASE doc[s] = job[j].seen
  <2>1. WithLaps(job[j].seen) \in Doc
    BY <1>1, <1>2 DEF WithLaps, Doc
  <2>2. QED
    BY <1>1, <1>2, <2>1, DocSet DEF WriteLaps
<1>3. CASE doc[s] # job[j].seen
  BY <1>1, <1>3 DEF WriteLaps, TypeOK
<1>4. QED
  BY <1>2, <1>3

(* A file has left the inbox, and its handler has ended. *)
LEMMA FileGone ==
    ASSUME IInv, NEW n \in Names, Stop(n), NothingLost',
           inbox' = [inbox EXCEPT ![n] = None],
           failed' \in [Names -> Contents \cup {None}] \/ failed' = failed,
           UNCHANGED <<app, version, event, history, library, faults>>
    PROVE  IInv'
<1> USE DEF history, library
<1>1. TypeOK /\ n \in Jobs
  BY DEF IInv, Jobs
<1>2. /\ job' \in [Jobs -> Handler]
      /\ job'[n].step = "idle"
      /\ \A i \in Jobs \ {n} : job'[i] = job[i]
  BY <1>1, StopStep
<1>3. /\ inbox' \in [Names -> Contents \cup {None}]
      /\ inbox'[n] = None
      /\ \A m \in Names \ {n} : inbox'[m] = inbox[m]
  BY <1>1 DEF TypeOK
<1>4. TypeOK'
  BY <1>1, <1>2, <1>3 DEF TypeOK, Handler
<1>5. /\ \A m \in Names \ {n} : job'[m] = job[m]
      /\ \A s \in Sessions : job'[s] = job[s]
  BY <1>2 DEF Jobs
<1>6. HasFile' /\ Latest'
  BY <1>2, <1>3, <1>5 DEF IInv, HasFile, Latest
<1>7. AsRead' /\ InStore' /\ Replacing'
  BY <1>2, <1>3, <1>5 DEF IInv, AsRead, InStore, Replacing, Holding, Stored
<1>8. QED
  BY <1>4, <1>6, <1>7 DEF IInv

(* Each step of a handler keeps the invariant. *)
LEMMA HandleInv == \A n \in Names : IInv /\ Handle(n) => IInv'
<1> SUFFICES ASSUME NEW n \in Names, IInv, Handle(n) PROVE IInv'
  OBVIOUS
<1> USE DEF Jobs
<1>a. TypeOK /\ (faults' = faults => faults' \in 0..MaxFaults)
  BY DEF IInv, TypeOK
<1>b. /\ parquet' = parquet => parquet' \in [Sessions -> Parquet \cup {None}]
      /\ doc' = doc => doc' \in [Sessions -> Doc \cup {None}]
  BY <1>a DEF TypeOK
<1>s. Steps \ {"replacing"} =
        {"idle", "settling", "settled", "parsed", "stored", "regenerate", "write",
         "written", "nodoc", "indexing", "merging", "imported", "failing"}
  BY DEF Steps
<1>h. job[n].step \in Holding => job[n].content \in Contents /\ SessionAt(n) \in Sessions
  BY DEF IInv, AsRead, SessionAt
<1>1. CASE Settle(n)
  <2>1. Go(n, "settled") /\ job[n].step = "settling"
    BY <1>1 DEF Settle, At
  <2>2. QED
    BY <1>1, <2>1, <1>a, <1>b, <1>s, MoveOn DEF Settle, library, Holding, Stored
<1>2. CASE Read(n)
  <2> DEFINE c == inbox[n]
             step == IF SessionOf[c] = None THEN "failing" ELSE "parsed"
  <2>1. c \in Contents
    BY <1>2 DEF Read, At, IInv, HasFile, TypeOK
  <2>2. job' = [job EXCEPT ![n].step = step, ![n].content = c]
    BY <1>2 DEF Read
  <2>3. /\ job' \in [Jobs -> Handler]
        /\ job'[n].step = step
        /\ job'[n].content = c
        /\ \A i \in Jobs \ {n} : job'[i] = job[i]
    <3>1. job \in [Jobs -> Handler] /\ job[n] \in Handler
      BY <1>a DEF TypeOK, Handler
    <3>2. step \in Steps
      BY DEF Steps
    <3>3. [job[n] EXCEPT !.step = step, !.content = c] \in Handler
      BY <2>1, <3>1, <3>2 DEF Handler
    <3>4. /\ [job[n] EXCEPT !.step = step, !.content = c].step = step
          /\ [job[n] EXCEPT !.step = step, !.content = c].content = c
      BY <3>1 DEF Handler
    <3>5. job' = [job EXCEPT ![n] = [job[n] EXCEPT !.step = step, !.content = c]]
      BY <2>2
    <3>6. QED
      BY <3>1, <3>3, <3>4, <3>5
  <2>4. SessionOf[c] # None => SessionOf[c] \in Sessions
    BY <2>1
  <2>5. UNCHANGED <<app, version, folder, library, faults>> /\ job[n].step # "idle"
    BY <1>2 DEF Read, At
  <2>6. TypeOK'
    BY <2>3, <2>5, <1>a DEF TypeOK, folder, history, library, Handler
  <2>7. /\ job'[n].step \notin Stored
        /\ job'[n].step \in Holding => SessionOf[c] # None
    BY <2>3 DEF Holding, Stored
  <2>8. QED
    BY <2>1, <2>3, <2>4, <2>5, <2>6, <2>7, OneJob DEF library
<1>3. CASE WriteBlob(n)
  <2>1. Go(n, "stored") /\ job[n].step = "parsed"
    BY <1>3 DEF WriteBlob, At
  <2>2. UNCHANGED <<app, version, folder, parquet, doc, faults>>
    BY <1>3 DEF WriteBlob
  <2>3. blobs' = blobs \cup {job[n].content} /\ job[n].content \in Contents
    BY <1>3, <1>h, <2>1 DEF WriteBlob, Holding
  <2>4. /\ job' \in [Jobs -> Handler]
        /\ job'[n].step = "stored"
        /\ job'[n].content = job[n].content
        /\ \A i \in Jobs \ {n} : job'[i] = job[i]
    BY <2>1, <1>a, GoStep DEF Steps
  <2>5. TypeOK'
    BY <2>2, <2>3, <2>4, <1>a DEF TypeOK, folder, history, Handler
  <2>6. /\ SessionOf[job[n].content] \in Sessions
        /\ inbox[n] \in {job[n].content} \cup replaced
    BY <2>1 DEF IInv, AsRead, Holding
  <2>7. QED
    BY <2>1, <2>2, <2>3, <2>4, <2>5, <2>6, OneJob
<1>4. CASE PlanImport(n)
  <2>1. PlanOf(parquet[SessionAt(n)], job[n].content)
            \in {"write", "failing", "written", "regenerate"}
    BY DEF PlanOf
  <2>2. /\ Go(n, PlanOf(parquet[SessionAt(n)], job[n].content))
        /\ job[n].step = "stored"
    BY <1>4 DEF PlanImport, At
  <2>3. QED
    BY <1>4, <2>1, <2>2, <1>a, <1>b, <1>s, MoveOn DEF PlanImport, library, Holding, Stored
<1>5. CASE RemoveStale(n)
  <2>1. /\ job[n].step = "regenerate"
        /\ Go(n, IF parquet[SessionAt(n)] = None THEN "failing" ELSE "write")
    BY <1>5 DEF RemoveStale, At
  <2>2. parquet' \in [Sessions -> Parquet \cup {None}]
    BY <1>5, <1>a, ParquetSet DEF RemoveStale
  <2>3. QED
    BY <1>5, <2>1, <2>2, <1>a, <1>b, <1>s, MoveOn DEF RemoveStale, Holding, Stored
<1>6. CASE WriteParquet(n)
  <2>1. job[n].step = "write" /\ job[n].content \in Contents
    BY <1>6, <1>h DEF WriteParquet, At, Holding, Stored
  <2>2. [blob |-> job[n].content, version |-> version] \in Parquet
    BY <2>1, <1>a DEF Parquet, TypeOK
  <2>3. parquet' \in [Sessions -> Parquet \cup {None}]
    BY <1>6, <2>2, <1>a, <1>b, ParquetSet DEF WriteParquet
  <2>4. Go(n, "written") \/ Go(n, "failing")
    BY <1>6 DEF WriteParquet
  <2>5. UNCHANGED <<app, version, folder, blobs, doc, faults>>
    BY <1>6 DEF WriteParquet
  <2>6. CASE Go(n, "written")
    BY <2>1, <2>3, <2>5, <2>6, <1>a, <1>b, <1>s, MoveOn DEF Holding, Stored
  <2>7. CASE Go(n, "failing")
    BY <2>1, <2>3, <2>5, <2>7, <1>a, <1>b, <1>s, MoveOn DEF Holding, Stored
  <2>8. QED
    BY <2>4, <2>6, <2>7
<1>7. CASE CheckDoc(n)
  <2>1. /\ job[n].step = "written"
        /\ Go(n, IF doc[SessionAt(n)] = None THEN "nodoc" ELSE "indexing")
    BY <1>7 DEF CheckDoc, At
  <2>2. QED
    BY <1>7, <2>1, <1>a, <1>b, <1>s, MoveOn DEF CheckDoc, library, Holding, Stored
<1>8. CASE CreateDoc(n)
  <2>1. job[n].step = "nodoc" /\ UNCHANGED <<app, version, folder, blobs, parquet, faults>>
    BY <1>8 DEF CreateDoc, At
  <2>2. [edits |-> 0, laps |-> FALSE] \in Doc
    BY DEF Doc
  <2>3. doc' \in [Sessions -> Doc \cup {None}]
    BY <1>8, <2>2, <1>a, <1>b, DocSet DEF CreateDoc
  <2>4. Go(n, "indexing") \/ Go(n, "failing")
    BY <1>8 DEF CreateDoc
  <2>5. CASE Go(n, "indexing")
    BY <2>1, <2>3, <2>5, <1>a, <1>b, <1>s, MoveOn DEF Holding, Stored
  <2>6. CASE Go(n, "failing")
    BY <2>1, <2>3, <2>6, <1>a, <1>b, <1>s, MoveOn DEF Holding, Stored
  <2>7. QED
    BY <2>4, <2>5, <2>6
<1>9. CASE ReadDoc(n)
  <2> DEFINE s == SessionAt(n)
  <2>1. job[n].step = "indexing" /\ UNCHANGED <<app, version, folder, library, faults>>
    BY <1>9 DEF ReadDoc, At
  <2>2. CASE job' = [job EXCEPT ![n] = Indexed(n)]
    BY <2>1, <2>2, <1>a, <1>b, IndexedStep DEF library
  <2>3. CASE job' = [job EXCEPT ![n] = [job[n] EXCEPT !.step = "merging", !.seen = doc[s]]]
    <3>1. s \in Sessions /\ doc[s] \in Doc \cup {None}
      BY <2>1, <1>a, <1>h DEF TypeOK, Holding, Stored
    <3>2. QED
      BY <2>1, <2>3, <3>1, MergingStep
  <2>4. QED
    BY <1>9, <2>2, <2>3 DEF ReadDoc
<1>10. CASE WriteLaps(n)
  <2>1. job[n].step = "merging" /\ job' = [job EXCEPT ![n] = Indexed(n)]
    BY <1>10 DEF WriteLaps, At
  <2>2. doc' \in [Sessions -> Doc \cup {None}]
    BY <1>10, <1>h, <2>1, LapsType DEF Holding, Stored
  <2>3. QED
    BY <1>10, <2>1, <2>2, <1>a, <1>b, IndexedStep DEF WriteLaps
<1>11. CASE Delete(n)
  <2>1. /\ job[n].step = "imported" /\ Stop(n)
        /\ inbox' = [inbox EXCEPT ![n] = None]
        /\ UNCHANGED <<app, version, failed, event, history, library, faults>>
    BY <1>11 DEF Delete, At
  <2>2. inbox[n] \in blobs \cup replaced
    BY <2>1 DEF IInv, AsRead, InStore, Holding, Stored
  <2>3. NothingLost'
    BY <2>1, <2>2, <1>a DEF IInv, NothingLost, Latest, HasFile, history, library, TypeOK
  <2>4. QED
    BY <2>1, <2>3, FileGone
<1>12. CASE MoveToFailed(n)
  <2>1. /\ job[n].step = "failing" /\ Stop(n)
        /\ inbox' = [inbox EXCEPT ![n] = None]
        /\ failed' = [failed EXCEPT ![n] = inbox[n]]
        /\ UNCHANGED <<app, version, event, history, library, faults>>
    BY <1>12 DEF MoveToFailed, At
  <2>2. inbox[n] = given[n]
    BY <2>1 DEF IInv, Latest, HasFile
  <2>3. NothingLost'
    BY <2>1, <2>2, <1>a DEF IInv, NothingLost, history, library, TypeOK
  <2>4. failed' \in [Names -> Contents \cup {None}]
    BY <2>1, <1>a DEF TypeOK
  <2>5. QED
    BY <2>1, <2>3, <2>4, FileGone
<1>13. QED
  BY <1>1, <1>2, <1>3, <1>4, <1>5, <1>6, <1>7, <1>8, <1>9, <1>10, <1>11, <1>12 DEF Handle

(* Each step of a rebuild keeps the invariant. *)
LEMMA RebuildInv == \A s \in Sessions : IInv /\ (Reimport(s) \/ Rebuild(s)) => IInv'
<1> SUFFICES ASSUME NEW s \in Sessions, IInv, Reimport(s) \/ Rebuild(s) PROVE IInv'
  OBVIOUS
<1> USE DEF Jobs
<1>a. TypeOK /\ (faults' = faults => faults' \in 0..MaxFaults)
  BY DEF IInv, TypeOK
<1>b. /\ parquet' = parquet => parquet' \in [Sessions -> Parquet \cup {None}]
      /\ doc' = doc => doc' \in [Sessions -> Doc \cup {None}]
  BY <1>a DEF TypeOK
<1>c. SessionAt(s) = s /\ s \notin Names
  BY DEF SessionAt
<1>1. CASE Reimport(s)
  <2> DEFINE p == parquet[s]
             new == [step |-> "replacing", content |-> p.blob, seen |-> p]
  <2>1. p \in Parquet /\ job' = [job EXCEPT ![s] = new]
    BY <1>1, <1>a DEF Reimport, TypeOK
  <2>2. new \in Handler /\ new.content \in Contents
    BY <2>1 DEF Handler, Parquet, Steps
  <2>3. UNCHANGED <<app, version, folder, library, faults>>
    BY <1>1 DEF Reimport
  <2>4. /\ job' \in [Jobs -> Handler]
        /\ job'[s] = new
        /\ \A i \in Jobs \ {s} : job'[i] = job[i]
    BY <2>1, <2>2, <1>a DEF TypeOK, Handler
  <2>5. TypeOK'
    BY <2>3, <2>4, <1>a DEF TypeOK, folder, history, library, Handler
  <2>6. QED
    BY <2>2, <2>3, <2>4, <2>5, <1>c, OneJob DEF library
<1>2. CASE Replace(s)
  <2>1. job[s].step = "replacing" /\ job[s].content \in Contents
    BY <1>2 DEF Replace, At, IInv, Replacing
  <2>2. [blob |-> job[s].content, version |-> version] \in Parquet
    BY <2>1, <1>a DEF Parquet, TypeOK
  <2>3. parquet' \in [Sessions -> Parquet \cup {None}]
    BY <1>2, <2>2, <1>a, <1>b, ParquetSet DEF Replace
  <2>4. UNCHANGED <<app, version, folder, blobs, doc, faults>>
    BY <1>2 DEF Replace
  <2>5. CASE Go(s, "indexing")
    BY <2>1, <2>3, <2>4, <2>5, <1>a, <1>b, <1>c, MoveOn DEF Steps
  <2>6. CASE Stop(s)
    BY <2>3, <2>4, <2>6, <1>a, <1>b, End
  <2>7. QED
    BY <1>2, <2>5, <2>6 DEF Replace
<1>3. CASE ReadDoc(s)
  <2>1. job[s].step = "indexing" /\ UNCHANGED <<app, version, folder, library, faults>>
    BY <1>3 DEF ReadDoc, At
  <2>2. CASE job' = [job EXCEPT ![s] = Indexed(s)]
    BY <2>1, <2>2, <1>a, <1>b, IndexedStep DEF library
  <2>3. CASE job' = [job EXCEPT ![s] = [job[s] EXCEPT !.step = "merging", !.seen = doc[s]]]
    <3>1. doc[s] \in Doc \cup {None}
      BY <1>a DEF TypeOK
    <3>2. QED
      BY <2>1, <2>3, <3>1, MergingStep
  <2>4. QED
    BY <1>3, <2>2, <2>3, <1>c DEF ReadDoc
<1>4. CASE WriteLaps(s)
  <2>1. job[s].step = "merging" /\ job' = [job EXCEPT ![s] = Indexed(s)]
    BY <1>4 DEF WriteLaps, At
  <2>2. doc' \in [Sessions -> Doc \cup {None}]
    BY <1>4, <1>c, LapsType
  <2>3. QED
    BY <1>4, <2>1, <2>2, <1>a, <1>b, IndexedStep DEF WriteLaps
<1>5. QED
  BY <1>1, <1>2, <1>3, <1>4 DEF Rebuild

-----------------------------------------------------------------------------
(* Handlers start for names that have a file, or end all at once. *)
LEMMA JobsReset ==
    ASSUME IInv, UNCHANGED <<inbox, failed, history, library, faults>>,
           app' \in {"down", "scanned", "watching"}, version' \in Versions,
           event' \subseteq Names, job' \in [Jobs -> Handler],
           \A j \in Jobs :
               \/ job'[j] = job[j]
               \/ job'[j].step = "idle"
               \/ j \in Names /\ job'[j].step = "settling" /\ inbox[j] # None
    PROVE  IInv'
<1> USE DEF history, library
<1>1. TypeOK'
  BY DEF IInv, TypeOK, Handler
<1>2. HasFile' /\ Latest' /\ NothingLost'
  BY DEF IInv, HasFile, Latest, NothingLost, Jobs
<1>3. AsRead' /\ InStore' /\ Replacing'
  BY DEF IInv, AsRead, InStore, Replacing, Holding, Stored, Jobs
<1>4. QED
  BY <1>1, <1>2, <1>3 DEF IInv

(* The app's life and the watcher keep the invariant. *)
LEMMA AppInv == IInv /\ (Launch \/ Watch \/ Crash \/ \E n \in Names : Notice(n)) => IInv'
<1> SUFFICES ASSUME IInv PROVE (Launch \/ Watch \/ Crash \/ \E n \in Names : Notice(n)) => IInv'
  OBVIOUS
<1>a. TypeOK /\ job \in [Jobs -> Handler]
  BY DEF IInv, TypeOK, Handler
<1>1. CASE Launch
  <2> DEFINE names == {n \in Names : inbox[n] # None}
  <2>1. job' = Spawned(names) /\ names \in SUBSET Names
    BY <1>1 DEF Launch
  <2>2. /\ job' \in [Jobs -> Handler]
        /\ \A j \in Jobs : job'[j] = job[j] \/
               (j \in names /\ job[j].step = "idle" /\ job'[j].step = "settling")
    BY <2>1, <1>a, SpawnStep
  <2>3. /\ UNCHANGED <<inbox, failed, history, library, faults>>
        /\ app' = "scanned" /\ version' \in Versions /\ event' \subseteq Names
    BY <1>1, <1>a DEF Launch, folder, TypeOK
  <2>4. QED
    BY <2>2, <2>3, JobsReset
<1>2. CASE Watch
  BY <1>2, <1>a, JobsReset DEF Watch, folder, TypeOK
<1>3. CASE Crash
  <2>1. job' = [j \in Jobs |-> Idle] /\ Idle \in Handler /\ Idle.step = "idle"
    BY <1>3 DEF Crash, Idle, Handler, Steps
  <2>2. QED
    BY <1>3, <2>1, <1>a, JobsReset DEF Crash, TypeOK
<1>4. ASSUME NEW n \in Names, Notice(n) PROVE IInv'
  <2>1. /\ UNCHANGED <<app, version, inbox, failed, history, library, faults>>
        /\ event' \subseteq Names
    BY <1>4, <1>a DEF Notice, TypeOK
  <2>2. CASE inbox[n] = None
    BY <1>4, <2>1, <2>2, <1>a, JobsReset DEF Notice, TypeOK
  <2>3. CASE inbox[n] # None
    <3>1. job' = Spawned({n}) /\ {n} \in SUBSET Names
      BY <1>4, <2>3 DEF Notice
    <3>2. /\ job' \in [Jobs -> Handler]
          /\ \A j \in Jobs : job'[j] = job[j] \/
                 (j \in {n} /\ job[j].step = "idle" /\ job'[j].step = "settling")
      BY <3>1, <1>a, SpawnStep
    <3>3. QED
      BY <2>1, <2>3, <3>2, <1>a, JobsReset DEF TypeOK
  <2>4. QED
    BY <2>2, <2>3
<1>5. QED
  BY <1>1, <1>2, <1>3, <1>4

(* The user's drops keep it: a content that is late is in replaced. *)
LEMMA DropInv == \A n \in Names, c \in Contents : IInv /\ Drop(n, c) => IInv'
<1> SUFFICES ASSUME NEW n \in Names, NEW c \in Contents, IInv, Drop(n, c) PROVE IInv'
  OBVIOUS
<1> USE DEF library
<1>1. /\ drops < MaxDrops /\ drops' = drops + 1
      /\ inbox' = [inbox EXCEPT ![n] = c]
      /\ given' = [given EXCEPT ![n] = c]
      /\ event' \in {event \cup {n}, event}
      /\ replaced \cup {inbox[n], failed[n]} \subseteq replaced'
      /\ replaced' \subseteq replaced \cup {inbox[n], failed[n], c}
      /\ job[n].step \in {"idle", "settling", "settled"} \/ c \in replaced'
      /\ UNCHANGED <<app, version, failed, job, library, faults>>
  BY DEF Drop
<1>2. TypeOK
  BY DEF IInv
<1>3. /\ inbox' \in [Names -> Contents \cup {None}] /\ inbox'[n] = c
      /\ given' \in [Names -> Contents \cup {None}] /\ given'[n] = c
      /\ \A m \in Names \ {n} : inbox'[m] = inbox[m] /\ given'[m] = given[m]
  BY <1>1, <1>2 DEF TypeOK
<1>4. drops' \in 0..MaxDrops
  BY <1>1, <1>2 DEF TypeOK
<1>5. TypeOK'
  BY <1>1, <1>2, <1>3, <1>4 DEF TypeOK
<1>6. HasFile' /\ Latest'
  BY <1>1, <1>3 DEF IInv, HasFile, Latest
<1>7. AsRead' /\ InStore' /\ Replacing'
  BY <1>1, <1>3 DEF IInv, AsRead, InStore, Replacing, Holding, Stored
<1>8. NothingLost'
  BY <1>1, <1>3 DEF IInv, NothingLost
<1>9. QED
  BY <1>5, <1>6, <1>7, <1>8 DEF IInv

(* So do a handler that gives up, a failure, and an edit. *)
LEMMA OtherInv ==
    IInv /\ (\/ \E n \in Names : GiveUp(n)
             \/ \E j \in Jobs : Fault(j)
             \/ \E s \in Sessions : Edit(s)) => IInv'
<1> SUFFICES ASSUME IInv
             PROVE (\/ \E n \in Names : GiveUp(n)
                    \/ \E j \in Jobs : Fault(j)
                    \/ \E s \in Sessions : Edit(s)) => IInv'
  OBVIOUS
<1> USE DEF library
<1>a. TypeOK
  BY DEF IInv
<1>b. /\ parquet' = parquet => parquet' \in [Sessions -> Parquet \cup {None}]
      /\ doc' = doc => doc' \in [Sessions -> Doc \cup {None}]
  BY <1>a DEF TypeOK
<1>1. ASSUME NEW n \in Names, GiveUp(n) PROVE IInv'
  <2>1. n \in Jobs /\ faults' \in 0..MaxFaults
    BY <1>1, <1>a DEF Jobs, GiveUp, TypeOK
  <2>2. QED
    BY <1>1, <2>1, <1>b, End DEF GiveUp
<1>2. ASSUME NEW j \in Jobs, Fault(j) PROVE IInv'
  <2>1. faults' \in 0..MaxFaults
    BY <1>2, <1>a DEF Fault, TypeOK
  <2>2. UNCHANGED <<app, version, folder, library>>
    BY <1>2 DEF Fault
  <2>3. CASE Go(j, "failing") /\ job[j].step # "idle"
    <3>1. "failing" \in Steps \ {"replacing"} /\ "failing" \notin Holding \cup Stored
      BY DEF Steps, Holding, Stored
    <3>2. QED
      BY <2>1, <2>2, <2>3, <3>1, <1>b, MoveOn
  <2>4. CASE job[j].step \in {"indexing", "merging"} /\ job' = [job EXCEPT ![j] = Indexed(j)]
    BY <2>1, <2>2, <2>4, <1>b, IndexedStep
  <2>5. CASE Stop(j)
    BY <2>1, <2>2, <2>5, <1>b, End
  <2>6. QED
    BY <1>2, <2>3, <2>4, <2>5 DEF Fault
<1>3. ASSUME NEW s \in Sessions, Edit(s) PROVE IInv'
  <2>1. doc[s] \in Doc /\ doc[s].edits \in 0..MaxEdits /\ doc[s].edits < MaxEdits
    BY <1>3, <1>a DEF Edit, TypeOK, Doc
  <2>2. doc' = [doc EXCEPT ![s] = [doc[s] EXCEPT !.edits = doc[s].edits + 1]]
    BY <1>3 DEF Edit
  <2>3. doc[s].edits + 1 \in 0..MaxEdits
    BY <2>1
  <2>4. [doc[s] EXCEPT !.edits = doc[s].edits + 1] \in Doc
    BY <2>1, <2>3 DEF Doc
  <2>5. doc' \in [Sessions -> Doc \cup {None}]
    BY <2>2, <2>4, <1>a, DocSet
  <2>6. UNCHANGED <<app, version, folder, job, blobs, parquet, faults>>
    BY <1>3 DEF Edit
  <2>7. TypeOK'
    BY <2>5, <2>6, <1>a DEF TypeOK, folder, history
  <2>8. HasFile' /\ Latest' /\ NothingLost'
    BY <2>6 DEF IInv, HasFile, Latest, NothingLost, folder, history
  <2>9. AsRead' /\ InStore' /\ Replacing'
    BY <2>6 DEF IInv, AsRead, InStore, Replacing, folder, history
  <2>10. QED
    BY <2>7, <2>8, <2>9 DEF IInv
<1>4. QED
  BY <1>1, <1>2, <1>3

(* The invariant is inductive. *)
LEMMA NextInv == IInv /\ [Next]_vars => IInv'
<1> SUFFICES ASSUME IInv, [Next]_vars PROVE IInv'
  OBVIOUS
<1>1. CASE Launch \/ Watch \/ Crash \/ \E n \in Names : Notice(n)
  BY <1>1, AppInv
<1>2. CASE \E n \in Names, c \in Contents : Drop(n, c)
  BY <1>2, DropInv
<1>3. CASE \E n \in Names : Handle(n)
  BY <1>3, HandleInv
<1>4. CASE \E s \in Sessions : Reimport(s) \/ Rebuild(s)
  BY <1>4, RebuildInv
<1>5. CASE (\E n \in Names : GiveUp(n)) \/ (\E j \in Jobs : Fault(j))
           \/ \E s \in Sessions : Edit(s)
  BY <1>5, OtherInv
<1>6. CASE UNCHANGED vars
  BY <1>6 DEF vars, folder, library, history, IInv, TypeOK, HasFile, Latest, AsRead,
           InStore, Replacing, NothingLost
<1>7. QED
  BY <1>1, <1>2, <1>3, <1>4, <1>5, <1>6 DEF Next

-----------------------------------------------------------------------------
(* Every reachable state has its type (InboxState and the library). *)
THEOREM TypeCorrect == Spec => []TypeOK
<1>1. IInv => TypeOK
  BY DEF IInv
<1>2. QED
  BY InitInv, NextInv, <1>1, PTL DEF Spec

(* Whatever threads, crashes and failures do, the last file put under a    *)
(* name is in the inbox, in inbox/failed or in the blob store, unless it   *)
(* was written over or after its handler had read the file (import_one,    *)
(* move_to_failed).                                                        *)
THEOREM NothingIsLost == Spec => []NothingLost
<1>1. IInv => NothingLost
  BY DEF IInv
<1>2. QED
  BY InitInv, NextInv, <1>1, PTL DEF Spec

(* A step that writes a session.json writes it over what it has read. *)
LEMMA EditsStep ==
    TypeOK /\ Next =>
        \A s \in Sessions : doc[s] # None => doc'[s] # None /\ doc'[s].edits >= doc[s].edits
<1> SUFFICES ASSUME TypeOK, Next, NEW s \in Sessions, doc[s] # None
             PROVE doc'[s] # None /\ doc'[s].edits >= doc[s].edits
  OBVIOUS
<1>1. doc[s] \in Doc /\ doc[s].edits \in 0..MaxEdits
  BY DEF TypeOK, Doc
<1>2. CASE doc' = doc
  BY <1>1, <1>2
<1>3. ASSUME NEW n \in Names, CreateDoc(n) PROVE doc'[s] = doc[s]
  <2>1. doc' = doc \/ (doc[SessionAt(n)] = None
                       /\ doc' = [doc EXCEPT ![SessionAt(n)] = [edits |-> 0, laps |-> FALSE]])
    BY <1>3 DEF CreateDoc
  <2>2. QED
    BY <2>1 DEF TypeOK
<1>4. ASSUME NEW j \in Jobs, WriteLaps(j) PROVE doc'[s] # None /\ doc'[s].edits >= doc[s].edits
  <2> DEFINE t == SessionAt(j)
  <2>1. CASE doc[t] = job[j].seen /\ t = s
    <3>1. doc'[s] = WithLaps(doc[s])
      BY <1>4, <2>1 DEF WriteLaps, TypeOK
    <3>2. WithLaps(doc[s]) = [edits |-> doc[s].edits, laps |-> TRUE]
      BY <1>1 DEF WithLaps
    <3>3. doc'[s] \in Doc /\ doc'[s].edits = doc[s].edits
      BY <1>1, <3>1, <3>2 DEF Doc
    <3>4. QED
      BY <1>1, <3>3
  <2>2. CASE doc[t] # job[j].seen \/ t # s
    <3>1. doc'[s] = doc[s]
      BY <1>4, <2>2 DEF WriteLaps, TypeOK
    <3>2. QED
      BY <1>1, <3>1
  <2>3. QED
    BY <2>1, <2>2
<1>5. ASSUME NEW u \in Sessions, Edit(u) PROVE doc'[s] # None /\ doc'[s].edits >= doc[s].edits
  <2>1. doc' = [doc EXCEPT ![u] = [doc[u] EXCEPT !.edits = doc[u].edits + 1]]
        /\ doc[u].edits < MaxEdits
    BY <1>5 DEF Edit
  <2>2. CASE u = s
    <3>1. doc'[s] = [doc[s] EXCEPT !.edits = doc[s].edits + 1]
      BY <2>1, <2>2 DEF TypeOK
    <3>2. doc[s].edits + 1 \in 0..MaxEdits /\ doc[s].edits + 1 >= doc[s].edits
      BY <1>1, <2>1, <2>2
    <3>3. doc'[s] \in Doc /\ doc'[s].edits = doc[s].edits + 1
      BY <1>1, <3>1, <3>2 DEF Doc
    <3>4. QED
      BY <3>2, <3>3
  <2>3. CASE u # s
    <3>1. doc'[s] = doc[s]
      BY <2>1, <2>3 DEF TypeOK
    <3>2. QED
      BY <1>1, <3>1
  <2>4. QED
    BY <2>2, <2>3
<1>6. doc' = doc \/ (\E n \in Names : CreateDoc(n)) \/ (\E j \in Jobs : WriteLaps(j))
      \/ \E u \in Sessions : Edit(u)
  <2>1. Launch \/ Watch \/ Crash => doc' = doc
    BY DEF Launch, Watch, Crash, library
  <2>2. \A n \in Names : Notice(n) \/ GiveUp(n) \/ (\E c \in Contents : Drop(n, c)) => doc' = doc
    BY DEF Notice, GiveUp, Drop, library
  <2>3. \A n \in Names : Handle(n) => doc' = doc \/ CreateDoc(n) \/ WriteLaps(n)
    BY DEF Handle, Settle, Read, WriteBlob, PlanImport, RemoveStale, WriteParquet, CheckDoc,
           ReadDoc, Delete, MoveToFailed, library
  <2>4. \A u \in Sessions : Reimport(u) \/ Rebuild(u) => doc' = doc \/ WriteLaps(u)
    BY DEF Reimport, Rebuild, Replace, ReadDoc, library
  <2>5. \A j \in Jobs : Fault(j) => doc' = doc
    BY DEF Fault, library
  <2>6. QED
    BY <2>1, <2>2, <2>3, <2>4, <2>5 DEF Next, Jobs
<1>7. QED
  BY <1>1, <1>2, <1>3, <1>4, <1>5, <1>6

(* No import, lap index or rebuild takes back a rider's edit               *)
(* (finish_import, index_laps).                                            *)
THEOREM EditsStay == Spec => EditsKept
<1>1. TypeOK /\ [Next]_vars =>
          [\A s \in Sessions : doc[s] # None => doc'[s] # None /\ doc'[s].edits >= doc[s].edits]_vars
  BY EditsStep
<1>2. QED
  BY TypeCorrect, <1>1, PTL DEF Spec, EditsKept

-----------------------------------------------------------------------------
(* StoredIsWhole.  What is missing of a session can be made from a log of  *)
(* it that waits: one in inbox/failed, or in the inbox under a name whose  *)
(* handler has not passed the step that makes it.                          *)
Parsed == {"written", "nodoc", "indexing", "merging", "imported"}
Documented == {"indexing", "merging", "imported"}

Waits(s, steps) ==
    \E n \in Names : \/ failed[n] \in LogsOf(s)
                     \/ inbox[n] \in LogsOf(s) /\ job[n].step \notin steps

Intact(s) == LogsOf(s) \cap blobs # {} /\ LogsOf(s) \cap replaced = {}

WholeOrWaits ==
    \A s \in Sessions : Intact(s) =>
        /\ parquet[s] # None \/ Waits(s, Parsed)
        /\ doc[s] # None \/ Waits(s, Documented)

(* A failed file is written over only by one that was put there since, ... *)
OverFailed == \A n \in Names : inbox[n] # None /\ failed[n] # None => failed[n] \in replaced

(* ... and a handler's file is the one it has read, or that is replaced.   *)
OwnFile == \A n \in Names : job[n].step \in Holding =>
               inbox[n] = job[n].content \/ job[n].content \in replaced

WInv == OverFailed /\ OwnFile /\ WholeOrWaits

LEMMA InitWhole == Init => WInv
<1> SUFFICES ASSUME Init PROVE WInv
  OBVIOUS
<1>1. \A n \in Names : job[n].step = "idle"
  BY DEF Init, Idle, Jobs
<1>2. OverFailed /\ OwnFile
  BY <1>1 DEF Init, OverFailed, OwnFile, Holding, Stored
<1>3. WholeOrWaits
  BY DEF Init, WholeOrWaits, Intact
<1>4. QED
  BY <1>2, <1>3 DEF WInv

(* What a handler at a step that holds a content works on: its session is  *)
(* the one of the file under its name, if no log of that is replaced.      *)
LEMMA WorksOn ==
    ASSUME IInv, WInv, NEW s \in Sessions, Intact(s), NEW n \in Names,
           job[n].step \in Holding
    PROVE  /\ SessionAt(n) = s => inbox[n] \in LogsOf(s)
           /\ inbox[n] \in LogsOf(s) => SessionAt(n) = s
<1>1. /\ job[n].content \in Contents
      /\ inbox[n] \in {job[n].content} \cup replaced
      /\ inbox[n] = job[n].content \/ job[n].content \in replaced
  BY DEF IInv, AsRead, WInv, OwnFile
<1>2. SessionAt(n) = SessionOf[job[n].content]
  BY DEF SessionAt, Jobs
<1>3. LogsOf(s) \cap replaced = {}
  BY DEF Intact
<1>4. QED
  BY <1>1, <1>2, <1>3 DEF LogsOf

(* A step of one job that leaves the folder and the blobs alone.  It may   *)
(* take a data.parquet away only if its own file waits from then on, and   *)
(* passes a step only when what that step makes is there.                  *)
LEMMA JobMoves ==
    ASSUME IInv, WInv, UNCHANGED <<folder, blobs>>, NEW j \in Jobs,
           \A i \in Jobs \ {j} : job'[i] = job[i],
           \A s \in Sessions :
               /\ parquet[s] # None => \/ parquet'[s] # None
                                       \/ /\ j \in Names /\ SessionAt(j) = s
                                          /\ job[j].step \in Holding
                                          /\ job'[j].step \notin Parsed
               /\ doc[s] # None => doc'[s] # None,
           j \in Names =>
               /\ job'[j].step \in Holding =>
                     \/ job[j].step \in Holding /\ job'[j].content = job[j].content
                     \/ job'[j].content = inbox[j]
               /\ job'[j].step \in Parsed /\ job[j].step \notin Parsed =>
                     job[j].step \in Holding /\ parquet'[SessionAt(j)] # None
               /\ job'[j].step \in Documented /\ job[j].step \notin Documented =>
                     job[j].step \in Holding /\ doc'[SessionAt(j)] # None
    PROVE  WInv'
<1> USE DEF folder, history
<1>1. OverFailed'
  BY DEF WInv, OverFailed
<1>2. \A n \in Names : n # j => job'[n] = job[n]
  BY DEF Jobs
<1>3. OwnFile'
  BY <1>2 DEF WInv, OwnFile
<1>4. ASSUME NEW s \in Sessions, Intact(s)'
      PROVE  /\ parquet'[s] # None \/ Waits(s, Parsed)'
             /\ doc'[s] # None \/ Waits(s, Documented)'
  <2>1. Intact(s)
    BY <1>4 DEF Intact, LogsOf
  <2>2. ASSUME Waits(s, Parsed) PROVE parquet'[s] # None \/ Waits(s, Parsed)'
    <3>1. PICK n \in Names : \/ failed[n] \in LogsOf(s)
                             \/ inbox[n] \in LogsOf(s) /\ job[n].step \notin Parsed
      BY <2>2 DEF Waits
    <3>2. CASE failed[n] \in LogsOf(s) \/ job'[n].step \notin Parsed
      BY <3>1, <3>2 DEF Waits, LogsOf
    <3>3. CASE failed[n] \notin LogsOf(s) /\ job'[n].step \in Parsed
      <4>1. n = j /\ inbox[n] \in LogsOf(s) /\ job[n].step \notin Parsed
        BY <3>1, <3>3, <1>2
      <4>2. job[n].step \in Holding /\ parquet'[SessionAt(n)] # None
        BY <3>3, <4>1
      <4>3. QED
        BY <4>1, <4>2, <2>1, WorksOn
    <3>4. QED
      BY <3>2, <3>3
  <2>3. ASSUME Waits(s, Documented) PROVE doc'[s] # None \/ Waits(s, Documented)'
    <3>1. PICK n \in Names : \/ failed[n] \in LogsOf(s)
                             \/ inbox[n] \in LogsOf(s) /\ job[n].step \notin Documented
      BY <2>3 DEF Waits
    <3>2. CASE failed[n] \in LogsOf(s) \/ job'[n].step \notin Documented
      BY <3>1, <3>2 DEF Waits, LogsOf
    <3>3. CASE failed[n] \notin LogsOf(s) /\ job'[n].step \in Documented
      <4>1. n = j /\ inbox[n] \in LogsOf(s) /\ job[n].step \notin Documented
        BY <3>1, <3>3, <1>2
      <4>2. job[n].step \in Holding /\ doc'[SessionAt(n)] # None
        BY <3>3, <4>1
      <4>3. QED
        BY <4>1, <4>2, <2>1, WorksOn
    <3>4. QED
      BY <3>2, <3>3
  <2>4. ASSUME parquet[s] # None PROVE parquet'[s] # None \/ Waits(s, Parsed)'
    <3>1. CASE /\ j \in Names /\ SessionAt(j) = s
               /\ job[j].step \in Holding /\ job'[j].step \notin Parsed
      <4>1. inbox[j] \in LogsOf(s)
        BY <3>1, <2>1, WorksOn
      <4>2. QED
        BY <3>1, <4>1 DEF Waits, LogsOf
    <3>2. QED
      BY <2>4, <3>1
  <2>5. (parquet[s] # None \/ Waits(s, Parsed)) /\ (doc[s] # None \/ Waits(s, Documented))
    BY <2>1 DEF WInv, WholeOrWaits
  <2>6. QED
    BY <2>2, <2>3, <2>4, <2>5
<1>5. QED
  BY <1>1, <1>3, <1>4 DEF WInv, WholeOrWaits

(* The same for a step that only moves the job on within the library.      *)
LEMMA GoWhole ==
    ASSUME IInv, WInv, UNCHANGED <<folder, blobs>>, NEW j \in Jobs, NEW step \in Steps,
           Go(j, step),
           \A s \in Sessions :
               /\ parquet[s] # None => \/ parquet'[s] # None
                                       \/ /\ j \in Names /\ SessionAt(j) = s
                                          /\ job[j].step \in Holding
                                          /\ step \notin Parsed
               /\ doc[s] # None => doc'[s] # None,
           j \in Names =>
               /\ step \in Holding => job[j].step \in Holding
               /\ step \in Parsed /\ job[j].step \notin Parsed =>
                     job[j].step \in Holding /\ parquet'[SessionAt(j)] # None
               /\ step \in Documented /\ job[j].step \notin Documented =>
                     job[j].step \in Holding /\ doc'[SessionAt(j)] # None
    PROVE  WInv'
<1>1. /\ job'[j].step = step
      /\ job'[j].content = job[j].content
      /\ \A i \in Jobs \ {j} : job'[i] = job[i]
  BY GoStep DEF IInv
<1>2. QED
  BY <1>1, JobMoves

(* ... and for one that ends it.                                           *)
LEMMA StopWhole ==
    ASSUME IInv, WInv, UNCHANGED <<folder, blobs>>, NEW j \in Jobs, Stop(j),
           \A s \in Sessions : /\ parquet[s] # None => parquet'[s] # None
                               /\ doc[s] # None => doc'[s] # None
    PROVE  WInv'
<1>1. job'[j].step = "idle" /\ \A i \in Jobs \ {j} : job'[i] = job[i]
  BY StopStep DEF IInv
<1>2. QED
  BY <1>1, JobMoves DEF Holding, Stored, Parsed, Documented

(* ... and for the end of the lap index, which nothing waits for.          *)
LEMMA IndexedWhole ==
    ASSUME IInv, WInv, UNCHANGED <<folder, blobs, parquet>>, NEW j \in Jobs,
           job[j].step \in {"indexing", "merging"}, job' = [job EXCEPT ![j] = Indexed(j)],
           \A s \in Sessions : doc[s] # None => doc'[s] # None
    PROVE  WInv'
<1>1. CASE j \in Sessions
  <2>1. Stop(j)
    BY <1>1 DEF Indexed, Stop
  <2>2. QED
    BY <2>1, StopWhole
<1>2. CASE j \notin Sessions
  <2>1. Go(j, "imported")
    BY <1>2 DEF Indexed, Go, IInv, TypeOK, Handler
  <2>2. /\ job[j].step \in Holding /\ job[j].step \in Parsed /\ job[j].step \in Documented
        /\ "imported" \in Steps
    BY DEF Holding, Stored, Parsed, Documented, Steps
  <2>3. QED
    BY <2>1, <2>2, GoWhole
<1>3. QED
  BY <1>1, <1>2

(* What the lap index writes is a session.json. *)
LEMMA LapsLeaveDoc ==
    ASSUME IInv, NEW j \in Jobs, WriteLaps(j)
    PROVE  \A s \in Sessions : doc[s] # None => doc'[s] # None
<1> SUFFICES ASSUME NEW s \in Sessions, doc[s] # None PROVE doc'[s] # None
  OBVIOUS
<1>1. TypeOK /\ doc[s] \in Doc
  BY DEF IInv, TypeOK
<1>2. CASE doc' = doc
  BY <1>2
<1>3. CASE doc' # doc
  <2> DEFINE t == SessionAt(j)
  <2>1. doc[t] = job[j].seen /\ doc' = [doc EXCEPT ![t] = WithLaps(doc[t])]
    BY <1>3 DEF WriteLaps
  <2>2. CASE t = s
    <3>1. doc'[s] = WithLaps(doc[s]) /\ doc[s].edits \in 0..MaxEdits
      BY <1>1, <2>1, <2>2 DEF TypeOK, Doc
    <3>2. doc'[s] \in Doc
      BY <1>1, <3>1 DEF WithLaps, Doc
    <3>3. QED
      BY <3>2
  <2>3. CASE t # s
    BY <1>1, <2>1, <2>3 DEF TypeOK
  <2>4. QED
    BY <2>2, <2>3
<1>4. QED
  BY <1>2, <1>3

(* A file leaves the inbox, imported or failed. *)
LEMMA GoneWhole ==
    ASSUME IInv, WInv, NEW n \in Names, Stop(n),
           inbox' = [inbox EXCEPT ![n] = None],
           UNCHANGED <<app, version, event, history, library, faults>>,
           \/ failed' = failed /\ job[n].step = "imported"
           \/ failed' = [failed EXCEPT ![n] = inbox[n]] /\ job[n].step = "failing"
    PROVE  WInv'
<1> USE DEF history, library
<1>1. TypeOK /\ n \in Jobs
  BY DEF IInv, Jobs
<1>2. /\ job'[n].step = "idle"
      /\ \A m \in Names \ {n} : job'[m] = job[m]
  BY <1>1, StopStep DEF Jobs
<1>3. /\ inbox'[n] = None
      /\ \A m \in Names \ {n} : inbox'[m] = inbox[m] /\ failed'[m] = failed[m]
      /\ job[n].step = "imported" => failed'[n] = failed[n]
      /\ job[n].step = "failing" => failed'[n] = inbox[n]
      /\ inbox[n] # None
  BY <1>1 DEF TypeOK, IInv, HasFile
<1>4. OverFailed'
  BY <1>3 DEF WInv, OverFailed
<1>5. OwnFile'
  BY <1>2, <1>3 DEF WInv, OwnFile, Holding, Stored
<1>6. ASSUME NEW s \in Sessions, Intact(s), NEW steps \in {Parsed, Documented}, Waits(s, steps)
      PROVE  Waits(s, steps)'
  <2>1. PICK m \in Names : \/ failed[m] \in LogsOf(s)
                           \/ inbox[m] \in LogsOf(s) /\ job[m].step \notin steps
    BY <1>6 DEF Waits
  <2>2. CASE m # n
    BY <1>2, <1>3, <2>1, <2>2 DEF Waits, LogsOf
  <2>3. CASE m = n
    <3>1. "imported" \in steps
      BY DEF Parsed, Documented
    <3>2. failed[n] \in LogsOf(s) => failed[n] \notin replaced /\ failed[n] # None
      BY <1>6, NoneAssumption DEF Intact, LogsOf
    <3>3. failed[n] \notin LogsOf(s) \/ job[n].step = "imported"
      BY <1>3, <3>2 DEF WInv, OverFailed
    <3>4. failed'[n] \in LogsOf(s)
      BY <1>3, <2>1, <2>3, <3>1, <3>3
    <3>5. QED
      BY <3>4 DEF Waits, LogsOf
  <2>4. QED
    BY <2>2, <2>3
<1>7. \A s \in Sessions : Intact(s)' = Intact(s)
  BY DEF Intact, LogsOf
<1>8. WholeOrWaits'
  BY <1>6, <1>7 DEF WInv, WholeOrWaits
<1>9. QED
  BY <1>4, <1>5, <1>8 DEF WInv

(* The lap index, of an import or of a rebuild. *)
LEMMA LapsWhole == \A j \in Jobs : IInv /\ WInv /\ (ReadDoc(j) \/ WriteLaps(j)) => WInv'
<1> SUFFICES ASSUME NEW j \in Jobs, IInv, WInv, ReadDoc(j) \/ WriteLaps(j) PROVE WInv'
  OBVIOUS
<1>1. CASE ReadDoc(j)
  <2> DEFINE new == [job[j] EXCEPT !.step = "merging", !.seen = doc[SessionAt(j)]]
  <2>1. job[j].step = "indexing" /\ UNCHANGED <<folder, library>>
    BY <1>1 DEF ReadDoc, At
  <2>2. CASE job' = [job EXCEPT ![j] = Indexed(j)]
    BY <2>1, <2>2, IndexedWhole DEF library
  <2>3. CASE job' = [job EXCEPT ![j] = new]
    <3>1. /\ new.step = "merging" /\ new.content = job[j].content
          /\ job'[j] = new /\ \A i \in Jobs \ {j} : job'[i] = job[i]
      BY <2>3 DEF IInv, TypeOK
    <3>2. job[j].step \in Holding /\ job[j].step \in Parsed /\ job[j].step \in Documented
      BY <2>1 DEF Holding, Stored, Parsed, Documented
    <3>3. QED
      BY <2>1, <3>1, <3>2, JobMoves DEF library
  <2>4. QED
    BY <1>1, <2>2, <2>3 DEF ReadDoc
<1>2. CASE WriteLaps(j)
  <2>1. /\ job[j].step = "merging" /\ job' = [job EXCEPT ![j] = Indexed(j)]
        /\ UNCHANGED <<folder, blobs, parquet>>
    BY <1>2 DEF WriteLaps, At
  <2>2. QED
    BY <1>2, <2>1, LapsLeaveDoc, IndexedWhole
<1>3. QED
  BY <1>1, <1>2


(* Each step of a handler. *)
LEMMA HandleWhole == \A n \in Names : IInv /\ WInv /\ Handle(n) => WInv'
<1> SUFFICES ASSUME NEW n \in Names, IInv, WInv, Handle(n) PROVE WInv'
  OBVIOUS
<1> USE DEF library
<1>a. n \in Jobs /\ TypeOK
  BY DEF Jobs, IInv
<1>b. /\ "parsed" \in Holding /\ Stored \subseteq Holding
      /\ Parsed \subseteq Stored /\ Documented \subseteq Parsed
  BY DEF Holding, Stored, Parsed, Documented
<1>c. job[n].step \in Holding => SessionAt(n) \in Sessions
  BY DEF IInv, AsRead, SessionAt, Jobs
<1>1. CASE Settle(n)
  <2>1. /\ Go(n, "settled") /\ "settled" \in Steps /\ "settled" \notin Holding
        /\ UNCHANGED <<folder, library>>
    BY <1>1 DEF Settle, Steps, Holding, Stored
  <2>2. QED
    BY <2>1, <1>a, <1>b, GoWhole
<1>2. CASE Read(n)
  <2>1. /\ UNCHANGED <<folder, library>> /\ job[n].step = "settled"
        /\ \A i \in Jobs \ {n} : job'[i] = job[i]
        /\ job'[n].content = inbox[n] /\ job'[n].step \in {"failing", "parsed"}
    BY <1>2, <1>a DEF Read, At, TypeOK
  <2>2. job'[n].step \notin Parsed /\ job'[n].step \notin Documented
    BY <2>1 DEF Parsed, Documented
  <2>3. QED
    BY <2>1, <2>2, <1>a, JobMoves
<1>3. CASE WriteBlob(n)
  <2>1. /\ UNCHANGED <<folder, parquet, doc>> /\ job[n].step = "parsed" /\ Go(n, "stored")
        /\ blobs' = blobs \cup {job[n].content}
    BY <1>3 DEF WriteBlob, At
  <2>2. /\ job'[n].step = "stored" /\ job'[n].content = job[n].content
        /\ \A m \in Names \ {n} : job'[m] = job[m]
    BY <2>1, <1>a, GoStep DEF Steps, Jobs
  <2>3. /\ "stored" \notin Parsed /\ "stored" \notin Documented /\ "stored" \in Holding
    BY DEF Parsed, Documented, Holding, Stored
  <2>4. OverFailed' /\ OwnFile'
    BY <2>1, <2>2, <1>b DEF folder, history, WInv, OverFailed, OwnFile
  <2>5. \A s \in Sessions, steps \in {Parsed, Documented} : Waits(s, steps) => Waits(s, steps)'
    BY <2>1, <2>2, <2>3 DEF Waits, LogsOf, folder, history
  <2>6. ASSUME NEW s \in Sessions, Intact(s)', ~ Intact(s)
        PROVE  Waits(s, Parsed)' /\ Waits(s, Documented)'
    <3>1. job[n].content \in LogsOf(s) /\ job[n].content \notin replaced
      BY <2>1, <2>6 DEF Intact, LogsOf, folder, history
    <3>2. inbox'[n] \in LogsOf(s)
      BY <2>1, <3>1, <1>b DEF WInv, OwnFile, folder
    <3>3. QED
      BY <2>2, <2>3, <3>2 DEF Waits, LogsOf
  <2>7. WholeOrWaits'
    BY <2>1, <2>5, <2>6 DEF WInv, WholeOrWaits
  <2>8. QED
    BY <2>4, <2>7 DEF WInv
<1>4. CASE PlanImport(n)
  <2> DEFINE step == PlanOf(parquet[SessionAt(n)], job[n].content)
  <2>1. /\ UNCHANGED <<folder, library>> /\ job[n].step = "stored" /\ Go(n, step)
    BY <1>4 DEF PlanImport, At
  <2>2. /\ step \in {"write", "failing", "written", "regenerate"}
        /\ step = "written" => parquet[SessionAt(n)] # None
    <3> DEFINE existing == parquet[SessionAt(n)]
               same == [blob |-> job[n].content, version |-> version]
    <3>1. job[n].content \in Contents /\ version \in Versions
      BY <2>1, <1>a, <1>b DEF IInv, AsRead, Stored, TypeOK
    <3>2. same \in Parquet
      BY <3>1 DEF Parquet
    <3>3. same # None
      BY <3>2, NoneAssumption
    <3>4. step \in {"write", "failing", "written", "regenerate"}
      BY DEF PlanOf
    <3>5. existing = None => step = "write"
      BY <3>3 DEF PlanOf
    <3>6. QED
      BY <3>4, <3>5
  <2>3. /\ step \in Steps /\ step \notin Documented /\ job[n].step \in Holding
        /\ step \in Parsed => step = "written"
    BY <2>1, <2>2 DEF Steps, Documented, Parsed, Holding, Stored
  <2> HIDE DEF step
  <2>4. QED
    BY <2>1, <2>2, <2>3, <1>a, GoWhole
<1>5. CASE RemoveStale(n)
  <2> DEFINE step == IF parquet[SessionAt(n)] = None THEN "failing" ELSE "write"
             t == SessionAt(n)
  <2>1. /\ UNCHANGED <<folder, blobs, doc>> /\ job[n].step = "regenerate" /\ Go(n, step)
        /\ parquet' = [parquet EXCEPT ![t] = None]
    BY <1>5 DEF RemoveStale, At
  <2>2. /\ step \in Steps /\ step \notin Documented /\ step \notin Parsed
        /\ job[n].step \in Holding
    BY <2>1 DEF Steps, Documented, Parsed, Holding, Stored
  <2>3. \A s \in Sessions : s # t => parquet'[s] = parquet[s]
    BY <2>1, <1>a DEF TypeOK
  <2> HIDE DEF step
  <2>4. QED
    BY <2>1, <2>2, <2>3, <1>a, GoWhole
<1>6. CASE WriteParquet(n)
  <2> DEFINE t == SessionAt(n)
             p == [blob |-> job[n].content, version |-> version]
  <2>1. UNCHANGED <<folder, blobs, doc>> /\ job[n].step = "write"
    BY <1>6 DEF WriteParquet, At
  <2>2. /\ job[n].step \in Holding /\ t \in Sessions
        /\ "written" \in Steps /\ "written" \notin Documented
        /\ "failing" \in Steps /\ "failing" \notin Holding
    BY <2>1, <1>c DEF Steps, Documented, Holding, Stored
  <2>3. CASE parquet' = parquet /\ Go(n, "failing")
    BY <2>1, <2>2, <2>3, <1>a, <1>b, GoWhole
  <2>4. CASE parquet' = [parquet EXCEPT ![t] = p] /\ Go(n, "written")
    <3>1. p \in Parquet /\ p # None
      BY <2>2, <1>a, NoneAssumption DEF IInv, AsRead, Parquet, TypeOK
    <3>2. parquet'[t] # None /\ \A s \in Sessions : s # t => parquet'[s] = parquet[s]
      BY <2>2, <2>4, <3>1, <1>a DEF TypeOK
    <3>3. QED
      BY <2>1, <2>2, <2>4, <3>2, <1>a, GoWhole
  <2>5. QED
    BY <1>6, <2>3, <2>4 DEF WriteParquet
<1>7. CASE CheckDoc(n)
  <2> DEFINE step == IF doc[SessionAt(n)] = None THEN "nodoc" ELSE "indexing"
  <2>1. UNCHANGED <<folder, library>> /\ job[n].step = "written" /\ Go(n, step)
    BY <1>7 DEF CheckDoc, At
  <2>2. /\ step \in Steps /\ job[n].step \in Holding /\ job[n].step \in Parsed
        /\ step \in Documented => doc[SessionAt(n)] # None
    BY <2>1 DEF Steps, Documented, Parsed, Holding, Stored
  <2> HIDE DEF step
  <2>3. QED
    BY <2>1, <2>2, <1>a, GoWhole
<1>8. CASE CreateDoc(n)
  <2> DEFINE t == SessionAt(n)
             d == [edits |-> 0, laps |-> FALSE]
  <2>1. UNCHANGED <<folder, blobs, parquet>> /\ job[n].step = "nodoc"
    BY <1>8 DEF CreateDoc, At
  <2>2. /\ job[n].step \in Holding /\ job[n].step \in Parsed /\ t \in Sessions
        /\ "indexing" \in Steps /\ "failing" \in Steps /\ "failing" \notin Holding
    BY <2>1, <1>c DEF Steps, Documented, Parsed, Holding, Stored
  <2>3. CASE doc' = doc /\ Go(n, "failing")
    BY <2>1, <2>2, <2>3, <1>a, <1>b, GoWhole
  <2>4. CASE doc' = [doc EXCEPT ![t] = d] /\ Go(n, "indexing")
    <3>1. d \in Doc
      BY DEF Doc
    <3> HIDE DEF d
    <3>a. d # None
      BY <3>1, NoneAssumption
    <3>2. doc'[t] # None /\ \A s \in Sessions : s # t => doc'[s] = doc[s]
      BY <2>2, <2>4, <3>1, <3>a, <1>a DEF TypeOK
    <3>3. QED
      BY <2>1, <2>2, <2>4, <3>2, <1>a, GoWhole
  <2>5. QED
    BY <1>8, <2>3, <2>4 DEF CreateDoc
<1>9. CASE Delete(n)
  BY <1>9, GoneWhole DEF Delete, At
<1>10. CASE MoveToFailed(n)
  BY <1>10, GoneWhole DEF MoveToFailed, At
<1>11. QED
  BY <1>1, <1>2, <1>3, <1>4, <1>5, <1>6, <1>7, <1>8, <1>9, <1>10, <1>a, LapsWhole DEF Handle

(* Each step of a rebuild, which is no handler of a file. *)
LEMMA RebuildWhole == \A s \in Sessions : IInv /\ WInv /\ (Reimport(s) \/ Replace(s)) => WInv'
<1> SUFFICES ASSUME NEW s \in Sessions, IInv, WInv, Reimport(s) \/ Replace(s) PROVE WInv'
  OBVIOUS
<1> USE DEF library
<1>a. s \in Jobs /\ s \notin Names /\ TypeOK
  BY DEF Jobs, IInv
<1>1. CASE Reimport(s)
  <2>1. UNCHANGED <<folder, library>> /\ \A i \in Jobs \ {s} : job'[i] = job[i]
    BY <1>1, <1>a DEF Reimport, TypeOK
  <2>2. QED
    BY <2>1, <1>a, JobMoves
<1>2. CASE Replace(s)
  <2> DEFINE p == [blob |-> job[s].content, version |-> version]
  <2>1. UNCHANGED <<folder, blobs, doc>> /\ job[s].content \in Contents
    BY <1>2 DEF Replace, At, IInv, Replacing
  <2>2. CASE Stop(s) /\ parquet' = parquet
    BY <2>1, <2>2, <1>a, StopWhole
  <2>3. CASE Go(s, "indexing") /\ parquet' = [parquet EXCEPT ![s] = p]
    <3>1. p \in Parquet /\ p # None
      BY <2>1, <1>a, NoneAssumption DEF Parquet, TypeOK
    <3>2. \A t \in Sessions : parquet[t] # None => parquet'[t] # None
      BY <2>3, <3>1, <1>a DEF TypeOK
    <3>3. QED
      BY <2>1, <2>3, <3>2, <1>a, GoWhole DEF Steps
  <2>4. QED
    BY <1>2, <2>2, <2>3 DEF Replace
<1>3. QED
  BY <1>1, <1>2

(* The app's life and the watcher only start handlers, or end them all.    *)
LEMMA ResetWhole ==
    ASSUME IInv, WInv, UNCHANGED <<inbox, failed, replaced, library>>,
           \A n \in Names : job'[n] = job[n] \/ job'[n].step \in {"idle", "settling"}
    PROVE  WInv'
<1> USE DEF library
<1>1. \A step \in {"idle", "settling"} :
          step \notin Holding /\ step \notin Parsed /\ step \notin Documented
  BY DEF Holding, Stored, Parsed, Documented
<1>2. OverFailed' /\ OwnFile'
  BY <1>1 DEF WInv, OverFailed, OwnFile
<1>3. \A s \in Sessions, steps \in {Parsed, Documented} : Waits(s, steps) => Waits(s, steps)'
  BY <1>1 DEF Waits, LogsOf
<1>4. WholeOrWaits'
  BY <1>3 DEF WInv, WholeOrWaits, Intact, LogsOf
<1>5. QED
  BY <1>2, <1>4 DEF WInv

(* A file put in the folder replaces what was there.                       *)
LEMMA DropWhole == \A n \in Names, c \in Contents : IInv /\ WInv /\ Drop(n, c) => WInv'
<1> SUFFICES ASSUME NEW n \in Names, NEW c \in Contents, IInv, WInv, Drop(n, c) PROVE WInv'
  OBVIOUS
<1> USE DEF library
<1>1. /\ replaced \cup {inbox[n], failed[n]} \subseteq replaced'
      /\ UNCHANGED <<failed, job, library>>
      /\ inbox'[n] = c
      /\ \A m \in Names \ {n} : inbox'[m] = inbox[m]
  BY DEF Drop, IInv, TypeOK
<1>2. OverFailed'
  BY <1>1 DEF WInv, OverFailed
<1>3. OwnFile'
  BY <1>1 DEF WInv, OwnFile
<1>4. ASSUME NEW s \in Sessions, Intact(s)', NEW steps \in {Parsed, Documented},
             Waits(s, steps)
      PROVE  Waits(s, steps)'
  <2>1. PICK m \in Names : \/ failed[m] \in LogsOf(s)
                           \/ inbox[m] \in LogsOf(s) /\ job[m].step \notin steps
    BY <1>4 DEF Waits
  <2>2. m # n \/ failed[m] \in LogsOf(s)
    BY <1>1, <1>4, <2>1 DEF Intact, LogsOf
  <2>3. QED
    BY <1>1, <2>1, <2>2 DEF Waits, LogsOf
<1>5. \A s \in Sessions : Intact(s)' => Intact(s)
  BY <1>1 DEF Intact, LogsOf
<1>6. WholeOrWaits'
  BY <1>1, <1>4, <1>5 DEF WInv, WholeOrWaits
<1>7. QED
  BY <1>2, <1>3, <1>6 DEF WInv

(* A handler that gives up, a failure, an edit. *)
LEMMA OtherWhole ==
    IInv /\ WInv /\ (\/ \E n \in Names : GiveUp(n)
                     \/ \E j \in Jobs : Fault(j)
                     \/ \E s \in Sessions : Edit(s)) => WInv'
<1> SUFFICES ASSUME IInv, WInv
             PROVE (\/ \E n \in Names : GiveUp(n)
                    \/ \E j \in Jobs : Fault(j)
                    \/ \E s \in Sessions : Edit(s)) => WInv'
  OBVIOUS
<1> USE DEF library
<1>1. ASSUME NEW n \in Names, GiveUp(n) PROVE WInv'
  BY <1>1, StopWhole DEF GiveUp, Jobs
<1>2. ASSUME NEW j \in Jobs, Fault(j) PROVE WInv'
  <2>1. UNCHANGED <<folder, library>>
    BY <1>2 DEF Fault
  <2>2. CASE Go(j, "failing")
    <3>1. /\ "failing" \in Steps /\ "failing" \notin Holding
          /\ "failing" \notin Parsed /\ "failing" \notin Documented
      BY DEF Steps, Holding, Stored, Parsed, Documented
    <3>2. QED
      BY <2>1, <2>2, <3>1, GoWhole
  <2>3. CASE job[j].step \in {"indexing", "merging"} /\ job' = [job EXCEPT ![j] = Indexed(j)]
    BY <2>1, <2>3, IndexedWhole
  <2>4. CASE Stop(j)
    BY <2>1, <2>4, StopWhole
  <2>5. QED
    BY <1>2, <2>2, <2>3, <2>4 DEF Fault
<1>3. ASSUME NEW s \in Sessions, Edit(s) PROVE WInv'
  <2>1. UNCHANGED <<folder, job, blobs, parquet>> /\ doc[s] \in Doc /\ doc[s].edits < MaxEdits
    BY <1>3 DEF Edit, IInv, TypeOK
  <2>2. doc' = [doc EXCEPT ![s] = [doc[s] EXCEPT !.edits = doc[s].edits + 1]]
    BY <1>3 DEF Edit
  <2> DEFINE d == [doc[s] EXCEPT !.edits = doc[s].edits + 1]
  <2>3. doc[s].edits + 1 \in 0..MaxEdits
    BY <2>1 DEF Doc
  <2>4. d \in Doc
    BY <2>1, <2>3 DEF Doc
  <2> HIDE DEF d
  <2>5. d # None
    BY <2>4, NoneAssumption
  <2>6. \A t \in Sessions : doc[t] # None => doc'[t] # None
    BY <2>2, <2>5 DEF IInv, TypeOK, d
  <2>7. WholeOrWaits'
    BY <2>1, <2>6 DEF WInv, WholeOrWaits, Intact, Waits, LogsOf, folder, history
  <2>8. OverFailed' /\ OwnFile'
    BY <2>1 DEF WInv, OverFailed, OwnFile, folder, history
  <2>9. QED
    BY <2>7, <2>8 DEF WInv
<1>4. QED
  BY <1>1, <1>2, <1>3

LEMMA NextWhole == IInv /\ WInv /\ [Next]_vars => WInv'
<1> SUFFICES ASSUME IInv, WInv, [Next]_vars PROVE WInv'
  OBVIOUS
<1> USE DEF folder, history
<1>1. CASE Launch
  <2>1. \A n \in Names : job'[n] = job[n] \/ job'[n].step = "settling"
    BY <1>1 DEF Launch, Spawned, Idle, Jobs
  <2>2. QED
    BY <1>1, <2>1, ResetWhole DEF Launch
<1>2. CASE Watch
  BY <1>2, ResetWhole DEF Watch
<1>3. CASE Crash
  <2>1. \A n \in Names : job'[n].step = "idle"
    BY <1>3 DEF Crash, Idle, Jobs
  <2>2. QED
    BY <1>3, <2>1, ResetWhole DEF Crash
<1>4. ASSUME NEW m \in Names, Notice(m) PROVE WInv'
  <2>1. \A n \in Names : job'[n] = job[n] \/ job'[n].step = "settling"
    BY <1>4 DEF Notice, Spawned, Idle, Jobs
  <2>2. QED
    BY <1>4, <2>1, ResetWhole DEF Notice
<1>5. CASE UNCHANGED vars
  BY <1>5, ResetWhole DEF vars
<1>6. ASSUME NEW s \in Sessions, Reimport(s) \/ Rebuild(s) PROVE WInv'
  BY <1>6, RebuildWhole, LapsWhole DEF Rebuild, Jobs
<1>7. QED
  BY <1>1, <1>2, <1>3, <1>4, <1>5, <1>6, HandleWhole, DropWhole, OtherWhole DEF Next

(* A session of which a log is stored is whole, or can be imported again,  *)
(* wherever an import, a rebuild or the app stopped (import_one,           *)
(* finish_import, reimport_session).                                       *)
THEOREM StoredStaysWhole == Spec => []StoredIsWhole
<1>1. WInv => StoredIsWhole
  <2>1. \A s \in Sessions, steps \in {Parsed, Documented} :
            Waits(s, steps) => \E n \in Names : {inbox[n], failed[n]} \cap LogsOf(s) # {}
    BY DEF Waits
  <2>2. QED
    BY <2>1 DEF WInv, WholeOrWaits, Intact, StoredIsWhole
<1>2. QED
  BY InitInv, NextInv, InitWhole, NextWhole, <1>1, PTL DEF Spec

=============================================================================
