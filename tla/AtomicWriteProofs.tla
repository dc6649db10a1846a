------------------------- MODULE AtomicWriteProofs -------------------------
(***************************************************************************)
(* The safety of write_atomic_with_retry for any number of writers, any    *)
(* retry budgets and any foreign edits.                                    *)
(*                                                                         *)
(* That a reader never finds a torn file is not inductive by itself: a     *)
(* power loss turns an unsynced target into a torn one, so IInv adds that  *)
(* only synced bytes are renamed.  That a re-applying writer carries what  *)
(* it replaces is kept from the caller's read on, not only at the rename.  *)
(***************************************************************************)
EXTENDS AtomicWrite, TLAPS

(* What the provers need of the constants: the limits are positive, the    *)
(* marks are neither edits nor each other.                                 *)
LEMMA Constants ==
    /\ MaxAttempts \in Nat /\ MaxAttempts > 0
    /\ RenameTries \in Nat /\ RenameTries > 0
    /\ Absent \notin SUBSET Edits /\ Torn \notin SUBSET Edits /\ Absent # Torn
<1>1. Absent \notin SUBSET Edits /\ Torn \notin SUBSET Edits
  BY WritersAssumption DEF Absent, Torn
<1>2. Absent # Torn
  BY DEF Absent, Torn
<1>3. QED
  BY <1>1, <1>2, LimitsAssumption

(* A file that does not exist yet and no call under way.                   *)
LEMMA InitIInv == Init => IInv
  BY Constants DEF Init, IInv, TypeOK, TargetWhole, OkIsDurable,
     OnlySyncedRenamed, RereadHasAttempt, ReapplyCarriesEdits, Contents, Returned, Running,
     Writers

(* The end of a call leaves the writers' bookkeeping well formed, and      *)
(* claims nothing for the writer but what its result says.                 *)
LEMMA ReturnIInv ==
    ASSUME IInv, NEW w \in Writers, NEW result \in {"done", "conflict", "ioerr"},
           Return(w, result), tmp' \in [Writers -> {"none", "dirty", "synced"}],
           \A v \in Writers \ {w} : tmp'[v] = tmp[v],
           target' = target, onDisk' = onDisk,
           durable' \in {durable, target}, pending' \subseteq pending,
           result = "done" => pending' = {}
    PROVE  IInv'
<1> USE Constants DEF Return, IInv
<1>1. TypeOK'
  <2>1. /\ target' \in Contents \union {Torn} /\ durable' \in Contents \union {Torn}
        /\ pending' \subseteq Writers
    BY DEF TypeOK
  <2>2. onDisk' \in BOOLEAN
    BY DEF TypeOK
  <2>3. /\ pc' \in [Writers -> Returned \union Running]
        /\ bytes' \in [Writers -> SUBSET Edits]
        /\ basedOn' \in [Writers -> Contents \union {Torn}]
    BY DEF TypeOK, Returned, Running, Contents
  <2>4. /\ attempt' \in [Writers -> 1 .. MaxAttempts]
        /\ tries' \in [Writers -> 0 .. RenameTries - 1]
    BY DEF TypeOK
  <2>5. QED
    BY <2>1, <2>2, <2>3, <2>4 DEF TypeOK
<1>2. TargetWhole' /\ OkIsDurable'
  BY DEF TypeOK, TargetWhole, OkIsDurable
<1>3. (OnlySyncedRenamed /\ RereadHasAttempt)'
  BY DEF TypeOK, OnlySyncedRenamed, RereadHasAttempt, TargetWhole
<1>4. ReapplyCarriesEdits'
  BY DEF TypeOK, ReapplyCarriesEdits, Writers
<1>5. QED
  BY <1>1, <1>2, <1>3, <1>4

(* Every step keeps the invariant.                                         *)
LEMMA NextIInv == IInv /\ [Next]_vars => IInv'
<1> SUFFICES ASSUME IInv, [Next]_vars PROVE IInv'
  OBVIOUS
<1> USE Constants
<1>1. CASE UNCHANGED vars
  BY <1>1 DEF vars, fileVars, IInv, TypeOK, TargetWhole, OkIsDurable,
     OnlySyncedRenamed, RereadHasAttempt, ReapplyCarriesEdits
<1>2. ASSUME NEW w \in Writers, Begin(w) PROVE IInv'
  <2>1. /\ target \in Contents
        /\ EditsIn(target) \subseteq Edits
        /\ FirstBytes(w, target) \in SUBSET Edits
        /\ w \notin Replace => FirstBytes(w, target) = EditsIn(target) \union {w}
    BY DEF IInv, TypeOK, TargetWhole, Contents, EditsIn, FirstBytes, Edits
  <2>2. TypeOK'
    BY <1>2, <2>1 DEF IInv, TypeOK, Begin, fileVars, Returned, Running
  <2>3. (TargetWhole /\ OkIsDurable)'
    BY <1>2 DEF IInv, TypeOK, TargetWhole, OkIsDurable, Begin, fileVars
  <2>4. (OnlySyncedRenamed /\ RereadHasAttempt)'
    BY <1>2 DEF IInv, TypeOK, TargetWhole, OnlySyncedRenamed,
       RereadHasAttempt, Begin, fileVars
  <2>5. ReapplyCarriesEdits'
    <3> SUFFICES ASSUME NEW v \in Reapply,
                        pc'[v] \in {"write", "fsync", "check", "reread", "rename"}
                 PROVE  EditsIn(basedOn'[v]) \union {v} \subseteq bytes'[v]
      BY DEF ReapplyCarriesEdits
    <3>1. CASE v = w
      <4>1. w \notin Replace
        BY <3>1, WritersAssumption
      <4>2. QED
        BY <1>2, <2>1, <3>1, <4>1 DEF Begin, IInv, TypeOK
    <3>2. CASE v # w
      BY <1>2, <3>2 DEF Begin, IInv, TypeOK, ReapplyCarriesEdits
    <3>3. QED
      BY <3>1, <3>2
  <2>6. QED
    BY <2>2, <2>3, <2>4, <2>5 DEF IInv
<1>3. ASSUME NEW w \in Writers, Create(w) PROVE IInv'
  BY <1>3 DEF Create, fileVars, IInv, TypeOK, TargetWhole, OkIsDurable,
     OnlySyncedRenamed, RereadHasAttempt, ReapplyCarriesEdits, Returned, Running, Writers
<1>4. ASSUME NEW w \in Writers, Fsync(w) PROVE IInv'
  BY <1>4 DEF Fsync, Synced, fileVars, IInv, TypeOK, TargetWhole, OkIsDurable,
     OnlySyncedRenamed, RereadHasAttempt, ReapplyCarriesEdits, Returned, Running, Writers
<1>5. ASSUME NEW w \in Writers, CheckPasses(w) PROVE IInv'
  BY <1>5 DEF CheckPasses, fileVars, IInv, TypeOK, TargetWhole, OkIsDurable,
     OnlySyncedRenamed, RereadHasAttempt, ReapplyCarriesEdits, Returned, Running, Writers
<1>6. ASSUME NEW w \in Writers, CheckConflicts(w) PROVE IInv'
  <2>1. CASE MayRetry(attempt[w])
    BY <1>6, <2>1 DEF CheckConflicts, MayRetry, fileVars, IInv, TypeOK, TargetWhole,
       OkIsDurable, OnlySyncedRenamed, RereadHasAttempt, ReapplyCarriesEdits, Returned, Running,
       Writers
  <2>2. CASE ~MayRetry(attempt[w])
    <3>1. /\ tmp' \in [Writers -> {"none", "dirty", "synced"}]
          /\ \A v \in Writers \ {w} : tmp'[v] = tmp[v]
      BY <1>6 DEF CheckConflicts, IInv, TypeOK
    <3>2. QED
      BY <1>6, <2>2, <3>1, ReturnIInv DEF CheckConflicts, fileVars
  <2>3. QED
    BY <2>1, <2>2
<1>7. ASSUME NEW w \in Writers, Rename(w) PROVE IInv'
  <2>1. bytes[w] \in SUBSET Edits /\ tmp[w] = "synced"
    BY <1>7 DEF Rename, IInv, TypeOK, OnlySyncedRenamed
  <2>2. TypeOK'
    BY <1>7, <2>1 DEF Rename, IInv, TypeOK, Returned, Running, Contents
  <2>3. (TargetWhole /\ OkIsDurable)'
    BY <1>7, <2>1 DEF Rename, IInv, TypeOK, TargetWhole, OkIsDurable
  <2>4. (OnlySyncedRenamed /\ RereadHasAttempt)'
    BY <1>7, <2>1 DEF Rename, IInv, TypeOK, OnlySyncedRenamed, RereadHasAttempt
  <2>5. ReapplyCarriesEdits'
    BY <1>7 DEF Rename, IInv, TypeOK, ReapplyCarriesEdits, Writers
  <2>6. QED
    BY <2>2, <2>3, <2>4, <2>5 DEF IInv
<1>8. ASSUME NEW w \in Writers, RenameFails(w) PROVE IInv'
  <2>1. CASE tries[w] + 1 < RenameTries
    <3>1. TypeOK'
      BY <1>8, <2>1 DEF RenameFails, fileVars, IInv, TypeOK
    <3>2. QED
      BY <1>8, <2>1, <3>1 DEF RenameFails, fileVars, IInv, TargetWhole,
         OkIsDurable, OnlySyncedRenamed, RereadHasAttempt, ReapplyCarriesEdits
  <2>2. CASE ~(tries[w] + 1 < RenameTries)
    <3>1. /\ tmp' \in [Writers -> {"none", "dirty", "synced"}]
          /\ \A v \in Writers \ {w} : tmp'[v] = tmp[v]
      BY <1>8, <2>2 DEF RenameFails, IInv, TypeOK
    <3>2. QED
      BY <1>8, <2>2, <3>1, ReturnIInv DEF RenameFails, fileVars
  <2>3. QED
    BY <2>1, <2>2
<1>9. ASSUME NEW w \in Writers, SyncDirectory(w) PROVE IInv'
  <2>1. tmp' \in [Writers -> {"none", "dirty", "synced"}]
    BY <1>9 DEF SyncDirectory, IInv, TypeOK
  <2>2. QED
    BY <1>9, <2>1, ReturnIInv DEF SyncDirectory, DirectorySynced
<1>10. ASSUME NEW w \in Writers, IoFails(w) PROVE IInv'
  <2>1. /\ tmp' \in [Writers -> {"none", "dirty", "synced"}]
        /\ \A v \in Writers \ {w} : tmp'[v] = tmp[v]
    BY <1>10 DEF IoFails, IInv, TypeOK
  <2>2. QED
    BY <1>10, <2>1, ReturnIInv DEF IoFails, fileVars
<1>11. ASSUME NEW w \in Writers, Reread(w) PROVE IInv'
  <2>1. /\ target \in SUBSET Edits /\ EditsIn(target) = target
        /\ w \in Edits
    BY <1>11 DEF Reread, IInv, TypeOK, TargetWhole, Contents, EditsIn, Edits
  <2>2. /\ Rederive(w, target) \in SUBSET Edits
        /\ w \in Reapply => Rederive(w, target) = target \union {w}
    BY <2>1 DEF Rederive, IInv, TypeOK
  <2>3. NextAttempt(attempt[w]) \in 1 .. MaxAttempts
    BY <1>11 DEF Reread, NextAttempt, IInv, TypeOK, RereadHasAttempt
  <2>4. TypeOK'
    BY <1>11, <2>1, <2>2, <2>3 DEF Reread, fileVars, IInv, TypeOK, Returned, Running, Contents
  <2>5. (TargetWhole /\ OkIsDurable)'
    BY <1>11 DEF Reread, fileVars, IInv, TypeOK, TargetWhole, OkIsDurable
  <2>6. (OnlySyncedRenamed /\ RereadHasAttempt)'
    BY <1>11 DEF Reread, fileVars, IInv, TypeOK, TargetWhole,
       OnlySyncedRenamed, RereadHasAttempt
  <2>7. ReapplyCarriesEdits'
    BY <1>11, <2>1, <2>2 DEF Reread, IInv, TypeOK, ReapplyCarriesEdits, Writers
  <2>8. QED
    BY <2>4, <2>5, <2>6, <2>7 DEF IInv
<1>12. ASSUME NEW w \in Writers, RereadFails(w) PROVE IInv'
  <2>1. tmp' \in [Writers -> {"none", "dirty", "synced"}]
    BY <1>12 DEF RereadFails, IInv, TypeOK
  <2>2. QED
    BY <1>12, <2>1, ReturnIInv DEF RereadFails, fileVars
<1>13. CASE ExternalWrite
  <2>1. target' \in Contents
    BY <1>13 DEF ExternalWrite, IInv, TypeOK, TargetWhole, Contents, EditsIn,
       Edits
  <2>2. QED
    BY <1>13, <2>1 DEF ExternalWrite, IInv, TypeOK, TargetWhole, OkIsDurable,
       OnlySyncedRenamed, RereadHasAttempt, ReapplyCarriesEdits, Contents
<1>14. CASE Crash
  <2>1. target' \in Contents /\ target' # Torn
    BY <1>14 DEF Crash, IInv, TypeOK, TargetWhole, OnlySyncedRenamed, Contents
  <2>2. QED
    BY <1>14, <2>1 DEF Crash, IInv, TypeOK, TargetWhole, OkIsDurable,
       OnlySyncedRenamed, RereadHasAttempt, ReapplyCarriesEdits, Returned, Running, Contents,
       Writers
<1>15. QED
  BY <1>1, <1>2, <1>3, <1>4, <1>5, <1>6, <1>7, <1>8, <1>9, <1>10, <1>11,
     <1>12, <1>13, <1>14 DEF Next, WriterStep

(* In every reachable state of the write path the invariant holds.         *)
THEOREM AtomicWriteInvariant == Spec => []IInv
  BY InitIInv, NextIInv, PTL DEF Spec

(* Every retry stays inside MAX_CONCURRENCY_RETRY_ATTEMPTS and the rename's *)
(* tries, whatever they are.                                               *)
THEOREM AtomicWriteTypeCorrect == Spec => []TypeOK
<1>1. IInv => TypeOK
  BY DEF IInv
<1>2. QED
  BY <1>1, AtomicWriteInvariant, PTL

(* No crash, at any step of any number of writers, leaves a torn file.     *)
THEOREM AtomicWriteNeverTorn == Spec => []TargetWhole
<1>1. IInv => TargetWhole
  BY DEF IInv
<1>2. QED
  BY <1>1, AtomicWriteInvariant, PTL

(* What a writer was told is written is on the disk.                       *)
THEOREM AtomicWriteOkIsDurable == Spec => []OkIsDurable
<1>1. IInv => OkIsDurable
  BY DEF IInv
<1>2. QED
  BY <1>1, AtomicWriteInvariant, PTL

(* A writer that re-applies its edit replaces what it checked by the same  *)
(* content with its edit added.                                            *)
THEOREM AtomicWriteReapplyKeeps == Spec => []ReapplyKeepsEdits
<1>1. IInv => ReapplyKeepsEdits
  BY DEF IInv, ReapplyCarriesEdits, ReapplyKeepsEdits, KeepsWhatItReplaces
<1>2. QED
  BY <1>1, AtomicWriteInvariant, PTL
============================================================================
