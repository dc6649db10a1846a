----------------------------- MODULE CellMerge -----------------------------
(***************************************************************************)
(* The per-cell decision of a workbook merge:                              *)
(* core/src/workbook/merge/cells.rs.                                       *)
(*                                                                         *)
(* A cell of one id has a content on each of the three sides (local, peer, *)
(* base), or is NoCell there.  Contents are opaque: the decision only asks *)
(* whether two of them are the same.                                       *)
(***************************************************************************)
CONSTANT NoCell

\* side_state: a side's content s, relative to base's b.
SideState(b, s) ==
    CASE b # NoCell /\ s = b -> "Unchanged"
      [] b # NoCell /\ s = NoCell -> "Deleted"
      [] b # NoCell /\ s # b /\ s # NoCell -> "Changed"
      [] b = NoCell /\ s # NoCell -> "Added"
      [] OTHER -> "Unchanged"

\* Mutant of ConflictOrKeep: local wins.
ConflictWonByLocal(l, p) == "KeepLocal"
ConflictOrKeep(l, p) == IF l = p THEN "KeepLocal" ELSE "Conflict"

\* Mutant of EditMeetsDeletion: the deletion wins.
EditLost(editor) == "Drop"
\* One side edited the cell, the other deleted it: the edit survives, marked.
EditMeetsDeletion(editor) ==
    IF editor = "local" THEN "DeletedByPeer" ELSE "DeletedLocally"

\* Mutant of DeletionAlone: the cell comes back.
DeletionUndone(keeper) == IF keeper = "local" THEN "KeepLocal" ELSE "TakePeer"
\* One side deleted the cell, the other (keeper) did not touch it.
DeletionAlone(keeper) == "Drop"

\* The reachable part of decide_one's table: base has the cell.
DecideOne(b, l, p) ==
    LET ls == SideState(b, l)
        ps == SideState(b, p)
    IN  CASE ls = "Unchanged" /\ ps = "Changed" -> "TakePeer"
          [] ls = "Unchanged" /\ ps = "Unchanged" -> "KeepLocal"
          [] ls = "Unchanged" /\ ps = "Deleted" -> DeletionAlone("local")
          [] ls = "Deleted" /\ ps = "Unchanged" -> DeletionAlone("peer")
          [] ls = "Changed" /\ ps = "Unchanged" -> "KeepLocal"
          [] ls = "Changed" /\ ps = "Changed" -> ConflictOrKeep(l, p)
          [] ls = "Changed" /\ ps = "Deleted" -> EditMeetsDeletion("local")
          [] ls = "Deleted" /\ ps = "Changed" -> EditMeetsDeletion("peer")
          [] OTHER -> "Drop"

\* decide_cells, for one id.
Decide(b, l, p) ==
    CASE b # NoCell -> DecideOne(b, l, p)
      [] b = NoCell /\ l # NoCell /\ p # NoCell -> ConflictOrKeep(l, p)
      [] b = NoCell /\ l # NoCell /\ p = NoCell -> "KeepLocal"
      [] b = NoCell /\ l = NoCell /\ p # NoCell -> "TakePeer"
      [] OTHER -> "Drop"

\* The contents an outcome keeps, under the id or as a conflict copy.
Kept(outcome, l, p) ==
    CASE outcome \in {"KeepLocal", "DeletedByPeer"} -> {l}
      [] outcome \in {"TakePeer", "DeletedLocally"} -> {p}
      [] outcome = "Conflict" -> {l, p}
      [] OTHER -> {}
============================================================================
