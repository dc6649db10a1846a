--------------------------- MODULE WorkbookMerge ---------------------------
(***************************************************************************)
(* The three-way merge of a workbook: core/src/workbook/merge/mod.rs and   *)
(* order.rs, with what writing and reading the merged file does to it      *)
(* (workbook/v3/mod.rs, render_workbook; v3/cell.rs, scan_cells).          *)
(*                                                                         *)
(* A document is a sequence of cells, each with its id, its fence body and *)
(* the prose before and after it, and the text of a document that has no   *)
(* cell at all.  Texts are sequences of opaque lines; a merge adds marker  *)
(* lines.  Ids are tuples: a cell of a user has one of length one, the     *)
(* conflict copy that merge `tag` makes of it appends its tag, which       *)
(* stands for the random id nobody else uses.  Front matter (merged key by *)
(* key, apart from the cells) is left out.                                 *)
(***************************************************************************)
EXTENDS Selections, Integers, SequencesExt

NoContent == [body |-> 0, before |-> <<>>, after |-> <<>>]
C == INSTANCE CellMerge WITH NoCell <- NoContent

Content(cell) == [body |-> cell.body, before |-> cell.before, after |-> cell.after]
Ids(cells) == {cells[i].id : i \in DOMAIN cells}
CellOf(cells, id) == cells[CHOOSE i \in DOMAIN cells : cells[i].id = id]
ContentOf(cells, id) == IF id \in Ids(cells) THEN Content(CellOf(cells, id)) ELSE NoContent

Outcome(local, peer, base, id) ==
    C!Decide(ContentOf(base.cells, id), ContentOf(local.cells, id), ContentOf(peer.cells, id))

Marked(cell, marker) == [cell EXCEPT !.before = <<marker>> \o @]

\* Mutant of ConflictCopy: the copy keeps the id of the cell it copies.
ConflictCopySameId(cell, tag) == Marked(cell, "conflict")
\* push_conflict_copy and mint_conflict_id.
ConflictCopy(cell, tag) == [Marked(cell, "conflict") EXCEPT !.id = Append(@, tag)]

\* The cells one outcome puts in the merged document, in order.
Rendered(local, peer, base, tag, id) ==
    LET o == Outcome(local, peer, base, id) IN
    CASE o = "KeepLocal" -> <<CellOf(local.cells, id)>>
      [] o = "TakePeer" -> <<CellOf(peer.cells, id)>>
      [] o = "Conflict" -> <<CellOf(local.cells, id), ConflictCopy(CellOf(peer.cells, id), tag)>>
      [] o = "DeletedByPeer" -> <<Marked(CellOf(local.cells, id), "deleted upstream")>>
      [] o = "DeletedLocally" -> <<Marked(CellOf(peer.cells, id), "deleted locally")>>
      [] OTHER -> <<>>

Start == <<>>   \* the anchor before every base cell

\* Mutant of Anchor: added cells are gathered at the top of the document.
AnchorAtTop(cells, survivors, id) == Start
\* Mutant of Anchor: the cell before, whether it survives in base or not.
AnchorAnyCell(cells, survivors, id) ==
    LET at == CHOOSE i \in DOMAIN cells : cells[i].id = id
    IN  IF at = 1 THEN Start ELSE cells[at - 1].id
\* The nearest surviving base cell that precedes the cell in its document.
Anchor(cells, survivors, id) ==
    LET at == CHOOSE i \in DOMAIN cells : cells[i].id = id
        before == {i \in 1 .. at : cells[i].id \in survivors}
    IN  IF before = {} THEN Start
        ELSE cells[CHOOSE i \in before : \A j \in before : j <= i].id

IdsOf(cells) == [i \in DOMAIN cells |-> cells[i].id]

\* collect_added_by_anchor: the added cells of one document at one anchor.
AddedAt(cells, survivors, added, anchor) ==
    Select(IdsOf(cells), {id \in added : Anchor(cells, survivors, id) = anchor})

\* What build_merged_cells puts in: base's cells that are left, and what the
\* sides added; a cell both added is local's.
Survivors(local, peer, base) ==
    {id \in Ids(base.cells) : Outcome(local, peer, base, id) # "Drop"}
LocalAdded(local, base) == Ids(local.cells) \ Ids(base.cells)
PeerAdded(local, peer, base) == Ids(peer.cells) \ (Ids(base.cells) \union Ids(local.cells))

\* A base cell, then what each side added after it.
AtAnchor(local, peer, base, anchor) ==
    LET survivors == Survivors(local, peer, base) IN
    (IF anchor = Start THEN <<>> ELSE <<anchor>>)
    \o AddedAt(local.cells, survivors, LocalAdded(local, base), anchor)
    \o AddedAt(peer.cells, survivors, PeerAdded(local, peer, base), anchor)

Anchors(local, peer, base) ==
    <<Start>> \o Select(IdsOf(base.cells), Survivors(local, peer, base))

\* The order build_merged_cells goes through the ids in.
MergedIds(local, peer, base) ==
    LET anchors == Anchors(local, peer, base)
    IN  FlattenSeq([i \in DOMAIN anchors |-> AtAnchor(local, peer, base, anchors[i])])

\* build_merged_cells.
MergedCells(local, peer, base, tag) ==
    LET ids == MergedIds(local, peer, base)
    IN  FlattenSeq([i \in DOMAIN ids |-> Rendered(local, peer, base, tag, ids[i])])

\* merge_pure_prose.
MergedProse(l, p, b) ==
    IF l = b THEN p
    ELSE IF p = b \/ p = l THEN l
    ELSE l \o <<"conflict">> \o p

PureProse(doc) == doc.cells = <<>>

Conflicts(local, peer, base) ==
    {id \in Ids(local.cells) \union Ids(peer.cells) \union Ids(base.cells) :
        Outcome(local, peer, base, id) = "Conflict"}

\* merge: the merged document, before it is written.
Merge(local, peer, base, tag) ==
    IF PureProse(local) /\ PureProse(peer) /\ PureProse(base)
    THEN [cells |-> <<>>, prose |-> MergedProse(local.prose, peer.prose, base.prose)]
    ELSE [cells |-> MergedCells(local, peer, base, tag), prose |-> <<>>]

\* render_workbook, then parse_workbook: the text after a cell is written for
\* the last cell only.
Written(doc) ==
    [doc EXCEPT !.cells =
        [i \in DOMAIN @ |-> IF i = Len(@) THEN @[i] ELSE [@[i] EXCEPT !.after = <<>>]]]

EmptyDoc == [cells |-> <<>>, prose |-> <<>>]
============================================================================
