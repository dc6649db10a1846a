-------------------------- MODULE MCWorkbookMerge --------------------------
(***************************************************************************)
(* Every merge of three small documents.                                   *)
(***************************************************************************)
EXTENDS WorkbookMerge, FiniteSetsExt

CONSTANTS
    CellIds,    \* the ids a document may use
    Bodies,     \* the fence bodies a cell may have, positive numbers
    BaseBodies, \* those of base's cells.  A merge compares the bodies of one id
                \* only, so they may be renamed id by id: one is enough for base
    Texts,      \* the texts a document without a cell may have, or none
    Ends        \* the texts that may follow the last cell, if only a line end

ASSUME BodiesAssumption == Bodies \union BaseBodies \subseteq Nat \ {0}
ASSUME CellIdsAssumption == IsFiniteSet(CellIds)

Arrangements == UNION {SetToSeqs(S) : S \in SUBSET CellIds}

\* What parse_workbook makes of a file: text after the last cell only, text of
\* its own only without a cell.
Documents(AnyBody) ==
    UNION {
        IF ids = <<>>
        THEN {[cells |-> <<>>, prose |-> t] : t \in {<<>>} \union {<<t>> : t \in Texts}}
        ELSE {[cells |-> [i \in DOMAIN ids |->
                              [id |-> <<ids[i]>>, body |-> bodies[i], before |-> <<>>,
                               after |-> IF i = Len(ids) THEN <<t>> ELSE <<>>]],
               prose |-> <<>>] : bodies \in [DOMAIN ids -> AnyBody], t \in Ends}
        : ids \in Arrangements}

\* Which id is which does not matter; no definition chooses among them.
IdSymmetry == Permutations(CellIds)

VARIABLES local, peer, base, merged
mergeVars == <<local, peer, base, merged>>

Unmerged == [cells |-> <<>>, prose |-> <<"unmerged">>]
Tag == 1

MergeInit ==
    /\ local \in Documents(Bodies) /\ peer \in Documents(Bodies)
    /\ base \in Documents(BaseBodies)
    /\ merged = Unmerged

DoMerge ==
    /\ merged = Unmerged
    /\ merged' = Merge(local, peer, base, Tag)
    /\ UNCHANGED <<local, peer, base>>

MergeSpec == MergeInit /\ [][DoMerge]_mergeVars

Done == merged # Unmerged

---------------------------------------------------------------------------
BodiesIn(cells) == {cells[i].body : i \in DOMAIN cells}
LinesOf(text) == {text[i] : i \in DOMAIN text}
LinesIn(doc) == LinesOf(doc.prose) \union
    UNION {LinesOf(doc.cells[i].before) \union LinesOf(doc.cells[i].after) : i \in DOMAIN doc.cells}

\* The ids one side changed or added, and the ids it deleted.
Edited(side) == {id \in Ids(side.cells) : ContentOf(side.cells, id) # ContentOf(base.cells, id)}
Deleted(side) == Ids(base.cells) \ Ids(side.cells)
UserCells(cells) == Select(cells, {cells[i] : i \in {j \in DOMAIN cells : Len(cells[j].id) = 1}})

(* No edit is lost: whatever either side changed or added is in the merged *)
(* document, under its id or as a conflict copy of it; where no side has a *)
(* cell, so is every line a side added.                                    *)
EditsSurvive ==
    Done => \A side \in {local, peer} :
        /\ \A id \in Edited(side) : \E i \in DOMAIN merged.cells :
              /\ merged.cells[i].id \in {id, Append(id, Tag)}
              /\ merged.cells[i].body = CellOf(side.cells, id).body
        /\ PureProse(local) /\ PureProse(peer) /\ PureProse(base) /\ side.prose # base.prose
              => LinesIn(side) \subseteq LinesIn(merged)

(* A deletion is honoured: a cell one side deleted and the other did not   *)
(* touch is gone.                                                          *)
DeletionHonoured ==
    Done => /\ Deleted(local) \intersect Ids(merged.cells) \subseteq Edited(peer)
            /\ Deleted(peer) \intersect Ids(merged.cells) \subseteq Edited(local)

(* Every id is there once, conflict copies are counted, and nothing comes  *)
(* from nowhere; beside cells there is no text of its own: a merged        *)
(* document is again one parse_workbook accepts.                           *)
EveryIdOnce ==
    Done => /\ merged.cells # <<>> => merged.prose = <<>>
            /\ Cardinality(Ids(merged.cells)) = Len(merged.cells)
            /\ Len(merged.cells) - Len(UserCells(merged.cells))
                   = Cardinality(Conflicts(local, peer, base))

(* Which device merges does not matter to what survives: the other way     *)
(* round, the same bodies come out, as often.                              *)
SameBothWays ==
    Done => LET other == Merge(peer, local, base, Tag) IN
        /\ BodiesIn(merged.cells) = BodiesIn(other.cells)
        /\ Len(merged.cells) = Len(other.cells)

(* A side that did not move base's cells finds its own cells in the order  *)
(* it had them; a cell both sides added stands where local put it.         *)
InOrder(ids, cells) ==
    \A i, j \in DOMAIN cells :
        i < j /\ {cells[i].id, cells[j].id} \subseteq ids
        => \A m, n \in DOMAIN merged.cells :
              merged.cells[m].id = cells[i].id /\ merged.cells[n].id = cells[j].id => m < n
KeepsBaseOrder(side) ==
    \A i, j \in DOMAIN side.cells : \A m, n \in DOMAIN base.cells :
        i < j /\ base.cells[m].id = side.cells[i].id /\ base.cells[n].id = side.cells[j].id
        => m < n
OrderKept ==
    Done => /\ KeepsBaseOrder(local) => InOrder(Ids(local.cells), local.cells)
            /\ KeepsBaseOrder(peer)
                   => InOrder(Ids(peer.cells) \ (Ids(local.cells) \ Ids(base.cells)), peer.cells)

============================================================================
