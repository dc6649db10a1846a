------------------------- MODULE WorkbookProofs -------------------------
(***************************************************************************)
(* What a merge of three workbooks does, for any number of cells, bodies   *)
(* and texts; and what two devices that sync in turns then keep.           *)
(*                                                                         *)
(* The argument about a merge has three layers: what is decided for one    *)
(* cell, whatever its contents; the order in which the merged ids stand,   *)
(* each once; and the cells these ids are rendered to.  The properties of  *)
(* the merge's run follow from the last two.  The devices rest on what a   *)
(* merge base has in common with the document it is the base of.           *)
(***************************************************************************)
EXTENDS MCWorkbookMerge, WorkbookSync, CollectionFacts

---------------------------------------------------------------------------
(* One cell.  l, p and b are its contents on the local, peer and base      *)
(* side, NoContent where there is none.                                    *)

(* An edit survives: a content that local or peer changed or added is kept, *)
(* whatever the other side did to the cell (cells.rs, decide_one).         *)
THEOREM CellEditSurvives ==
    ASSUME NEW l, NEW p, NEW b
    PROVE  /\ l # b /\ l # NoContent => l \in C!Kept(C!Decide(b, l, p), l, p)
           /\ p # b /\ p # NoContent => p \in C!Kept(C!Decide(b, l, p), l, p)
<1> USE DEF C!Decide, C!DecideOne, C!SideState, C!ConflictOrKeep, C!EditMeetsDeletion,
            C!DeletionAlone
<1>1. CASE b = NoContent
  BY <1>1 DEF C!Kept
<1>2. CASE b # NoContent
  BY <1>2 DEF C!Kept
<1>3. QED
  BY <1>1, <1>2

(* A deletion is honoured: a cell one side deleted and the other left as   *)
(* base had it, or deleted too, is dropped.                                *)
THEOREM CellDeletionHonoured ==
    ASSUME NEW l, NEW p, NEW b, b # NoContent,
           \/ l = NoContent /\ p \in {b, NoContent}
           \/ p = NoContent /\ l \in {b, NoContent}
    PROVE  C!Decide(b, l, p) = "Drop"
  BY DEF C!Decide, C!DecideOne, C!SideState, C!DeletionAlone

(* A cell is only dropped when some side deleted it: base had it and that  *)
(* side has not.                                                           *)
THEOREM CellDroppedOnlyIfDeleted ==
    ASSUME NEW l, NEW p, NEW b, C!Decide(b, l, p) = "Drop",
           l # NoContent \/ p # NoContent
    PROVE  b # NoContent /\ (l = NoContent \/ p = NoContent)
  BY DEF C!Decide, C!DecideOne, C!SideState, C!ConflictOrKeep, C!EditMeetsDeletion,
         C!DeletionAlone

(* The two devices keep the same contents, whichever of them merges, and   *)
(* make a conflict copy of the same cells.                                 *)
THEOREM CellSameBothWays ==
    ASSUME NEW l, NEW p, NEW b
    PROVE  /\ C!Kept(C!Decide(b, l, p), l, p) = C!Kept(C!Decide(b, p, l), p, l)
           /\ C!Decide(b, l, p) = "Drop" <=> C!Decide(b, p, l) = "Drop"
           /\ C!Decide(b, l, p) = "Conflict" <=> C!Decide(b, p, l) = "Conflict"
<1> USE DEF C!Decide, C!DecideOne, C!SideState, C!ConflictOrKeep, C!EditMeetsDeletion,
            C!DeletionAlone
<1>1. CASE b = NoContent
  BY <1>1 DEF C!Kept
<1>2. CASE b # NoContent
  <2>1. CASE l = b
    BY <1>2, <2>1 DEF C!Kept
  <2>2. CASE l # b /\ l = NoContent
    BY <1>2, <2>2 DEF C!Kept
  <2>3. CASE l # b /\ l # NoContent
    BY <1>2, <2>3 DEF C!Kept
  <2>4. QED
    BY <2>1, <2>2, <2>3
<1>3. QED
  BY <1>1, <1>2

(* A conflict copy is only made when both sides changed the cell, and to   *)
(* different contents.                                                     *)
THEOREM CellConflictNeedsBoth ==
    ASSUME NEW l, NEW p, NEW b, C!Decide(b, l, p) = "Conflict"
    PROVE  l # p /\ l # b /\ p # b /\ l # NoContent /\ p # NoContent
  BY DEF C!Decide, C!DecideOne, C!SideState, C!ConflictOrKeep, C!EditMeetsDeletion,
         C!DeletionAlone

\* An outcome that takes a side's cell is decided only where that side has it.
LEMMA DecidedSides ==
    ASSUME NEW l, NEW p, NEW b, NEW o, o = C!Decide(b, l, p)
    PROVE  /\ o \in {"KeepLocal", "TakePeer", "Conflict", "DeletedByPeer", "DeletedLocally",
                     "Drop"}
           /\ o \in {"KeepLocal", "Conflict", "DeletedByPeer"} => l # NoContent
           /\ o \in {"TakePeer", "Conflict", "DeletedLocally"} => p # NoContent
<1> USE DEF C!Decide, C!DecideOne, C!SideState, C!ConflictOrKeep, C!EditMeetsDeletion,
            C!DeletionAlone
<1>1. CASE b = NoContent
  BY <1>1
<1>2. CASE b # NoContent
  BY <1>2
<1>3. QED
  BY <1>1, <1>2

---------------------------------------------------------------------------
(* Documents and their cells.  All is a set of cells to take cells from,   *)
(* tag the tag of the merge.                                               *)

IsCells(All) ==
    \A c \in All : /\ c = [id |-> c.id, body |-> c.body, before |-> c.before, after |-> c.after]
                   /\ c.body # 0 /\ c.id # Start
WellFormed(All, cells) == IsCells(All) /\ cells \in Seq(All) /\ Distinct(IdsOf(cells))
Names(All) == {c.id : c \in All}

\* No cell has the id of a conflict copy made with this tag, or of two copies.
NewTag(All, tag) ==
    \A x, y \in Names(All) : /\ Append(x, tag) # y
                             /\ Append(x, tag) = Append(y, tag) => x = y
Sides(All, tag, l, p, b) ==
    /\ WellFormed(All, l.cells) /\ WellFormed(All, p.cells) /\ WellFormed(All, b.cells)
    /\ NewTag(All, tag)

LEMMA IdsOfFacts ==
    ASSUME NEW X, NEW cells \in Seq(X)
    PROVE  /\ IdsOf(cells) \in Seq(Ids(cells))
           /\ Len(IdsOf(cells)) = Len(cells)
           /\ \A i \in 1 .. Len(cells) : IdsOf(cells)[i] = cells[i].id
           /\ Elements(IdsOf(cells)) = Ids(cells)
           /\ Ids(cells) = {cells[i].id : i \in 1 .. Len(cells)}
<1>1. Len(cells) \in Nat /\ DOMAIN cells = 1 .. Len(cells)
  OBVIOUS
<1>2. \A i \in 1 .. Len(cells) : cells[i].id \in Ids(cells)
  BY <1>1 DEF Ids
<1>3. IdsOf(cells) = [i \in 1 .. Len(cells) |-> cells[i].id]
  BY <1>1 DEF IdsOf
<1>4. IdsOf(cells) \in Seq(Ids(cells)) /\ Len(IdsOf(cells)) = Len(cells)
  BY <1>1, <1>2, <1>3
<1>5. Ids(cells) = {cells[i].id : i \in 1 .. Len(cells)}
  BY <1>1 DEF Ids
<1>6. QED
  BY <1>3, <1>4, <1>5 DEF Elements

LEMMA CellOfFacts ==
    ASSUME NEW All, NEW cells, WellFormed(All, cells), NEW id
    PROVE  /\ id \in Ids(cells) => /\ id \in Names(All)
                                   /\ CellOf(cells, id) \in All /\ CellOf(cells, id).id = id
                                   /\ ContentOf(cells, id) = Content(CellOf(cells, id))
                                   /\ ContentOf(cells, id).body = CellOf(cells, id).body
                                   /\ ContentOf(cells, id) # NoContent
           /\ id \notin Ids(cells) => ContentOf(cells, id) = NoContent
<1>1. cells \in Seq(All)
  BY DEF WellFormed
<1>2. ASSUME id \in Ids(cells)
      PROVE  CellOf(cells, id) \in All /\ CellOf(cells, id).id = id
  <2>1. \E i \in DOMAIN cells : cells[i].id = id
    BY <1>2 DEF Ids
  <2>2. \A i \in DOMAIN cells : cells[i] \in All
    BY <1>1
  <2>3. QED
    BY <2>1, <2>2 DEF CellOf
<1>3. ASSUME id \in Ids(cells)
      PROVE  /\ id \in Names(All)
             /\ ContentOf(cells, id) = Content(CellOf(cells, id))
             /\ ContentOf(cells, id).body = CellOf(cells, id).body
             /\ ContentOf(cells, id) # NoContent
  BY <1>2, <1>3 DEF ContentOf, Content, WellFormed, IsCells, Names, NoContent
<1>4. id \notin Ids(cells) => ContentOf(cells, id) = NoContent
  BY DEF ContentOf
<1>5. QED
  BY <1>2, <1>3, <1>4

LEMMA NoNameIsStart ==
    ASSUME NEW All, NEW cells, WellFormed(All, cells) PROVE Start \notin Names(All)
  BY DEF WellFormed, IsCells, Names

LEMMA NamesFacts ==
    ASSUME NEW All, NEW tag, NewTag(All, tag), NEW x \in Names(All), NEW y \in Names(All)
    PROVE  /\ Append(x, tag) # y /\ Append(y, tag) # x /\ Append(x, tag) # x
           /\ Append(x, tag) = Append(y, tag) => x = y
  BY DEF NewTag

---------------------------------------------------------------------------
(* What one id is rendered to.                                             *)

RenderedRight(All, tag, r, o, id, kept) ==
    /\ r \in Seq(Elements(r))
    /\ o = "Drop" => r = <<>>
    /\ o # "Drop" => id \in Names(All) /\ Len(r) \in {1, 2} /\ r[1].id = id
    /\ Len(r) = 2 <=> o = "Conflict"
    /\ Len(r) = 2 => r[2].id = Append(id, tag)
    /\ {r[i].body : i \in 1 .. Len(r)} = {content.body : content \in kept}

LEMMA OneCell ==
    ASSUME NEW All, NEW tag, NEW cell, NEW o, NEW id \in Names(All), NEW content,
           o \notin {"Drop", "Conflict"}, cell.id = id, cell.body = content.body
    PROVE  RenderedRight(All, tag, <<cell>>, o, id, {content})
<1>1. Elements(<<cell>>) = {cell} /\ <<cell>> \in Seq({cell})
  BY DEF Elements
<1>2. {<<cell>>[i].body : i \in 1 .. Len(<<cell>>)} = {content.body}
  OBVIOUS
<1>3. QED
  BY <1>1, <1>2 DEF RenderedRight

LEMMA CellThenCopy ==
    ASSUME NEW All, NEW tag, NEW cell, NEW copy, NEW o, NEW id \in Names(All), NEW content, NEW other,
           o = "Conflict", cell.id = id, copy.id = Append(id, tag),
           cell.body = content.body, copy.body = other.body
    PROVE  RenderedRight(All, tag, <<cell, copy>>, o, id, {content, other})
<1> DEFINE r == <<cell, copy>>
<1>1. Len(r) = 2 /\ r[1] = cell /\ r[2] = copy /\ 1 .. 2 = {1, 2}
  OBVIOUS
<1>2. r \in Seq({cell, copy})
  OBVIOUS
<1> HIDE DEF r
<1>3. Elements(r) = {cell, copy}
  BY <1>1 DEF Elements
<1>4. {r[i].body : i \in 1 .. Len(r)} = {content.body, other.body}
  BY <1>1
<1>5. {c.body : c \in {content, other}} = {content.body, other.body}
  OBVIOUS
<1>6. RenderedRight(All, tag, r, o, id, {content, other})
  BY <1>1, <1>2, <1>3, <1>4, <1>5 DEF RenderedRight
<1>7. QED
  BY <1>6 DEF r

LEMMA RenderedCells ==
    ASSUME NEW All, NEW tag, NEW l, NEW p, NEW b, Sides(All, tag, l, p, b), NEW id
    PROVE  RenderedRight(All, tag, Rendered(l, p, b, tag, id), Outcome(l, p, b, id), id,
               C!Kept(Outcome(l, p, b, id), ContentOf(l.cells, id), ContentOf(p.cells, id)))
<1> DEFINE o == Outcome(l, p, b, id)
           cl == ContentOf(l.cells, id)
           cp == ContentOf(p.cells, id)
           r == Rendered(l, p, b, tag, id)
<1>1. /\ o \in {"KeepLocal", "TakePeer", "Conflict", "DeletedByPeer", "DeletedLocally", "Drop"}
      /\ o \in {"KeepLocal", "Conflict", "DeletedByPeer"} => cl # NoContent
      /\ o \in {"TakePeer", "Conflict", "DeletedLocally"} => cp # NoContent
  BY DecidedSides DEF Outcome
<1>2. cl # NoContent => /\ id \in Names(All) /\ CellOf(l.cells, id) \in All
                        /\ CellOf(l.cells, id).id = id /\ CellOf(l.cells, id).body = cl.body
  BY CellOfFacts DEF Sides
<1>3. cp # NoContent => /\ id \in Names(All) /\ CellOf(p.cells, id) \in All
                        /\ CellOf(p.cells, id).id = id /\ CellOf(p.cells, id).body = cp.body
  BY CellOfFacts DEF Sides
<1>4. \A cell \in All : \A marker :
          /\ Marked(cell, marker).id = cell.id
          /\ Marked(cell, marker).body = cell.body
          /\ ConflictCopy(cell, tag).id = Append(cell.id, tag)
          /\ ConflictCopy(cell, tag).body = cell.body
  BY DEF Marked, ConflictCopy, Sides, WellFormed, IsCells
<1>5. /\ o = "KeepLocal" => r = <<CellOf(l.cells, id)>> /\ C!Kept(o, cl, cp) = {cl}
      /\ o = "TakePeer" => r = <<CellOf(p.cells, id)>> /\ C!Kept(o, cl, cp) = {cp}
      /\ o = "Conflict" => /\ r = <<CellOf(l.cells, id), ConflictCopy(CellOf(p.cells, id), tag)>>
                           /\ C!Kept(o, cl, cp) = {cl, cp}
      /\ o = "DeletedByPeer" => /\ r = <<Marked(CellOf(l.cells, id), "deleted upstream")>>
                                /\ C!Kept(o, cl, cp) = {cl}
      /\ o = "DeletedLocally" => /\ r = <<Marked(CellOf(p.cells, id), "deleted locally")>>
                                 /\ C!Kept(o, cl, cp) = {cp}
      /\ o = "Drop" => r = <<>> /\ C!Kept(o, cl, cp) = {}
  BY DEF Rendered, C!Kept
<1> HIDE DEF o, cl, cp, r
<1>6. CASE o = "Drop"
  <2>1. <<>> \in Seq(Elements(<<>>)) /\ Len(<<>>) = 0
    OBVIOUS
  <2>2. {<<>>[i].body : i \in 1 .. Len(<<>>)} = {}
    OBVIOUS
  <2>3. RenderedRight(All, tag, <<>>, "Drop", id, {})
    BY <2>1, <2>2 DEF RenderedRight
  <2>4. QED
    BY <1>5, <1>6, <2>3 DEF o, cl, cp, r
<1>7. CASE o = "Conflict"
  <2>1. RenderedRight(All, tag, r, o, id, {cl, cp})
    BY <1>1, <1>2, <1>3, <1>4, <1>5, <1>7, CellThenCopy
  <2>2. QED
    BY <1>5, <1>7, <2>1 DEF o, cl, cp, r
<1>8. CASE o \in {"KeepLocal", "DeletedByPeer"}
  <2>1. id \in Names(All) /\ \E cell : r = <<cell>> /\ cell.id = id /\ cell.body = cl.body
    <3>1. /\ id \in Names(All) /\ CellOf(l.cells, id) \in All
          /\ CellOf(l.cells, id).id = id /\ CellOf(l.cells, id).body = cl.body
      BY <1>1, <1>2, <1>8
    <3>2. CASE o = "KeepLocal"
      BY <1>5, <3>1, <3>2
    <3>3. CASE o = "DeletedByPeer"
      <4> DEFINE cell == Marked(CellOf(l.cells, id), "deleted upstream")
      <4>1. cell.id = id /\ cell.body = cl.body /\ r = <<cell>>
        BY <1>4, <1>5, <3>1, <3>3
      <4> HIDE DEF cell
      <4>2. QED
        BY <3>1, <4>1
    <3>4. QED
      BY <1>8, <3>2, <3>3
  <2>2. o \notin {"Drop", "Conflict"}
    BY <1>8
  <2>3. RenderedRight(All, tag, r, o, id, {cl})
    BY <2>1, <2>2, OneCell
  <2>4. QED
    BY <1>5, <1>8, <2>3 DEF o, cl, cp, r
<1>9. CASE o \in {"TakePeer", "DeletedLocally"}
  <2>1. id \in Names(All) /\ \E cell : r = <<cell>> /\ cell.id = id /\ cell.body = cp.body
    <3>1. /\ id \in Names(All) /\ CellOf(p.cells, id) \in All
          /\ CellOf(p.cells, id).id = id /\ CellOf(p.cells, id).body = cp.body
      BY <1>1, <1>3, <1>9
    <3>2. CASE o = "TakePeer"
      BY <1>5, <3>1, <3>2
    <3>3. CASE o = "DeletedLocally"
      <4> DEFINE cell == Marked(CellOf(p.cells, id), "deleted locally")
      <4>1. cell.id = id /\ cell.body = cp.body /\ r = <<cell>>
        BY <1>4, <1>5, <3>1, <3>3
      <4> HIDE DEF cell
      <4>2. QED
        BY <3>1, <4>1
    <3>4. QED
      BY <1>9, <3>2, <3>3
  <2>2. o \notin {"Drop", "Conflict"}
    BY <1>9
  <2>3. RenderedRight(All, tag, r, o, id, {cp})
    BY <2>1, <2>2, OneCell
  <2>4. QED
    BY <1>5, <1>9, <2>3 DEF o, cl, cp, r
<1>10. QED
  BY <1>1, <1>6, <1>7, <1>8, <1>9

\* The cells of one id, and those of several.
Piece(tag, l, p, b, id) == Elements(Rendered(l, p, b, tag, id))
Pieces(tag, l, p, b, S) == UNION {Piece(tag, l, p, b, id) : id \in S}

LEMMA PieceIds ==
    ASSUME NEW All, NEW tag, NEW l, NEW p, NEW b, Sides(All, tag, l, p, b), NEW id
    PROVE  /\ Rendered(l, p, b, tag, id) \in Seq(Piece(tag, l, p, b, id))
           /\ Distinct(Rendered(l, p, b, tag, id))
           /\ \A c \in Piece(tag, l, p, b, id) :
                 /\ id \in Names(All)
                 /\ c.id \in {id, Append(id, tag)}
                 /\ c.id = Append(id, tag) => Outcome(l, p, b, id) = "Conflict"
           /\ \A c, d \in Piece(tag, l, p, b, id) : c.id = d.id => c = d
<1> DEFINE r == Rendered(l, p, b, tag, id)
           o == Outcome(l, p, b, id)
<1>1. /\ r \in Seq(Elements(r))
      /\ o = "Drop" => r = <<>>
      /\ o # "Drop" => id \in Names(All) /\ Len(r) \in {1, 2} /\ r[1].id = id
      /\ Len(r) = 2 <=> o = "Conflict"
      /\ Len(r) = 2 => r[2].id = Append(id, tag)
  BY RenderedCells DEF RenderedRight
<1> HIDE DEF r, o
<1>2. \A i \in 1 .. Len(r) :
          /\ id \in Names(All) /\ Len(r) \in {1, 2} /\ (i = 1 \/ (i = 2 /\ Len(r) = 2))
          /\ i = 1 => r[i].id = id
          /\ i = 2 => r[i].id = Append(id, tag) /\ o = "Conflict"
  <2>1. CASE o = "Drop"
    <3>1. Len(r) = 0
      BY <1>1, <2>1
    <3>2. QED
      BY <3>1
  <2>2. CASE o # "Drop"
    <3>1. CASE Len(r) = 1
      <4>1. \A i \in 1 .. Len(r) : i = 1
        BY <3>1
      <4>2. QED
        BY <1>1, <2>2, <3>1, <4>1
    <3>2. CASE Len(r) = 2
      <4>1. \A i \in 1 .. Len(r) : i = 1 \/ i = 2
        BY <3>2
      <4>2. QED
        BY <1>1, <2>2, <3>2, <4>1
    <3>3. QED
      BY <1>1, <2>2, <3>1, <3>2
  <2>3. QED
    BY <2>1, <2>2
<1>3. id \in Names(All) => Append(id, tag) # id
  BY NamesFacts DEF Sides
<1>4. \A i, j \in 1 .. Len(r) : r[i].id = r[j].id => i = j
  BY <1>2, <1>3
<1>5. Distinct(r)
  BY <1>4 DEF Distinct
<1>6. \A c \in Elements(r) : \E i \in 1 .. Len(r) : c = r[i]
  BY DEF Elements
<1>7. \A c, d \in Elements(r) : c.id = d.id => c = d
  BY <1>4, <1>6
<1>8. ASSUME NEW c \in Elements(r)
      PROVE  /\ id \in Names(All) /\ c.id \in {id, Append(id, tag)}
             /\ c.id = Append(id, tag) => o = "Conflict"
  <2>1. PICK i \in 1 .. Len(r) : c = r[i]
    BY <1>6
  <2>2. QED
    BY <1>2, <1>3, <2>1
<1>9. QED
  BY <1>1, <1>5, <1>7, <1>8 DEF r, o, Piece

LEMMA PiecesApart ==
    ASSUME NEW All, NEW tag, NEW l, NEW p, NEW b, Sides(All, tag, l, p, b), NEW x, NEW y,
           NEW c \in Piece(tag, l, p, b, x), NEW d \in Piece(tag, l, p, b, y), c.id = d.id
    PROVE  x = y /\ c = d
<1>1. /\ x \in Names(All) /\ y \in Names(All)
      /\ c.id \in {x, Append(x, tag)} /\ d.id \in {y, Append(y, tag)}
  BY PieceIds
<1>2. x = y
  <2>1. /\ Append(x, tag) # y /\ Append(y, tag) # x
        /\ Append(x, tag) = Append(y, tag) => x = y
    BY <1>1, NamesFacts DEF Sides
  <2>2. QED
    BY <1>1, <2>1
<1>3. QED
  BY <1>2, PieceIds

---------------------------------------------------------------------------
(* The merged cells, from the merged ids.                                  *)

Left(l, p, b) ==
    {id \in Ids(l.cells) \union Ids(p.cells) \union Ids(b.cells) : Outcome(l, p, b, id) # "Drop"}

IdsRight(All, l, p, b) ==
    LET ids == MergedIds(l, p, b) IN
    ids \in Seq(Names(All)) /\ Distinct(ids) /\ Elements(ids) = Left(l, p, b)

LEMMA CellsFromIds ==
    ASSUME NEW All, NEW tag, NEW l, NEW p, NEW b, Sides(All, tag, l, p, b), IdsRight(All, l, p, b),
           NEW cells, cells = MergedCells(l, p, b, tag)
    PROVE  /\ cells \in Seq(Pieces(tag, l, p, b, Left(l, p, b)))
           /\ Elements(cells) = Pieces(tag, l, p, b, Left(l, p, b))
           /\ Distinct(cells)
           /\ Distinct(IdsOf(cells))
           /\ \A x, y \in Names(All) : Precedes(MergedIds(l, p, b), x, y) =>
                 \A m, n \in 1 .. Len(cells) : cells[m].id = x /\ cells[n].id = y => m < n
<1> DEFINE ids == MergedIds(l, p, b)
           A == Pieces(tag, l, p, b, Left(l, p, b))
           R(id) == Rendered(l, p, b, tag, id)
           ss == [i \in DOMAIN ids |-> R(ids[i])]
<1>1. cells = FlattenSeq(ss)
  BY DEF MergedCells
<1>2. ids \in Seq(Names(All)) /\ Distinct(ids) /\ Elements(ids) = Left(l, p, b)
  BY DEF IdsRight
<1>3. Len(ids) \in Nat /\ DOMAIN ids = 1 .. Len(ids)
      /\ \A i \in 1 .. Len(ids) : ids[i] \in Names(All)
  BY <1>2
<1>4. \A i \in 1 .. Len(ids) : ids[i] \in Left(l, p, b)
  BY <1>2 DEF Elements
<1>5. \A i \in 1 .. Len(ids) : /\ R(ids[i]) \in Seq(A)
                               /\ Distinct(R(ids[i]))
                               /\ Elements(R(ids[i])) = Piece(tag, l, p, b, ids[i])
  <2>1. SUFFICES ASSUME NEW i \in 1 .. Len(ids)
                 PROVE  /\ R(ids[i]) \in Seq(A) /\ Distinct(R(ids[i]))
                        /\ Elements(R(ids[i])) = Piece(tag, l, p, b, ids[i])
    OBVIOUS
  <2>2. R(ids[i]) \in Seq(Piece(tag, l, p, b, ids[i])) /\ Distinct(R(ids[i]))
    BY PieceIds
  <2>3. Elements(R(ids[i])) = Piece(tag, l, p, b, ids[i])
    BY DEF Piece
  <2>4. Piece(tag, l, p, b, ids[i]) \subseteq A
    BY <1>4 DEF Pieces
  <2> HIDE DEF R, A, ids
  <2>5. QED
    BY <2>2, <2>3, <2>4, NarrowSeq
<1>6. /\ ss \in Seq(Seq(A)) /\ Len(ss) = Len(ids)
      /\ \A i \in 1 .. Len(ids) : ss[i] = R(ids[i])
  <2> HIDE DEF A, R, ids
  <2>1. QED
    BY <1>3, <1>5
<1> HIDE DEF ss, R, ids
<1>7. /\ cells \in Seq(A)
      /\ Elements(cells) = UNION {Elements(ss[i]) : i \in 1 .. Len(ss)}
  BY <1>1, <1>6, FlattenElements
<1>8. \A c : c \in Elements(cells) <=> \E i \in 1 .. Len(ids) : c \in Piece(tag, l, p, b, ids[i])
  BY <1>5, <1>6, <1>7
<1>9. Elements(cells) = A
  <2>1. \A c : c \in A <=> \E id \in Elements(ids) : c \in Piece(tag, l, p, b, id)
    BY <1>2 DEF Pieces
  <2>2. \A id : id \in Elements(ids) <=> \E i \in 1 .. Len(ids) : id = ids[i]
    BY DEF Elements
  <2>3. QED
    BY <1>8, <2>1, <2>2
<1>10. Distinct(cells)
  <2>1. \A i \in 1 .. Len(ss) : Distinct(ss[i])
    BY <1>5, <1>6
  <2>2. ASSUME NEW i \in 1 .. Len(ss), NEW j \in 1 .. Len(ss), i # j
        PROVE  Elements(ss[i]) \intersect Elements(ss[j]) = {}
    <3>1. ids[i] # ids[j]
      BY <1>2, <1>6, <2>2 DEF Distinct
    <3>2. Elements(ss[i]) = Piece(tag, l, p, b, ids[i]) /\ Elements(ss[j]) = Piece(tag, l, p, b, ids[j])
      BY <1>5, <1>6
    <3>3. QED
      BY <3>1, <3>2, PiecesApart
  <2>3. QED
    BY <1>1, <1>6, <2>1, <2>2, FlattenElements
<1>11. \A i \in 1 .. Len(cells) : cells[i] \in Elements(cells)
  BY DEF Elements
<1>12. Distinct(IdsOf(cells))
  <2>1. ASSUME NEW i \in 1 .. Len(cells), NEW j \in 1 .. Len(cells), cells[i].id = cells[j].id
        PROVE  i = j
    <3>1. cells[i] = cells[j]
      BY <1>8, <1>11, <2>1, PiecesApart
    <3>2. QED
      BY <1>10, <3>1 DEF Distinct
  <2>2. Len(IdsOf(cells)) = Len(cells) /\ \A i \in 1 .. Len(cells) : IdsOf(cells)[i] = cells[i].id
    BY <1>7, IdsOfFacts
  <2>3. QED
    BY <2>1, <2>2 DEF Distinct
<1>13. ASSUME NEW x \in Names(All), NEW y \in Names(All), Precedes(ids, x, y),
              NEW m \in 1 .. Len(cells), NEW n \in 1 .. Len(cells),
              cells[m].id = x, cells[n].id = y
       PROVE  m < n
  <2>1. PICK i \in 1 .. Len(ids) : cells[m] \in Piece(tag, l, p, b, ids[i])
    BY <1>8, <1>11
  <2>2. PICK j \in 1 .. Len(ids) : cells[n] \in Piece(tag, l, p, b, ids[j])
    BY <1>8, <1>11
  <2>3. ids[i] = x /\ ids[j] = y
    <3>1. /\ x \in {ids[i], Append(ids[i], tag)} /\ ids[i] \in Names(All)
          /\ y \in {ids[j], Append(ids[j], tag)} /\ ids[j] \in Names(All)
      BY <1>13, <2>1, <2>2, PieceIds
    <3>2. QED
      BY <3>1, NamesFacts DEF Sides
  <2>4. i < j
    BY <1>2, <1>13, <2>3, DistinctPrecedes
  <2>5. cells[m] \in Elements(ss[i]) /\ cells[n] \in Elements(ss[j])
    BY <1>5, <1>6, <2>1, <2>2
  <2>6. Precedes(cells, cells[m], cells[n])
    BY <1>1, <1>6, <2>4, <2>5, FlattenPrecedes
  <2>7. QED
    BY <1>10, <2>6, DistinctPrecedes
<1>14. QED
  BY <1>7, <1>9, <1>10, <1>12, <1>13 DEF ids

---------------------------------------------------------------------------
(* The order of the merged ids.                                            *)

\* The anchor of the cell at i is the last surviving cell up to it.
LEMMA AnchorIs ==
    ASSUME NEW All, NEW cells, WellFormed(All, cells), NEW S, NEW i \in 1 .. Len(cells)
    PROVE  LET a == Anchor(cells, S, cells[i].id) IN
           \/ a = Start /\ \A k \in 1 .. i : cells[k].id \notin S
           \/ \E k \in 1 .. i : /\ a = cells[k].id /\ cells[k].id \in S
                                /\ \A j \in 1 .. i : cells[j].id \in S => j <= k
<1> DEFINE id == cells[i].id
           at == CHOOSE k \in DOMAIN cells : cells[k].id = id
           before == {k \in 1 .. at : cells[k].id \in S}
           last == CHOOSE k \in before : \A j \in before : j <= k
<1>1. cells \in Seq(All) /\ DOMAIN cells = 1 .. Len(cells) /\ Len(cells) \in Nat
  BY DEF WellFormed
<1>2. \A m, n \in 1 .. Len(cells) : cells[m].id = cells[n].id => m = n
  <2>1. /\ Len(IdsOf(cells)) = Len(cells)
        /\ \A k \in 1 .. Len(cells) : IdsOf(cells)[k] = cells[k].id
    BY <1>1, IdsOfFacts
  <2>2. QED
    BY <2>1 DEF WellFormed, Distinct
<1>3. at = i
  BY <1>1, <1>2
<1>4. Anchor(cells, S, id) = IF before = {} THEN Start ELSE cells[last].id
  BY DEF Anchor
<1> HIDE DEF at
<1>5. CASE before = {}
  BY <1>3, <1>4, <1>5
<1>6. CASE before # {}
  <2>1. before \in SUBSET (0 .. i) /\ i \in Nat
    BY <1>1, <1>3
  <2>2. \E k \in before : \A j \in before : j <= k
    BY <1>6, <2>1, LargestBelow
  <2>3. last \in before /\ \A j \in before : j <= last
    BY <2>2
  <2>4. QED
    BY <1>3, <1>4, <1>6, <2>3
<1>7. QED
  BY <1>5, <1>6

LEMMA CellsFacts ==
    ASSUME NEW All, NEW cells, WellFormed(All, cells)
    PROVE  /\ cells \in Seq(All) /\ Len(cells) \in Nat /\ DOMAIN cells = 1 .. Len(cells)
           /\ IdsOf(cells) \in Seq(Names(All)) /\ Distinct(IdsOf(cells))
           /\ Elements(IdsOf(cells)) = Ids(cells)
           /\ Len(IdsOf(cells)) = Len(cells)
           /\ \A k \in 1 .. Len(cells) : /\ IdsOf(cells)[k] = cells[k].id
                                         /\ cells[k].id \in Names(All) /\ cells[k].id \in Ids(cells)
           /\ \A m, n \in 1 .. Len(cells) : cells[m].id = cells[n].id => m = n
           /\ \A id \in Ids(cells) : id \in Names(All) /\ \E k \in 1 .. Len(cells) : cells[k].id = id
<1>1. cells \in Seq(All) /\ Len(cells) \in Nat /\ DOMAIN cells = 1 .. Len(cells)
      /\ Distinct(IdsOf(cells))
  BY DEF WellFormed
<1>2. /\ IdsOf(cells) \in Seq(Ids(cells))
      /\ Elements(IdsOf(cells)) = Ids(cells)
      /\ Len(IdsOf(cells)) = Len(cells)
      /\ \A k \in 1 .. Len(cells) : IdsOf(cells)[k] = cells[k].id
      /\ Ids(cells) = {cells[k].id : k \in 1 .. Len(cells)}
  BY <1>1, IdsOfFacts
<1>3. \A k \in 1 .. Len(cells) : cells[k].id \in Names(All) /\ cells[k].id \in Ids(cells)
  <2>1. TAKE k \in 1 .. Len(cells)
  <2>2. cells[k] \in All
    BY <1>1
  <2>3. cells[k].id \in Names(All)
    BY <2>2 DEF Names
  <2>4. QED
    BY <1>2, <2>3
<1>4. \A id \in Ids(cells) : id \in Names(All) /\ \E k \in 1 .. Len(cells) : cells[k].id = id
  BY <1>2, <1>3
<1>5. IdsOf(cells) \in Seq(Names(All))
  BY <1>2, <1>4, NarrowSeq
<1>6. \A m, n \in 1 .. Len(cells) : cells[m].id = cells[n].id => m = n
  BY <1>1, <1>2 DEF Distinct
<1>7. QED
  BY <1>1, <1>2, <1>3, <1>4, <1>5, <1>6

LEMMA AnchorsOfCells ==
    ASSUME NEW All, NEW cells, WellFormed(All, cells), NEW S, NEW i \in 1 .. Len(cells)
    PROVE  /\ Anchor(cells, S, cells[i].id) \in {Start} \union S
           /\ cells[i].id \in S => Anchor(cells, S, cells[i].id) = cells[i].id
<1>1. i \in 1 .. i /\ Len(cells) \in Nat
  BY CellsFacts
<1> DEFINE a == Anchor(cells, S, cells[i].id)
<1>2. \/ a = Start /\ \A k \in 1 .. i : cells[k].id \notin S
      \/ \E k \in 1 .. i : /\ a = cells[k].id /\ cells[k].id \in S
                           /\ \A j \in 1 .. i : cells[j].id \in S => j <= k
  BY AnchorIs
<1>3. a \in {Start} \union S
  BY <1>2
<1>4. ASSUME cells[i].id \in S PROVE a = cells[i].id
  <2>1. PICK k \in 1 .. i : /\ a = cells[k].id
                            /\ \A j \in 1 .. i : cells[j].id \in S => j <= k
    BY <1>1, <1>4, <1>2
  <2>2. k = i
    BY <1>1, <1>4, <2>1
  <2>3. QED
    BY <2>1, <2>2
<1>5. QED
  BY <1>3, <1>4

LEMMA AddedAtElements ==
    ASSUME NEW All, NEW cells, WellFormed(All, cells), NEW S, NEW added \in SUBSET Ids(cells), NEW a
    PROVE  /\ AddedAt(cells, S, added, a) \in Seq(Names(All))
           /\ Distinct(AddedAt(cells, S, added, a))
           /\ Elements(AddedAt(cells, S, added, a)) = {id \in added : Anchor(cells, S, id) = a}
<1> DEFINE at == {id \in added : Anchor(cells, S, id) = a}
<1>1. /\ IdsOf(cells) \in Seq(Names(All)) /\ Distinct(IdsOf(cells))
      /\ Elements(IdsOf(cells)) = Ids(cells)
  BY CellsFacts
<1>2. AddedAt(cells, S, added, a) = Select(IdsOf(cells), at)
  BY DEF AddedAt
<1>3. at \subseteq Ids(cells)
  OBVIOUS
<1> HIDE DEF at
<1>4. QED
  BY <1>1, <1>2, <1>3, SelectElements DEF at

\* Where an id stands: after the anchor it has on the side it is taken from.
Home(l, p, b, id) ==
    CASE id \in LocalAdded(l, b) -> Anchor(l.cells, Survivors(l, p, b), id)
      [] id \in PeerAdded(l, p, b) -> Anchor(p.cells, Survivors(l, p, b), id)
      [] OTHER -> id

Placed(l, p, b) == Survivors(l, p, b) \union LocalAdded(l, b) \union PeerAdded(l, p, b)

LEMMA HomeFacts ==
    ASSUME NEW All, NEW tag, NEW l, NEW p, NEW b, Sides(All, tag, l, p, b), NEW id \in Placed(l, p, b)
    PROVE  /\ id \in Names(All)
           /\ Home(l, p, b, id) \in {Start} \union Survivors(l, p, b)
           /\ id \in Survivors(l, p, b) => Home(l, p, b, id) = id
           /\ id \in LocalAdded(l, b) =>
                 Home(l, p, b, id) = Anchor(l.cells, Survivors(l, p, b), id)
           /\ id \in PeerAdded(l, p, b) =>
                 Home(l, p, b, id) = Anchor(p.cells, Survivors(l, p, b), id)
<1> DEFINE S == Survivors(l, p, b)
<1>1. /\ S \subseteq Ids(b.cells)
      /\ LocalAdded(l, b) \subseteq Ids(l.cells) \ Ids(b.cells)
      /\ PeerAdded(l, p, b) \subseteq Ids(p.cells) \ (Ids(b.cells) \union Ids(l.cells))
  BY DEF Survivors, LocalAdded, PeerAdded
<1> HIDE DEF S
<1>2. WellFormed(All, l.cells) /\ WellFormed(All, p.cells) /\ WellFormed(All, b.cells)
  BY DEF Sides
<1>3. /\ \A x \in Ids(l.cells) : x \in Names(All) /\ Anchor(l.cells, S, x) \in {Start} \union S
      /\ \A x \in Ids(p.cells) : x \in Names(All) /\ Anchor(p.cells, S, x) \in {Start} \union S
      /\ \A x \in Ids(b.cells) : x \in Names(All)
  <2>1. ASSUME NEW cells, WellFormed(All, cells), NEW x \in Ids(cells)
        PROVE  x \in Names(All) /\ Anchor(cells, S, x) \in {Start} \union S
    <3>1. PICK k \in 1 .. Len(cells) : x = cells[k].id /\ x \in Names(All)
      BY <2>1, CellsFacts
    <3>2. QED
      BY <2>1, <3>1, AnchorsOfCells
  <2>2. QED
    BY <1>2, <2>1
<1>4. id \in Names(All)
  BY <1>1, <1>3 DEF Placed, S
<1>5. CASE id \in LocalAdded(l, b)
  <2>1. Home(l, p, b, id) = Anchor(l.cells, S, id) /\ id \notin S /\ id \notin PeerAdded(l, p, b)
    BY <1>1, <1>5 DEF Home, S
  <2>2. QED
    BY <1>1, <1>3, <1>4, <1>5, <2>1 DEF S
<1>6. CASE id \in PeerAdded(l, p, b)
  <2>1. Home(l, p, b, id) = Anchor(p.cells, S, id) /\ id \notin S /\ id \notin LocalAdded(l, b)
    BY <1>1, <1>6 DEF Home, S
  <2>2. QED
    BY <1>1, <1>3, <1>4, <1>6, <2>1 DEF S
<1>7. CASE id \in S
  <2>1. Home(l, p, b, id) = id /\ id \notin LocalAdded(l, b) /\ id \notin PeerAdded(l, p, b)
    BY <1>1, <1>7 DEF Home
  <2>2. QED
    BY <1>4, <1>7, <2>1 DEF S
<1>8. QED
  BY <1>5, <1>6, <1>7 DEF Placed, S

(* At an anchor stands every id whose place it is, once.                   *)
LEMMA AtAnchorElements ==
    ASSUME NEW All, NEW tag, NEW l, NEW p, NEW b, Sides(All, tag, l, p, b), NEW a \in {Start} \union Survivors(l, p, b)
    PROVE  /\ AtAnchor(l, p, b, a) \in Seq(Names(All))
           /\ Distinct(AtAnchor(l, p, b, a))
           /\ Elements(AtAnchor(l, p, b, a)) = {id \in Placed(l, p, b) : Home(l, p, b, id) = a}
<1> DEFINE S == Survivors(l, p, b)
           LA == LocalAdded(l, b)
           PA == PeerAdded(l, p, b)
           first == IF a = Start THEN <<>> ELSE <<a>>
           lefts == AddedAt(l.cells, S, LA, a)
           rights == AddedAt(p.cells, S, PA, a)
<1>1. AtAnchor(l, p, b, a) = first \o lefts \o rights
  BY DEF AtAnchor
<1>2. /\ S \subseteq Ids(b.cells) /\ LA \subseteq Ids(l.cells) /\ PA \subseteq Ids(p.cells)
      /\ S \intersect LA = {} /\ S \intersect PA = {} /\ LA \intersect PA = {}
  BY DEF Survivors, LocalAdded, PeerAdded
<1>3. WellFormed(All, l.cells) /\ WellFormed(All, p.cells)
  BY DEF Sides
<1> HIDE DEF S, LA, PA
<1> HIDE DEF first
<1>4. ASSUME NEW cells, WellFormed(All, cells), NEW added \in SUBSET Ids(cells), NEW ids,
             ids = AddedAt(cells, S, added, a)
      PROVE  /\ ids \in Seq(Names(All)) /\ Distinct(ids)
             /\ Elements(ids) = {id \in added : Anchor(cells, S, id) = a}
  BY <1>4, AddedAtElements
<1>5. /\ lefts \in Seq(Names(All)) /\ Distinct(lefts)
      /\ Elements(lefts) = {id \in LA : Anchor(l.cells, S, id) = a}
  BY <1>2, <1>3, <1>4
<1>6. /\ rights \in Seq(Names(All)) /\ Distinct(rights)
      /\ Elements(rights) = {id \in PA : Anchor(p.cells, S, id) = a}
  BY <1>2, <1>3, <1>4
<1>7. S \subseteq Names(All) /\ Start \notin S
  <2>1. \A id \in S : id \in Names(All)
    BY HomeFacts DEF Placed, S
  <2>2. Start \notin Names(All)
    BY <1>3, NoNameIsStart
  <2>3. QED
    BY <2>1, <2>2
<1>8. /\ first \in Seq(Names(All)) /\ Distinct(first)
      /\ Elements(first) = {id \in S : id = a}
  <2>1. CASE a = Start
    <3>1. first = <<>> /\ {id \in S : id = a} = {}
      BY <1>7, <2>1 DEF first
    <3>2. QED
      BY <3>1 DEF Distinct, Elements
  <2>2. CASE a # Start
    <3>1. a \in S /\ a \in Names(All) /\ first = <<a>>
      BY <1>7, <2>2 DEF S, first
    <3>2. <<a>> \in Seq(Names(All)) /\ Distinct(<<a>>) /\ Elements(<<a>>) = {a}
      BY <3>1 DEF Distinct, Elements
    <3>3. QED
      BY <3>1, <3>2
  <2>3. QED
    BY <2>1, <2>2
<1> HIDE DEF lefts, rights
<1>9. /\ first \o lefts \in Seq(Names(All)) /\ Distinct(first \o lefts)
      /\ Elements(first \o lefts) = Elements(first) \union Elements(lefts)
  <2>1. Elements(first) \intersect Elements(lefts) = {}
    BY <1>2, <1>5, <1>8
  <2>2. QED
    BY <1>5, <1>8, <2>1, ConcatElements, ConcatDistinct
<1>10. /\ AtAnchor(l, p, b, a) \in Seq(Names(All)) /\ Distinct(AtAnchor(l, p, b, a))
      /\ Elements(AtAnchor(l, p, b, a)) = Elements(first \o lefts) \union Elements(rights)
  <2>1. Elements(first \o lefts) \intersect Elements(rights) = {}
    BY <1>2, <1>5, <1>6, <1>8, <1>9
  <2> DEFINE both == first \o lefts
  <2>2. both \in Seq(Names(All)) /\ Distinct(both) /\ Elements(both) \intersect Elements(rights) = {}
    BY <1>9, <2>1
  <2> HIDE DEF both
  <2>3. /\ both \o rights \in Seq(Names(All)) /\ Distinct(both \o rights)
        /\ Elements(both \o rights) = Elements(both) \union Elements(rights)
    BY <1>6, <2>2, ConcatElements, ConcatDistinct
  <2>4. QED
    BY <1>1, <2>3 DEF both
<1>11. \A id : id \in Elements(AtAnchor(l, p, b, a))
               <=> id \in Placed(l, p, b) /\ Home(l, p, b, id) = a
  <2>1. TAKE id
  <2>2. id \in Elements(AtAnchor(l, p, b, a)) <=>
            \/ id \in S /\ id = a
            \/ id \in LA /\ Anchor(l.cells, S, id) = a
            \/ id \in PA /\ Anchor(p.cells, S, id) = a
    BY <1>5, <1>6, <1>8, <1>9, <1>10
  <2>3. id \in Placed(l, p, b) <=> id \in S \/ id \in LA \/ id \in PA
    BY DEF Placed, S, LA, PA
  <2>4. id \in Placed(l, p, b) =>
            /\ id \in S => Home(l, p, b, id) = id
            /\ id \in LA => Home(l, p, b, id) = Anchor(l.cells, S, id)
            /\ id \in PA => Home(l, p, b, id) = Anchor(p.cells, S, id)
    BY HomeFacts DEF S, LA, PA
  <2>5. QED
    BY <1>2, <2>2, <2>3, <2>4
<1>12. QED
  BY <1>10, <1>11

\* The anchors: Start, then the survivors as base has them.
AnchorsRight(l, p, b) ==
    LET anchors == Anchors(l, p, b)
        S == Survivors(l, p, b)
    IN  /\ anchors \in Seq({Start} \union S)
        /\ Distinct(anchors)
        /\ Elements(anchors) = {Start} \union S
        /\ Start \notin S
        /\ \A y \in S : Precedes(anchors, Start, y)
        /\ \A x, y \in S : Precedes(IdsOf(b.cells), x, y) => Precedes(anchors, x, y)

LEMMA AnchorsElements ==
    ASSUME NEW All, NEW tag, NEW l, NEW p, NEW b, Sides(All, tag, l, p, b)
    PROVE  AnchorsRight(l, p, b)
<1> DEFINE S == Survivors(l, p, b)
           A == {Start} \union S
           first == <<Start>>
           rest == Select(IdsOf(b.cells), S)
<1>1. /\ IdsOf(b.cells) \in Seq(Names(All)) /\ Distinct(IdsOf(b.cells))
      /\ Elements(IdsOf(b.cells)) = Ids(b.cells)
      /\ \A x \in Ids(b.cells) : x \in Names(All)
  BY CellsFacts DEF Sides
<1>2. Anchors(l, p, b) = first \o rest
  BY DEF Anchors
<1>3. S \subseteq Ids(b.cells)
  BY DEF Survivors
<1>4. first \in Seq(A) /\ Distinct(first) /\ Elements(first) = {Start}
  BY DEF Distinct, Elements
<1> HIDE DEF S, first, rest
<1>5. /\ rest \in Seq(Names(All)) /\ Distinct(rest) /\ Elements(rest) = S
      /\ \A x, y \in S : Precedes(IdsOf(b.cells), x, y) => Precedes(rest, x, y)
  <2>1. /\ rest \in Seq(Names(All)) /\ Distinct(rest)
        /\ Elements(rest) = Ids(b.cells) \intersect S
    BY <1>1, SelectElements DEF rest
  <2>2. \A x, y \in S : Precedes(IdsOf(b.cells), x, y) => Precedes(rest, x, y)
    BY <1>1, SelectPrecedes DEF rest
  <2>3. QED
    BY <1>3, <2>1, <2>2
<1>6. Start \notin S
  <2>1. Start \notin Names(All)
    BY NoNameIsStart DEF Sides
  <2>2. \A id \in S : id \in Names(All)
    BY <1>3, CellsFacts DEF Sides
  <2>3. QED
    BY <2>1, <2>2
<1>7. rest \in Seq(A)
  BY <1>5, NarrowSeq
<1>8. /\ first \o rest \in Seq(A) /\ Distinct(first \o rest)
      /\ Elements(first \o rest) = Elements(first) \union Elements(rest)
  BY <1>4, <1>5, <1>6, <1>7, ConcatElements, ConcatDistinct
<1>9. \A x, y : \/ Precedes(rest, x, y)
                \/ x \in Elements(first) /\ y \in Elements(rest)
                => Precedes(first \o rest, x, y)
  BY <1>4, <1>7, ConcatPrecedes
<1>10. QED
  BY <1>2, <1>4, <1>5, <1>6, <1>8, <1>9 DEF S, AnchorsRight

\* The ids at all anchors are the ids left.
LEMMA PlacedIsLeft ==
    ASSUME NEW All, NEW tag, NEW l, NEW p, NEW b, Sides(All, tag, l, p, b)
    PROVE  Placed(l, p, b) = Left(l, p, b)
<1>1. WellFormed(All, l.cells) /\ WellFormed(All, p.cells) /\ WellFormed(All, b.cells)
  BY DEF Sides
<1>2. ASSUME NEW id, id \notin Ids(b.cells), id \in Ids(l.cells) \union Ids(p.cells)
      PROVE  Outcome(l, p, b, id) # "Drop"
  <2>1. /\ ContentOf(b.cells, id) = NoContent
        /\ ContentOf(l.cells, id) # NoContent \/ ContentOf(p.cells, id) # NoContent
    BY <1>1, <1>2, CellOfFacts
  <2>2. QED
    BY <2>1, CellDroppedOnlyIfDeleted DEF Outcome
<1>3. ASSUME NEW id, id \notin Ids(b.cells)
      PROVE  id \in Placed(l, p, b) <=> id \in Left(l, p, b)
  BY <1>2, <1>3 DEF Placed, Survivors, LocalAdded, PeerAdded, Left
<1>4. ASSUME NEW id \in Ids(b.cells)
      PROVE  id \in Placed(l, p, b) <=> id \in Left(l, p, b)
  BY <1>4 DEF Placed, Survivors, LocalAdded, PeerAdded, Left
<1>5. QED
  BY <1>3, <1>4

\* The sequences MergedIds joins.
Blocks(l, p, b) ==
    LET anchors == Anchors(l, p, b) IN [i \in DOMAIN anchors |-> AtAnchor(l, p, b, anchors[i])]

LEMMA BlocksFacts ==
    ASSUME NEW All, NEW tag, NEW l, NEW p, NEW b, Sides(All, tag, l, p, b)
    PROVE  LET anchors == Anchors(l, p, b)
               ss == Blocks(l, p, b)
           IN  /\ MergedIds(l, p, b) = FlattenSeq(ss)
               /\ ss \in Seq(Seq(Names(All))) /\ Len(ss) = Len(anchors) /\ Len(ss) \in Nat
               /\ \A i \in 1 .. Len(ss) :
                     /\ ss[i] = AtAnchor(l, p, b, anchors[i])
                     /\ Distinct(ss[i])
                     /\ Elements(ss[i]) = {id \in Placed(l, p, b) : Home(l, p, b, id) = anchors[i]}
<1> DEFINE anchors == Anchors(l, p, b)
           ss == Blocks(l, p, b)
<1>1. MergedIds(l, p, b) = FlattenSeq(ss)
  BY DEF MergedIds, Blocks
<1>2. anchors \in Seq({Start} \union Survivors(l, p, b))
  <2>1. AnchorsRight(l, p, b)
    BY AnchorsElements
  <2>2. QED
    BY <2>1 DEF AnchorsRight
<1>3. /\ Len(anchors) \in Nat /\ DOMAIN anchors = 1 .. Len(anchors)
      /\ \A i \in 1 .. Len(anchors) : anchors[i] \in {Start} \union Survivors(l, p, b)
  BY <1>2
<1>4. ss = [i \in 1 .. Len(anchors) |-> AtAnchor(l, p, b, anchors[i])]
  BY <1>3 DEF Blocks
<1> HIDE DEF anchors, ss
<1>5. ASSUME NEW i \in 1 .. Len(anchors)
      PROVE  /\ AtAnchor(l, p, b, anchors[i]) \in Seq(Names(All))
             /\ Distinct(AtAnchor(l, p, b, anchors[i]))
             /\ Elements(AtAnchor(l, p, b, anchors[i]))
                    = {id \in Placed(l, p, b) : Home(l, p, b, id) = anchors[i]}
  BY <1>3, AtAnchorElements
<1>6. ss \in Seq(Seq(Names(All))) /\ Len(ss) = Len(anchors)
  BY <1>3, <1>4, <1>5
<1>7. \A i \in 1 .. Len(anchors) : ss[i] = AtAnchor(l, p, b, anchors[i])
  BY <1>4
<1>8. QED
  BY <1>1, <1>3, <1>5, <1>6, <1>7 DEF anchors, ss

(* The merged ids are the ids left, each once.                             *)
LEMMA MergedIdsRight ==
    ASSUME NEW All, NEW tag, NEW l, NEW p, NEW b, Sides(All, tag, l, p, b)
    PROVE  IdsRight(All, l, p, b)
<1> DEFINE anchors == Anchors(l, p, b)
           ss == Blocks(l, p, b)
           P == Placed(l, p, b)
           H(id) == Home(l, p, b, id)
<1>1. /\ MergedIds(l, p, b) = FlattenSeq(ss)
      /\ ss \in Seq(Seq(Names(All))) /\ Len(ss) = Len(anchors)
      /\ \A i \in 1 .. Len(ss) : /\ Distinct(ss[i])
                                 /\ Elements(ss[i]) = {id \in P : H(id) = anchors[i]}
  BY BlocksFacts
<1>2. Distinct(anchors) /\ Elements(anchors) = {Start} \union Survivors(l, p, b)
  <2>1. AnchorsRight(l, p, b)
    BY AnchorsElements
  <2>2. QED
    BY <2>1 DEF AnchorsRight
<1>3. \A id \in P : H(id) \in Elements(anchors)
  BY <1>2, HomeFacts
<1> HIDE DEF anchors, ss, P, H
<1>4. \A i, j \in 1 .. Len(ss) : i # j => Elements(ss[i]) \intersect Elements(ss[j]) = {}
  <2>1. \A i, j \in 1 .. Len(ss) : i # j => anchors[i] # anchors[j]
    BY <1>1, <1>2 DEF Distinct
  <2>2. QED
    BY <1>1, <2>1
<1>5. /\ FlattenSeq(ss) \in Seq(Names(All)) /\ Distinct(FlattenSeq(ss))
      /\ Elements(FlattenSeq(ss)) = UNION {Elements(ss[i]) : i \in 1 .. Len(ss)}
  BY <1>1, <1>4, FlattenElements
<1>6. \A id : id \in Elements(FlattenSeq(ss)) <=> id \in P
  <2>1. TAKE id
  <2>2. id \in Elements(FlattenSeq(ss)) <=> \E i \in 1 .. Len(ss) : id \in P /\ H(id) = anchors[i]
    BY <1>1, <1>5
  <2>3. id \in P => \E i \in 1 .. Len(ss) : H(id) = anchors[i]
    BY <1>1, <1>3 DEF Elements
  <2>4. QED
    BY <2>2, <2>3
<1>7. QED
  BY <1>1, <1>5, <1>6, PlacedIsLeft DEF IdsRight, P

LEMMA AtAnchorOrder ==
    ASSUME NEW All, NEW tag, NEW l, NEW p, NEW b, Sides(All, tag, l, p, b), NEW a \in {Start} \union Survivors(l, p, b),
           NEW lefts, lefts = AddedAt(l.cells, Survivors(l, p, b), LocalAdded(l, b), a),
           NEW rights, rights = AddedAt(p.cells, Survivors(l, p, b), PeerAdded(l, p, b), a),
           NEW x, NEW y,
           \/ a # Start /\ x = a /\ y \in Elements(lefts) \union Elements(rights)
           \/ Precedes(lefts, x, y)
           \/ Precedes(rights, x, y)
    PROVE  Precedes(AtAnchor(l, p, b, a), x, y)
<1> DEFINE first == IF a = Start THEN <<>> ELSE <<a>>
           A == Names(All) \union {a}
<1>1. AtAnchor(l, p, b, a) = (first \o lefts) \o rights
  BY DEF AtAnchor
<1>2. lefts \in Seq(A) /\ rights \in Seq(A)
  <2>1. LocalAdded(l, b) \in SUBSET Ids(l.cells) /\ PeerAdded(l, p, b) \in SUBSET Ids(p.cells)
    BY DEF LocalAdded, PeerAdded
  <2>2. WellFormed(All, l.cells) /\ WellFormed(All, p.cells)
    BY DEF Sides
  <2>3. lefts \in Seq(Names(All))
    BY <2>1, <2>2, AddedAtElements
  <2>4. ASSUME NEW cells, WellFormed(All, cells), NEW added \in SUBSET Ids(cells), NEW ids,
               ids = AddedAt(cells, Survivors(l, p, b), added, a)
        PROVE  ids \in Seq(Names(All))
    BY <2>4, AddedAtElements
  <2>5. rights \in Seq(Names(All))
    BY <2>1, <2>2, <2>4
  <2>6. QED
    BY <2>3, <2>5
<1>3. first \in Seq(A) /\ (a # Start => a \in Elements(first))
  <2>1. <<>> \in Seq(A) /\ <<a>> \in Seq(A)
    OBVIOUS
  <2>2. a \in Elements(<<a>>)
    BY DEF Elements
  <2> HIDE DEF A
  <2>3. QED
    BY <2>1, <2>2
<1> HIDE DEF first, A
<1> DEFINE both == first \o lefts
<1>4. both \in Seq(A) /\ Elements(both) = Elements(first) \union Elements(lefts)
  BY <1>2, <1>3, ConcatElements
<1>5. \A u, v : Precedes(lefts, u, v) \/ (u \in Elements(first) /\ v \in Elements(lefts))
                => Precedes(both, u, v)
  BY <1>2, <1>3, ConcatPrecedes
<1> HIDE DEF both
<1>6. \A u, v : Precedes(both, u, v) \/ Precedes(rights, u, v)
                \/ (u \in Elements(both) /\ v \in Elements(rights))
                => Precedes(both \o rights, u, v)
  BY <1>2, <1>4, ConcatPrecedes
<1>7. Precedes(both \o rights, x, y)
  BY <1>3, <1>4, <1>5, <1>6
<1>8. QED
  BY <1>1, <1>7 DEF both

\* What both have stands in one order.
InBaseOrder(cells, others) ==
    \A i, j \in 1 .. Len(cells), m, n \in 1 .. Len(others) :
        i < j /\ others[m].id = cells[i].id /\ others[n].id = cells[j].id => m < n

\* All that follow one another on a side have anchors that do, or one anchor.
LEMMA AnchorsOrder ==
    ASSUME NEW All, NEW tag, NEW l, NEW p, NEW b, Sides(All, tag, l, p, b), NEW cells, WellFormed(All, cells),
           InBaseOrder(cells, b.cells),
           NEW i \in 1 .. Len(cells), NEW j \in 1 .. Len(cells), i < j,
           NEW x, x = Anchor(cells, Survivors(l, p, b), cells[i].id),
           NEW y, y = Anchor(cells, Survivors(l, p, b), cells[j].id)
    PROVE  /\ x = Start \/ \E k \in 1 .. i : x = cells[k].id
           /\ x = y \/ Precedes(Anchors(l, p, b), x, y)
<1> DEFINE S == Survivors(l, p, b)
           anchors == Anchors(l, p, b)
<1>1. /\ \A v \in S : Precedes(anchors, Start, v)
      /\ \A u, v \in S : Precedes(IdsOf(b.cells), u, v) => Precedes(anchors, u, v)
  <2>1. AnchorsRight(l, p, b)
    BY AnchorsElements
  <2>2. QED
    BY <2>1 DEF AnchorsRight
<1>2. S \subseteq Ids(b.cells)
  BY DEF Survivors
<1>3. /\ Len(b.cells) \in Nat /\ Len(IdsOf(b.cells)) = Len(b.cells)
      /\ \A k \in 1 .. Len(b.cells) : IdsOf(b.cells)[k] = b.cells[k].id
      /\ \A id \in Ids(b.cells) : \E k \in 1 .. Len(b.cells) : b.cells[k].id = id
  <2>1. WellFormed(All, b.cells)
    BY DEF Sides
  <2>2. Len(b.cells) \in Nat /\ Len(IdsOf(b.cells)) = Len(b.cells)
    BY <2>1, CellsFacts
  <2>3. \A k \in 1 .. Len(b.cells) : IdsOf(b.cells)[k] = b.cells[k].id
    BY <2>1, CellsFacts
  <2>4. \A id \in Ids(b.cells) : \E k \in 1 .. Len(b.cells) : b.cells[k].id = id
    BY <2>1, CellsFacts
  <2>5. QED
    BY <2>2, <2>3, <2>4
<1>4. Len(cells) \in Nat
  BY CellsFacts
<1> HIDE DEF S, anchors
<1>5. \/ x = Start /\ \A k \in 1 .. i : cells[k].id \notin S
      \/ \E k \in 1 .. i : x = cells[k].id /\ cells[k].id \in S
  BY AnchorIs DEF S
<1>6. \/ y = Start /\ \A k \in 1 .. j : cells[k].id \notin S
      \/ \E k \in 1 .. j : /\ y = cells[k].id /\ cells[k].id \in S
                           /\ \A q \in 1 .. j : cells[q].id \in S => q <= k
  BY AnchorIs DEF S
<1>7. CASE x = Start
  BY <1>1, <1>6, <1>7 DEF anchors
<1>8. ASSUME NEW k \in 1 .. i, x = cells[k].id, x \in S, x # y PROVE Precedes(anchors, x, y)
  <2>1. k \in 1 .. j
    BY <1>4
  <2>2. PICK q \in 1 .. j : y = cells[q].id /\ y \in S /\ k <= q
    BY <1>6, <1>8, <2>1
  <2>3. k \in 1 .. Len(cells) /\ q \in 1 .. Len(cells) /\ k < q
    BY <1>4, <1>8, <2>2
  <2>4. PICK m \in 1 .. Len(b.cells), n \in 1 .. Len(b.cells) :
            b.cells[m].id = x /\ b.cells[n].id = y
    <3>1. x \in Ids(b.cells) /\ y \in Ids(b.cells)
      BY <1>2, <1>8, <2>2
    <3>2. \A id \in Ids(b.cells) : \E o \in 1 .. Len(b.cells) : b.cells[o].id = id
      BY <1>3
    <3>3. \E m \in 1 .. Len(b.cells) : b.cells[m].id = x
      BY <3>1, <3>2
    <3>4. \E n \in 1 .. Len(b.cells) : b.cells[n].id = y
      BY <3>1, <3>2
    <3>5. QED
      BY <3>3, <3>4
  <2>5. m < n
    BY <1>8, <2>2, <2>3, <2>4 DEF InBaseOrder
  <2>6. Precedes(IdsOf(b.cells), x, y)
    <3>1. /\ m \in 1 .. Len(IdsOf(b.cells)) /\ IdsOf(b.cells)[m] = x
          /\ n \in 1 .. Len(IdsOf(b.cells)) /\ IdsOf(b.cells)[n] = y
      BY <1>3, <2>4
    <3>2. QED
      BY <2>5, <3>1 DEF Precedes
  <2>7. Precedes(IdsOf(b.cells), x, y) => Precedes(anchors, x, y)
    <3>1. x \in S /\ y \in S
      BY <1>8, <2>2
    <3>2. \A u, v \in S : Precedes(IdsOf(b.cells), u, v) => Precedes(anchors, u, v)
      BY <1>1
    <3> HIDE DEF S, anchors
    <3>3. QED
      BY <3>1, <3>2
  <2>8. QED
    BY <1>8, <2>2, <2>6, <2>7
<1>9. QED
  BY <1>5, <1>7, <1>8 DEF anchors

(* A side that kept base's cells in base's order finds its own ids in the  *)
(* order it had them.                                                      *)
LEMMA SideOrder ==
    ASSUME NEW All, NEW tag, NEW l, NEW p, NEW b, Sides(All, tag, l, p, b), NEW cells, NEW added,
           \/ cells = l.cells /\ added = LocalAdded(l, b)
           \/ cells = p.cells /\ added = PeerAdded(l, p, b),
           InBaseOrder(cells, b.cells),
           NEW i \in 1 .. Len(cells), NEW j \in 1 .. Len(cells), i < j,
           NEW x \in Survivors(l, p, b) \union added, x = cells[i].id,
           NEW y \in Survivors(l, p, b) \union added, y = cells[j].id
    PROVE  Precedes(MergedIds(l, p, b), x, y)
<1> DEFINE S == Survivors(l, p, b)
           anchors == Anchors(l, p, b)
           ss == Blocks(l, p, b)
           a == Anchor(cells, S, x)
           c == Anchor(cells, S, y)
<1>1. WellFormed(All, cells)
  BY DEF Sides
<1>2. /\ IdsOf(cells) \in Seq(Names(All)) /\ Len(IdsOf(cells)) = Len(cells)
      /\ \A k \in 1 .. Len(cells) : IdsOf(cells)[k] = cells[k].id
      /\ \A m, n \in 1 .. Len(cells) : cells[m].id = cells[n].id => m = n
      /\ Len(cells) \in Nat
  BY <1>1, CellsFacts
<1>3. /\ MergedIds(l, p, b) = FlattenSeq(ss)
      /\ ss \in Seq(Seq(Names(All))) /\ Len(ss) = Len(anchors)
      /\ \A k \in 1 .. Len(ss) :
            /\ ss[k] = AtAnchor(l, p, b, anchors[k])
            /\ Elements(ss[k]) = {id \in Placed(l, p, b) : Home(l, p, b, id) = anchors[k]}
  BY BlocksFacts
<1>4. /\ a \in {Start} \union S /\ c \in {Start} \union S
      /\ x \in S => a = x
      /\ y \in S => c = y
  BY <1>1, AnchorsOfCells
<1>5. x \in Placed(l, p, b) /\ y \in Placed(l, p, b)
  BY DEF Placed
<1>6. Home(l, p, b, x) = a /\ Home(l, p, b, y) = c
  BY <1>4, <1>5, HomeFacts
<1>7. Elements(anchors) = {Start} \union S /\ Start \notin S
  <2>1. AnchorsRight(l, p, b)
    BY AnchorsElements
  <2>2. QED
    BY <2>1 DEF AnchorsRight
<1>8. /\ a = Start \/ \E k \in 1 .. i : a = cells[k].id
      /\ a = c \/ Precedes(anchors, a, c)
  <2>1. a = Anchor(cells, S, cells[i].id) /\ c = Anchor(cells, S, cells[j].id)
    OBVIOUS
  <2> HIDE DEF a, c, S, anchors
  <2>2. a = c \/ Precedes(anchors, a, c)
    BY <1>1, <2>1, AnchorsOrder DEF anchors, S
  <2>3. a = Start \/ \E k \in 1 .. i : a = cells[k].id
    BY <1>1, <2>1, AnchorsOrder DEF S
  <2>4. QED
    BY <2>2, <2>3
<1> HIDE DEF anchors, ss, a, c
<1>9. CASE a # c
  <2>1. Precedes(anchors, a, c)
    BY <1>8, <1>9
  <2>2. PICK m \in 1 .. Len(anchors), n \in 1 .. Len(anchors) :
            m < n /\ anchors[m] = a /\ anchors[n] = c
    BY <2>1 DEF Precedes
  <2>3. x \in Elements(ss[m]) /\ y \in Elements(ss[n])
    BY <1>3, <1>5, <1>6, <2>2
  <2>4. QED
    BY <1>3, <2>2, <2>3, FlattenPrecedes
<1>10. CASE a = c
  <2> DEFINE lefts == AddedAt(l.cells, S, LocalAdded(l, b), a)
             rights == AddedAt(p.cells, S, PeerAdded(l, p, b), a)
             mine == AddedAt(cells, S, added, a)
  <2>1. y \notin S
    <3>1. SUFFICES ASSUME y \in S PROVE FALSE
      OBVIOUS
    <3>2. a = y /\ a # Start
      BY <1>4, <1>7, <1>10, <3>1
    <3>3. PICK k \in 1 .. i : a = cells[k].id
      BY <1>8, <3>2
    <3>4. k \in 1 .. Len(cells) /\ k < j
      BY <1>2
    <3>5. k = j
      BY <1>2, <3>2, <3>3, <3>4
    <3>6. QED
      BY <1>2, <3>4, <3>5
  <2>2. added \in SUBSET Ids(cells)
    BY DEF LocalAdded, PeerAdded
  <2>3. mine = lefts \/ mine = rights
    OBVIOUS
  <2> HIDE DEF mine, lefts, rights
  <2>4. y \in Elements(mine)
    <3>1. Elements(mine) = {id \in added : Anchor(cells, S, id) = a}
      BY <1>1, <2>2, AddedAtElements DEF mine
    <3>2. QED
      BY <1>10, <2>1, <3>1 DEF c
  <2>5. \/ a # Start /\ x = a
        \/ Precedes(mine, x, y)
    <3>1. CASE x \in S
      BY <1>4, <1>7, <3>1
    <3>2. CASE x \notin S
      <4> DEFINE at == {id \in added : Anchor(cells, S, id) = a}
      <4>1. Precedes(IdsOf(cells), x, y)
        BY <1>2 DEF Precedes
      <4>2. x \in at /\ y \in at
        BY <1>10, <2>1, <3>2 DEF a, c
      <4> HIDE DEF at
      <4>3. Precedes(Select(IdsOf(cells), at), x, y)
        BY <1>2, <4>1, <4>2, SelectPrecedes
      <4>4. QED
        BY <4>3 DEF mine, AddedAt, at
    <3>3. QED
      BY <3>1, <3>2
  <2>6. Precedes(AtAnchor(l, p, b, a), x, y)
    <3>1. \/ a # Start /\ x = a /\ y \in Elements(lefts) \union Elements(rights)
          \/ Precedes(lefts, x, y)
          \/ Precedes(rights, x, y)
      BY <2>3, <2>4, <2>5
    <3>2. QED
      BY <1>4, <3>1, AtAnchorOrder DEF lefts, rights
  <2>7. PICK m \in 1 .. Len(anchors) : anchors[m] = a
    BY <1>4, <1>7 DEF Elements
  <2>8. Precedes(ss[m], x, y)
    BY <1>3, <2>6, <2>7
  <2>9. QED
    BY <1>3, <2>7, <2>8, FlattenPrecedes
<1>11. QED
  BY <1>9, <1>10

---------------------------------------------------------------------------
(* The merged document.                                                    *)

LEMMA PieceHas ==
    ASSUME NEW All, NEW tag, NEW l, NEW p, NEW b, Sides(All, tag, l, p, b), NEW id,
           NEW o, o = Outcome(l, p, b, id),
           NEW kept, kept = C!Kept(o, ContentOf(l.cells, id), ContentOf(p.cells, id))
    PROVE  /\ o # "Drop" => \E c \in Piece(tag, l, p, b, id) : c.id = id
           /\ o = "Conflict" => \E c \in Piece(tag, l, p, b, id) : c.id = Append(id, tag)
           /\ \A k \in kept : \E c \in Piece(tag, l, p, b, id) : c.body = k.body
           /\ \A c \in Piece(tag, l, p, b, id) : \E k \in kept : c.body = k.body
<1> DEFINE r == Rendered(l, p, b, tag, id)
<1>1. RenderedRight(All, tag, r, o, id, kept)
  BY RenderedCells
<1>2. Piece(tag, l, p, b, id) = Elements(r)
  BY DEF Piece
<1> HIDE DEF r
<1>3. \A i \in 1 .. Len(r) : r[i] \in Elements(r)
  BY DEF Elements
<1>4. o # "Drop" => \E c \in Elements(r) : c.id = id
  <2>1. o # "Drop" => 1 \in 1 .. Len(r) /\ r[1].id = id
    BY <1>1 DEF RenderedRight
  <2>2. QED
    BY <1>3, <2>1
<1>5. o = "Conflict" => \E c \in Elements(r) : c.id = Append(id, tag)
  <2>1. o = "Conflict" => Len(r) = 2 /\ r[2].id = Append(id, tag)
    BY <1>1 DEF RenderedRight
  <2>2. Len(r) = 2 => 2 \in 1 .. Len(r)
    OBVIOUS
  <2>3. QED
    BY <1>3, <2>1, <2>2
<1>6. {r[i].body : i \in 1 .. Len(r)} = {k.body : k \in kept}
  BY <1>1 DEF RenderedRight
<1>7. \A k \in kept : \E c \in Elements(r) : c.body = k.body
  BY <1>3, <1>6
<1>8. \A c \in Elements(r) : \E k \in kept : c.body = k.body
  <2>1. \A c \in Elements(r) : \E i \in 1 .. Len(r) : c = r[i]
    BY DEF Elements
  <2>2. \A i \in 1 .. Len(r) : r[i].body \in {k.body : k \in kept}
    BY <1>6
  <2>3. \A i \in 1 .. Len(r) : \E k \in kept : r[i].body = k.body
    BY <2>2
  <2>4. QED
    BY <2>1, <2>3
<1>9. QED
  BY <1>2, <1>4, <1>5, <1>7, <1>8

Copies(tag, l, p, b) == {Append(id, tag) : id \in Conflicts(l, p, b)}

LEMMA MergeRight ==
    ASSUME NEW All, NEW tag, NEW l, NEW p, NEW b, Sides(All, tag, l, p, b), NEW merge, merge = Merge(l, p, b, tag)
    PROVE  /\ merge.cells \in Seq(Pieces(tag, l, p, b, Left(l, p, b)))
           /\ Elements(merge.cells) = Pieces(tag, l, p, b, Left(l, p, b))
           /\ Distinct(merge.cells)
           /\ Distinct(IdsOf(merge.cells))
           /\ \A x, y \in Names(All) : Precedes(MergedIds(l, p, b), x, y) =>
                 \A m, n \in 1 .. Len(merge.cells) :
                     merge.cells[m].id = x /\ merge.cells[n].id = y => m < n
           /\ Ids(merge.cells) = Left(l, p, b) \union Copies(tag, l, p, b)
           /\ merge.cells # <<>> => merge.prose = <<>>
<1> DEFINE cells == MergedCells(l, p, b, tag)
           K == Left(l, p, b)
           P == Pieces(tag, l, p, b, K)
<1>1. /\ cells \in Seq(P) /\ Elements(cells) = P
      /\ Distinct(cells) /\ Distinct(IdsOf(cells))
      /\ \A x, y \in Names(All) : Precedes(MergedIds(l, p, b), x, y) =>
            \A m, n \in 1 .. Len(cells) : cells[m].id = x /\ cells[n].id = y => m < n
  BY MergedIdsRight, CellsFromIds
<1> HIDE DEF cells, P
<1>2. merge.cells = cells
  <2>1. CASE PureProse(l) /\ PureProse(p) /\ PureProse(b)
    <3>1. Ids(<<>>) = {}
      BY DEF Ids
    <3>2. K = {}
      BY <2>1, <3>1 DEF PureProse, Left
    <3>3. P = {}
      BY <3>2 DEF Pieces, P
    <3>4. \A i \in 1 .. Len(cells) : cells[i] \in P
      BY <1>1
    <3>5. cells = <<>>
      BY <1>1, <3>3, <3>4
    <3>6. QED
      BY <2>1, <3>5 DEF Merge
  <2>2. CASE ~(PureProse(l) /\ PureProse(p) /\ PureProse(b))
    BY <2>2 DEF Merge, cells
  <2>3. QED
    BY <2>1, <2>2
<1>3. merge.cells # <<>> => merge.prose = <<>>
  BY DEF Merge
<1>4. Ids(cells) = {c.id : c \in P}
  <2>1. Ids(cells) = {cells[i].id : i \in 1 .. Len(cells)}
    BY <1>1, IdsOfFacts
  <2>2. QED
    BY <1>1, <2>1 DEF Elements
<1>5. K = {id \in K : Outcome(l, p, b, id) # "Drop"}
      /\ Conflicts(l, p, b) = {id \in K : Outcome(l, p, b, id) = "Conflict"}
  BY DEF Left, Conflicts
<1>6. ASSUME NEW c \in P PROVE c.id \in K \union Copies(tag, l, p, b)
  <2>1. PICK id \in K : c \in Piece(tag, l, p, b, id)
    BY DEF P, Pieces
  <2>2. c.id = id \/ (c.id = Append(id, tag) /\ Outcome(l, p, b, id) = "Conflict")
    BY <2>1, PieceIds
  <2>3. QED
    BY <1>5, <2>1, <2>2 DEF Copies
<1>7. ASSUME NEW id \in K PROVE \E c \in P : c.id = id
  <2>1. PICK c \in Piece(tag, l, p, b, id) : c.id = id
    BY <1>5, PieceHas
  <2>2. QED
    BY <2>1 DEF P, Pieces
<1>8. ASSUME NEW id \in Copies(tag, l, p, b) PROVE \E c \in P : c.id = id
  <2>1. PICK x \in Conflicts(l, p, b) : id = Append(x, tag)
    BY DEF Copies
  <2>2. Outcome(l, p, b, x) = "Conflict"
    BY <1>5, <2>1
  <2>3. PICK c \in Piece(tag, l, p, b, x) : c.id = id
    BY <2>1, <2>2, PieceHas
  <2>4. QED
    BY <1>5, <2>1, <2>3 DEF P, Pieces
<1>9. Ids(cells) = K \union Copies(tag, l, p, b)
  <2>1. \A id : id \in Ids(cells) <=> \E c \in P : c.id = id
    BY <1>4
  <2> HIDE DEF K
  <2>2. QED
    BY <1>6, <1>7, <1>8, <2>1
<1>10. QED
  BY <1>1, <1>2, <1>3, <1>9 DEF P

LEMMA LeftNames ==
    ASSUME NEW All, NEW tag, NEW l, NEW p, NEW b, Sides(All, tag, l, p, b)
    PROVE  /\ Left(l, p, b) \subseteq Names(All)
           /\ Conflicts(l, p, b) \subseteq Left(l, p, b)
           /\ Names(All) \intersect Copies(tag, l, p, b) = {}
<1>1. WellFormed(All, l.cells) /\ WellFormed(All, p.cells) /\ WellFormed(All, b.cells)
  BY DEF Sides
<1>2. \A id \in Ids(l.cells) \union Ids(p.cells) \union Ids(b.cells) : id \in Names(All)
  BY <1>1, CellsFacts
<1>3. Left(l, p, b) \subseteq Names(All) /\ Conflicts(l, p, b) \subseteq Left(l, p, b)
  BY <1>2 DEF Left, Conflicts
<1>4. \A x \in Copies(tag, l, p, b) : x \notin Names(All)
  BY <1>3, NamesFacts DEF Sides, Copies
<1>5. QED
  BY <1>3, <1>4

\* Every cell stands once under its id.
LEMMA MergedLength ==
    ASSUME NEW All, NEW tag, NEW l, NEW p, NEW b, Sides(All, tag, l, p, b), NEW merge, merge = Merge(l, p, b, tag)
    PROVE  /\ IsFiniteSet(Ids(merge.cells))
           /\ Cardinality(Ids(merge.cells)) = Len(merge.cells)
<1>1. merge.cells \in Seq(Pieces(tag, l, p, b, Left(l, p, b))) /\ Distinct(IdsOf(merge.cells))
  BY MergeRight
<1>2. /\ IdsOf(merge.cells) \in Seq(Ids(merge.cells)) /\ Elements(IdsOf(merge.cells)) = Ids(merge.cells)
      /\ Len(IdsOf(merge.cells)) = Len(merge.cells)
  BY <1>1, IdsOfFacts
<1>3. QED
  BY <1>1, <1>2, DistinctLength

---------------------------------------------------------------------------
(* One merge of three documents, MCWorkbookMerge.                          *)

UserIds == {<<x>> : x \in CellIds}
Cells == [id : UserIds, body : Nat \ {0}, before : {<<>>},
          after : {<<>>} \union {<<t>> : t \in Ends}]

LEMMA UserIdFacts ==
    ASSUME NEW x \in UserIds, NEW y \in UserIds
    PROVE  /\ x # Start /\ Len(x) = 1 /\ Len(Append(x, Tag)) = 2
           /\ Append(x, Tag) # y
           /\ Append(x, Tag) = Append(y, Tag) => x = y
<1>1. PICK a \in CellIds, c \in CellIds : x = <<a>> /\ y = <<c>>
  BY DEF UserIds
<1> DEFINE A == CellIds \union {Tag}
<1>2. x \in Seq(A) /\ y \in Seq(A) /\ Tag \in A /\ Len(x) = 1 /\ Len(y) = 1 /\ Len(Start) = 0
  BY <1>1 DEF Start
<1>3. /\ Len(Append(x, Tag)) = 2 /\ Append(x, Tag)[1] = a
      /\ Len(Append(y, Tag)) = 2 /\ Append(y, Tag)[1] = c
  BY <1>1, <1>2
<1>4. QED
  BY <1>1, <1>2, <1>3

LEMMA UserCellsRight == IsCells(Cells) /\ Names(Cells) = UserIds /\ NewTag(Cells, Tag)
<1>1. IsCells(Cells)
  <2>1. \A c \in Cells :
            /\ c = [id |-> c.id, body |-> c.body, before |-> c.before, after |-> c.after]
            /\ c.id \in UserIds /\ c.body \in Nat \ {0}
    BY DEF Cells
  <2>2. \A c \in Cells : c.id # Start
    BY <2>1, UserIdFacts
  <2>3. QED
    BY <2>1, <2>2 DEF IsCells
<1>2. Names(Cells) = UserIds
  <2>1. \A c \in Cells : c.id \in UserIds
    BY DEF Cells
  <2>2. ASSUME NEW x \in UserIds PROVE x \in Names(Cells)
    <3> DEFINE c == [id |-> x, body |-> 1, before |-> <<>>, after |-> <<>>]
    <3>1. c \in Cells /\ c.id = x
      BY DEF Cells
    <3>2. QED
      BY <3>1 DEF Names
  <2>3. QED
    BY <2>1, <2>2 DEF Names
<1>3. ASSUME NEW x \in UserIds, NEW y \in UserIds
      PROVE  Append(x, Tag) # y /\ (Append(x, Tag) = Append(y, Tag) => x = y)
  BY <1>3, UserIdFacts
<1>4. QED
  BY <1>1, <1>2, <1>3 DEF NewTag

LEMMA LeftAreUsers ==
    ASSUME NEW l, NEW p, NEW b, Sides(Cells, Tag, l, p, b)
    PROVE  /\ Left(l, p, b) \subseteq UserIds
           /\ Conflicts(l, p, b) \subseteq Left(l, p, b)
           /\ Left(l, p, b) \intersect Copies(Tag, l, p, b) = {}
           /\ UserIds \intersect Copies(Tag, l, p, b) = {}
           /\ \A x \in Copies(Tag, l, p, b) : Len(x) = 2
<1>1. Left(l, p, b) \subseteq UserIds /\ Conflicts(l, p, b) \subseteq Left(l, p, b)
  BY LeftNames, UserCellsRight
<1>2. \A x \in Copies(Tag, l, p, b) : x \notin UserIds /\ Len(x) = 2
  BY <1>1, UserIdFacts DEF Copies
<1>3. QED
  BY <1>1, <1>2

LEMMA DocumentsWellFormed ==
    ASSUME NEW B \in SUBSET (Nat \ {0}), NEW file \in Documents(B)
    PROVE  /\ WellFormed(Cells, file.cells)
           /\ file.prose \in Seq(Texts)
           /\ file.cells # <<>> => file.prose = <<>>
<1>1. PICK ids \in Arrangements :
          file \in IF ids = <<>>
                  THEN {[cells |-> <<>>, prose |-> t] : t \in {<<>>} \union {<<t>> : t \in Texts}}
                  ELSE {[cells |-> [i \in DOMAIN ids |->
                                        [id |-> <<ids[i]>>, body |-> bodies[i], before |-> <<>>,
                                         after |-> IF i = Len(ids) THEN <<t>> ELSE <<>>]],
                         prose |-> <<>>] : bodies \in [DOMAIN ids -> B], t \in Ends}
  BY DEF Documents
<1>2. CASE ids = <<>>
  <2>1. file.cells = <<>> /\ file.prose \in {<<>>} \union {<<t>> : t \in Texts}
    BY <1>1, <1>2
  <2>2. WellFormed(Cells, <<>>)
    <3>1. <<>> \in Seq(Cells)
      OBVIOUS
    <3>2. Distinct(IdsOf(<<>>))
      BY DEF Distinct, IdsOf
    <3>3. QED
      BY <3>1, <3>2, UserCellsRight DEF WellFormed
  <2>3. file.prose \in Seq(Texts)
    <3>1. \A t \in Texts : <<t>> \in Seq(Texts)
      OBVIOUS
    <3>2. <<>> \in Seq(Texts)
      OBVIOUS
    <3>3. QED
      BY <2>1, <3>1, <3>2
  <2>4. QED
    BY <2>1, <2>2, <2>3
<1>3. CASE ids # <<>>
  <2>1. PICK S \in SUBSET CellIds : ids \in SetToSeqs(S)
    BY DEF Arrangements
  <2>2. IsFiniteSet(S) /\ Cardinality(S) \in Nat
    BY CellIdsAssumption, FS_Subset, FS_CardinalityType
  <2> DEFINE n == Cardinality(S)
  <2>3. ids \in [1 .. n -> S] /\ \A i, j \in 1 .. n : i # j => ids[i] # ids[j]
    BY <2>1 DEF SetToSeqs
  <2>4. PICK bodies \in [DOMAIN ids -> B], t \in Ends :
            file = [cells |-> [i \in DOMAIN ids |->
                                [id |-> <<ids[i]>>, body |-> bodies[i], before |-> <<>>,
                                 after |-> IF i = Len(ids) THEN <<t>> ELSE <<>>]],
                   prose |-> <<>>]
    BY <1>1, <1>3
  <2> DEFINE c == file.cells
  <2>5. /\ n \in Nat /\ c = [i \in 1 .. n |-> c[i]]
        /\ \A i \in 1 .. n : c[i] \in Cells /\ c[i].id = <<ids[i]>>
        /\ file.prose = <<>>
    BY <2>2, <2>3, <2>4 DEF Cells, UserIds
  <2> HIDE DEF c, n
  <2>6. c \in Seq(Cells) /\ Len(c) = n
    BY <2>5
  <2>7. Distinct(IdsOf(c))
    <3>1. \A i \in 1 .. n : IdsOf(c)[i] = <<ids[i]>>
      BY <2>5, <2>6 DEF IdsOf
    <3>2. Len(IdsOf(c)) = n
      BY <2>5, <2>6 DEF IdsOf
    <3>3. QED
      BY <2>3, <3>1, <3>2 DEF Distinct, n
  <2>8. QED
    BY <2>5, <2>6, <2>7, UserCellsRight DEF WellFormed, c
<1>4. QED
  BY <1>2, <1>3


\* The inductive invariant: the documents are documents, and what is merged
\* is what merge makes of them.
MergedRight ==
    /\ local \in Documents(Bodies) /\ peer \in Documents(Bodies)
    /\ base \in Documents(BaseBodies)
    /\ merged \in {Unmerged, Merge(local, peer, base, Tag)}

LEMMA MergeInvariant == MergeSpec => []MergedRight
<1>1. MergeInit => MergedRight
  BY DEF MergeInit, MergedRight
<1>2. MergedRight /\ [DoMerge]_mergeVars => MergedRight'
  BY DEF MergedRight, DoMerge, mergeVars
<1>3. QED
  BY <1>1, <1>2, PTL DEF MergeSpec

LEMMA MergedFacts ==
    ASSUME MergedRight, Done
    PROVE  /\ Sides(Cells, Tag, local, peer, base) /\ Sides(Cells, Tag, peer, local, base)
           /\ merged = Merge(local, peer, base, Tag)
           /\ local.prose \in Seq(Texts) /\ peer.prose \in Seq(Texts)
           /\ WellFormed(Cells, local.cells) /\ WellFormed(Cells, peer.cells) /\ WellFormed(Cells, base.cells)
<1>1. Bodies \in SUBSET (Nat \ {0}) /\ BaseBodies \in SUBSET (Nat \ {0})
  BY BodiesAssumption
<1>2. /\ local \in Documents(Bodies) /\ peer \in Documents(Bodies)
      /\ base \in Documents(BaseBodies)
      /\ merged = Merge(local, peer, base, Tag)
  BY DEF MergedRight, Done
<1>3. WellFormed(Cells, local.cells) /\ local.prose \in Seq(Texts)
  BY <1>1, <1>2, DocumentsWellFormed
<1>4. WellFormed(Cells, peer.cells) /\ peer.prose \in Seq(Texts)
  BY <1>1, <1>2, DocumentsWellFormed
<1>5. WellFormed(Cells, base.cells)
  BY <1>1, <1>2, DocumentsWellFormed
<1>6. QED
  BY <1>2, <1>3, <1>4, <1>5, UserCellsRight DEF Sides

LEMMA LinesOfJoined ==
    ASSUME NEW A, NEW s \in Seq(A), NEW t \in Seq(A)
    PROVE  LinesOf(s \o t) = LinesOf(s) \union LinesOf(t)
<1>1. \A u \in Seq(A) : LinesOf(u) = Elements(u)
  BY DEF LinesOf, Elements
<1>2. s \o t \in Seq(A) /\ Elements(s \o t) = Elements(s) \union Elements(t)
  BY ConcatElements
<1>3. QED
  BY <1>1, <1>2

LEMMA LinesOfProse ==
    ASSUME NEW l \in Seq(Texts), NEW p \in Seq(Texts), NEW b
    PROVE  /\ l # b => LinesOf(l) \subseteq LinesOf(MergedProse(l, p, b))
           /\ p # b => LinesOf(p) \subseteq LinesOf(MergedProse(l, p, b))
<1> DEFINE A == Texts \union {"conflict"}
           mark == <<"conflict">>
<1>1. l \in Seq(A) /\ p \in Seq(A) /\ mark \in Seq(A)
  OBVIOUS
<1> HIDE DEF A, mark
<1>2. l \o mark \in Seq(A) /\ LinesOf(l \o mark) = LinesOf(l) \union LinesOf(mark)
  BY <1>1, LinesOfJoined, ConcatElements
<1>3. LinesOf((l \o mark) \o p) = LinesOf(l \o mark) \union LinesOf(p)
  <2> DEFINE both == l \o mark
  <2>1. both \in Seq(A)
    BY <1>2
  <2> HIDE DEF both
  <2>2. LinesOf(both \o p) = LinesOf(both) \union LinesOf(p)
    BY <1>1, <2>1, LinesOfJoined
  <2>3. QED
    BY <2>2 DEF both
<1>4. MergedProse(l, p, b) = IF l = b THEN p ELSE IF p = b \/ p = l THEN l ELSE (l \o mark) \o p
  BY DEF MergedProse, mark
<1>5. QED
  BY <1>2, <1>3, <1>4

(* No edit is lost: whatever either side changed or added, a cell or the   *)
(* text of a document without one, is in the merged document (mod.rs,      *)
(* merge; order.rs, build_merged_cells).                                   *)
THEOREM MergeKeepsEdits == MergeSpec => []EditsSurvive
<1>1. ASSUME MergedRight PROVE EditsSurvive
  <2>1. SUFFICES ASSUME Done, NEW side \in {local, peer}
                 PROVE  /\ \A id \in Edited(side) : \E i \in DOMAIN merged.cells :
                              /\ merged.cells[i].id \in {id, Append(id, Tag)}
                              /\ merged.cells[i].body = CellOf(side.cells, id).body
                        /\ PureProse(local) /\ PureProse(peer) /\ PureProse(base)
                           /\ side.prose # base.prose
                              => LinesIn(side) \subseteq LinesIn(merged)
    BY DEF EditsSurvive
  <2>2. /\ Sides(Cells, Tag, local, peer, base) /\ merged = Merge(local, peer, base, Tag)
        /\ local.prose \in Seq(Texts) /\ peer.prose \in Seq(Texts)
        /\ WellFormed(Cells, side.cells)
    BY <1>1, <2>1, MergedFacts
  <2>3. ASSUME NEW id \in Edited(side)
        PROVE  \E i \in DOMAIN merged.cells :
                  /\ merged.cells[i].id \in {id, Append(id, Tag)}
                  /\ merged.cells[i].body = CellOf(side.cells, id).body
    <3> DEFINE o == Outcome(local, peer, base, id)
               kept == C!Kept(o, ContentOf(local.cells, id), ContentOf(peer.cells, id))
               k == ContentOf(side.cells, id)
    <3>1. /\ id \in Ids(side.cells) /\ k # ContentOf(base.cells, id)
          /\ k # NoContent /\ k.body = CellOf(side.cells, id).body
      BY <2>2, CellOfFacts DEF Edited
    <3>2. k \in kept
      <4>1. CASE side = local
        BY <3>1, <4>1, CellEditSurvives DEF Outcome
      <4>2. CASE side = peer
        BY <3>1, <4>2, CellEditSurvives DEF Outcome
      <4>3. QED
        BY <4>1, <4>2
    <3>3. o # "Drop"
      BY <3>2 DEF C!Kept
    <3>5. PICK c \in Piece(Tag, local, peer, base, id) : c.body = k.body
      <4> HIDE DEF k
      <4>1. QED
        BY <2>2, <3>2, PieceHas
    <3>6. c.id \in {id, Append(id, Tag)}
      BY <2>2, PieceIds
    <3>7. id \in Left(local, peer, base)
      BY <3>1, <3>3 DEF Left
    <3>8. c \in Elements(merged.cells)
      <4>1. Elements(merged.cells) = Pieces(Tag, local, peer, base, Left(local, peer, base))
        BY <2>2, MergeRight
      <4>2. QED
        BY <3>7, <4>1 DEF Pieces
    <3>9. PICK i \in 1 .. Len(merged.cells) : merged.cells[i] = c
      BY <3>8 DEF Elements
    <3>10. DOMAIN merged.cells = 1 .. Len(merged.cells)
      <4>1. merged.cells \in Seq(Pieces(Tag, local, peer, base, Left(local, peer, base)))
        BY <2>2, MergeRight
      <4>2. QED
        BY <4>1
    <3>11. QED
      BY <3>1, <3>5, <3>6, <3>9, <3>10
  <2>4. ASSUME PureProse(local), PureProse(peer), PureProse(base), side.prose # base.prose
        PROVE  LinesIn(side) \subseteq LinesIn(merged)
    <3>1. merged.prose = MergedProse(local.prose, peer.prose, base.prose) /\ merged.cells = <<>>
      BY <2>2, <2>4 DEF Merge
    <3>2. side.cells = <<>>
      BY <2>4 DEF PureProse
    <3>3. \A merge : merge.cells = <<>> => LinesIn(merge) = LinesOf(merge.prose)
      BY DEF LinesIn
    <3>4. LinesOf(side.prose) \subseteq LinesOf(merged.prose)
      BY <2>2, <2>4, <3>1, LinesOfProse
    <3>5. QED
      BY <3>1, <3>2, <3>3, <3>4
  <2>5. QED
    BY <2>3, <2>4
<1>2. QED
  BY <1>1, MergeInvariant, PTL

(* A deletion is honoured: what one side deleted is only there when the    *)
(* other edited it (cells.rs, decide_one).                                 *)
THEOREM MergeHonoursDeletions == MergeSpec => []DeletionHonoured
<1>1. ASSUME NEW l, NEW p, NEW b, Sides(Cells, Tag, l, p, b), NEW id \in Left(l, p, b),
             id \in Ids(b.cells)
      PROVE  /\ id \notin Ids(l.cells) =>
                   id \in Ids(p.cells) /\ ContentOf(p.cells, id) # ContentOf(b.cells, id)
             /\ id \notin Ids(p.cells) =>
                   id \in Ids(l.cells) /\ ContentOf(l.cells, id) # ContentOf(b.cells, id)
  <2>1. WellFormed(Cells, l.cells) /\ WellFormed(Cells, p.cells) /\ WellFormed(Cells, b.cells)
    BY <1>1 DEF Sides
  <2>2. C!Decide(ContentOf(b.cells, id), ContentOf(l.cells, id), ContentOf(p.cells, id)) # "Drop"
    BY DEF Left, Outcome
  <2>3. /\ ContentOf(b.cells, id) # NoContent
        /\ id \in Ids(l.cells) <=> ContentOf(l.cells, id) # NoContent
        /\ id \in Ids(p.cells) <=> ContentOf(p.cells, id) # NoContent
    BY <1>1, <2>1, CellOfFacts
  <2>4. QED
    BY <2>2, <2>3, CellDeletionHonoured
<1>2. ASSUME MergedRight PROVE DeletionHonoured
  <2>1. SUFFICES ASSUME Done
                 PROVE  /\ Deleted(local) \intersect Ids(merged.cells) \subseteq Edited(peer)
                        /\ Deleted(peer) \intersect Ids(merged.cells) \subseteq Edited(local)
    BY DEF DeletionHonoured
  <2>2. Sides(Cells, Tag, local, peer, base) /\ WellFormed(Cells, base.cells)
        /\ merged = Merge(local, peer, base, Tag)
    BY <1>2, <2>1, MergedFacts
  <2>3. ASSUME NEW id \in Ids(base.cells), id \in Ids(merged.cells)
        PROVE  id \in Left(local, peer, base)
    <3>1. id \in UserIds
      BY <2>2, CellsFacts, UserCellsRight
    <3>2. Ids(merged.cells) = Left(local, peer, base) \union Copies(Tag, local, peer, base)
      BY <2>2, MergeRight
    <3>3. QED
      BY <2>2, <2>3, <3>1, <3>2, LeftAreUsers
  <2>4. QED
    BY <1>1, <2>2, <2>3 DEF Deleted, Edited
<1>3. QED
  BY <1>2, MergeInvariant, PTL

(* Every id stands once in a merged document, and the ids more than the    *)
(* users' are those of the conflict copies (order.rs, mint_conflict_id).   *)
THEOREM MergeKeepsIdsUnique == MergeSpec => []EveryIdOnce
<1>1. ASSUME MergedRight PROVE EveryIdOnce
  <2> DEFINE cells == merged.cells
             K == Left(local, peer, base)
             T == Copies(Tag, local, peer, base)
             X == Conflicts(local, peer, base)
             U == {cells[i] : i \in {j \in DOMAIN cells : Len(cells[j].id) = 1}}
  <2>1. SUFFICES ASSUME Done
                 PROVE  /\ cells # <<>> => merged.prose = <<>>
                        /\ Cardinality(Ids(cells)) = Len(cells)
                        /\ Len(cells) - Len(UserCells(cells)) = Cardinality(X)
    BY DEF EveryIdOnce
  <2>2. Sides(Cells, Tag, local, peer, base) /\ merged = Merge(local, peer, base, Tag)
    BY <1>1, <2>1, MergedFacts
  <2>3. /\ cells \in Seq(Pieces(Tag, local, peer, base, K)) /\ Distinct(cells)
        /\ Distinct(IdsOf(cells)) /\ Ids(cells) = K \union T
        /\ cells # <<>> => merged.prose = <<>>
    BY <2>2, MergeRight
  <2>4. IsFiniteSet(Ids(cells)) /\ Cardinality(Ids(cells)) = Len(cells)
    BY <2>2, MergedLength
  <2>5. /\ K \subseteq UserIds /\ X \subseteq K /\ K \intersect T = {}
        /\ \A x \in T : Len(x) = 2
    BY <2>2, LeftAreUsers
  <2>6. /\ IsFiniteSet(K) /\ IsFiniteSet(T) /\ IsFiniteSet(X)
        /\ Cardinality(K) \in Nat /\ Cardinality(T) \in Nat
    <3>1. IsFiniteSet(K) /\ IsFiniteSet(T)
      BY <2>3, <2>4, FS_Subset
    <3>2. QED
      BY <2>5, <3>1, FS_Subset, FS_CardinalityType
  <2>7. Cardinality(T) = Cardinality(X)
    <3> DEFINE f == [id \in X |-> Append(id, Tag)]
    <3>1. f \in Bijection(X, T)
      <4>1. \A x, y \in X : Append(x, Tag) = Append(y, Tag) => x = y
        BY <2>5, UserIdFacts
      <4>2. T = {Append(id, Tag) : id \in X}
        BY DEF Copies
      <4> HIDE DEF T, X
      <4>3. QED
        BY <4>1, <4>2 DEF Bijection, Injection, Surjection, IsInjective
    <3>2. QED
      BY <2>6, <3>1, FS_Bijection DEF ExistsBijection
  <2> HIDE DEF cells, K, T, X
  <2>8. Len(cells) = Cardinality(K) + Cardinality(X)
    <3>1. Cardinality(K \union T) = Cardinality(K) + Cardinality(T) - Cardinality(K \intersect T)
      BY <2>6, FS_Union
    <3>2. Cardinality(K \intersect T) = 0
      BY <2>5, FS_EmptySet
    <3>3. QED
      BY <2>3, <2>4, <2>6, <2>7, <3>1, <3>2
  <2>9. /\ Len(cells) \in Nat /\ DOMAIN cells = 1 .. Len(cells)
        /\ \A i, j \in 1 .. Len(cells) : cells[i].id = cells[j].id => i = j
        /\ Ids(cells) = {cells[i].id : i \in 1 .. Len(cells)}
    <3>1. /\ Len(IdsOf(cells)) = Len(cells)
          /\ \A i \in 1 .. Len(cells) : IdsOf(cells)[i] = cells[i].id
          /\ Ids(cells) = {cells[i].id : i \in 1 .. Len(cells)}
      BY <2>3, IdsOfFacts
    <3>2. Len(cells) \in Nat /\ DOMAIN cells = 1 .. Len(cells)
      BY <2>3
    <3>3. QED
      BY <2>3, <3>1, <3>2 DEF Distinct
  <2>10. /\ U \subseteq Elements(cells)
         /\ \A c \in U : c.id \in K
         /\ \A c, d \in U : c.id = d.id => c = d
         /\ \A id \in K : \E c \in U : c.id = id
    <3>1. \A i \in 1 .. Len(cells) : Len(cells[i].id) = 1 <=> cells[i].id \in K
      <4>1. \A id \in K : Len(id) = 1
        BY <2>5, UserIdFacts
      <4>2. \A i \in 1 .. Len(cells) : cells[i].id \in K \/ cells[i].id \in T
        BY <2>3, <2>9
      <4>3. QED
        BY <2>5, <4>1, <4>2
    <3>2. \A c : c \in U <=> \E i \in 1 .. Len(cells) : c = cells[i] /\ cells[i].id \in K
      BY <2>9, <3>1
    <3>3. \A id \in K : \E i \in 1 .. Len(cells) : cells[i].id = id
      BY <2>3, <2>9
    <3> HIDE DEF U
    <3>4. U \subseteq Elements(cells)
      BY <3>2 DEF Elements
    <3>5. QED
      BY <2>9, <3>2, <3>3, <3>4
  <2>11. UserCells(cells) = Select(cells, U)
    BY DEF UserCells
  <2> HIDE DEF U
  <2>12. Len(UserCells(cells)) = Cardinality(U) /\ IsFiniteSet(U)
    <3>1. /\ Select(cells, U) \in Seq(Pieces(Tag, local, peer, base, Left(local, peer, base)))
          /\ Elements(Select(cells, U)) = Elements(cells) \intersect U
          /\ Distinct(Select(cells, U))
      BY <2>3, SelectElements DEF K
    <3>2. Elements(Select(cells, U)) = U
      BY <2>10, <3>1
    <3>3. QED
      BY <2>11, <3>1, <3>2, DistinctLength
  <2>13. Cardinality(U) = Cardinality(K)
    <3> DEFINE f == [c \in U |-> c.id]
    <3>1. f \in Bijection(U, K)
      BY <2>10 DEF Bijection, Injection, Surjection, IsInjective
    <3>2. QED
      BY <2>12, <3>1, FS_Bijection DEF ExistsBijection
  <2>14. Cardinality(X) \in Nat
    BY <2>6, FS_CardinalityType
  <2>15. Len(cells) - Len(UserCells(cells)) = Cardinality(X)
    BY <2>6, <2>8, <2>12, <2>13, <2>14
  <2>16. QED
    BY <2>3, <2>4, <2>15 DEF cells, X
<1>2. QED
  BY <1>1, MergeInvariant, PTL

\* What one way of merging leaves, the other leaves too.
LEMMA LeftBothWays ==
    ASSUME NEW l, NEW p, NEW b
    PROVE  /\ Left(l, p, b) = Left(p, l, b)
           /\ Copies(Tag, l, p, b) = Copies(Tag, p, l, b)
<1>1. \A id : /\ Outcome(l, p, b, id) = "Drop" <=> Outcome(p, l, b, id) = "Drop"
              /\ Outcome(l, p, b, id) = "Conflict" <=> Outcome(p, l, b, id) = "Conflict"
  BY CellSameBothWays DEF Outcome
<1>2. Conflicts(l, p, b) = Conflicts(p, l, b)
  BY <1>1 DEF Conflicts
<1>3. QED
  BY <1>1, <1>2 DEF Left, Copies

\* The bodies of one merge are among those of the other.
LEMMA BodiesBothWays ==
    ASSUME NEW l, NEW p, NEW b, Sides(Cells, Tag, l, p, b), Sides(Cells, Tag, p, l, b)
    PROVE  BodiesIn(Merge(l, p, b, Tag).cells) \subseteq BodiesIn(Merge(p, l, b, Tag).cells)
<1> DEFINE one == Merge(l, p, b, Tag).cells
           other == Merge(p, l, b, Tag).cells
           P == Pieces(Tag, l, p, b, Left(l, p, b))
           Q == Pieces(Tag, p, l, b, Left(p, l, b))
<1>1. one \in Seq(P) /\ Elements(one) = P
  BY MergeRight
<1>2. other \in Seq(Q) /\ Elements(other) = Q
  BY MergeRight
<1> HIDE DEF one, other, P, Q
<1>3. ASSUME NEW c \in P PROVE \E d \in Q : d.body = c.body
  <2>1. PICK id \in Left(l, p, b) : c \in Piece(Tag, l, p, b, id)
    BY DEF P, Pieces
  <2> DEFINE cl == ContentOf(l.cells, id)
             cp == ContentOf(p.cells, id)
             kept == C!Kept(Outcome(l, p, b, id), cl, cp)
             back == C!Kept(Outcome(p, l, b, id), cp, cl)
  <2>2. kept = back
    BY CellSameBothWays DEF Outcome
  <2> HIDE DEF kept, back
  <2>3. PICK k \in kept : c.body = k.body
    BY <2>1, PieceHas DEF kept
  <2>4. PICK d \in Piece(Tag, p, l, b, id) : d.body = k.body
    BY <2>2, <2>3, PieceHas DEF back
  <2>5. d \in Q
    BY LeftBothWays DEF Q, Pieces
  <2>6. QED
    BY <2>3, <2>4, <2>5
<1>4. ASSUME NEW A, NEW cells \in Seq(A)
      PROVE  \A x : x \in BodiesIn(cells) <=> \E c \in Elements(cells) : x = c.body
  <2>1. DOMAIN cells = 1 .. Len(cells)
    OBVIOUS
  <2>2. QED
    BY <2>1 DEF BodiesIn, Elements
<1>5. \A x : x \in BodiesIn(one) <=> \E c \in P : x = c.body
  BY <1>1, <1>4
<1>6. \A x : x \in BodiesIn(other) <=> \E c \in Q : x = c.body
  BY <1>2, <1>4
<1>7. BodiesIn(one) \subseteq BodiesIn(other)
  BY <1>3, <1>5, <1>6
<1>8. QED
  BY <1>7 DEF one, other

(* The same bodies come out, as often, whichever device merges (cells.rs,  *)
(* decide_cells; order.rs, build_merged_cells).                            *)
THEOREM MergeSameBothWays == MergeSpec => []SameBothWays
<1>1. ASSUME MergedRight PROVE SameBothWays
  <2> DEFINE other == Merge(peer, local, base, Tag)
  <2>1. SUFFICES ASSUME Done
                 PROVE  /\ BodiesIn(merged.cells) = BodiesIn(other.cells)
                        /\ Len(merged.cells) = Len(other.cells)
    BY DEF SameBothWays
  <2>2. /\ Sides(Cells, Tag, local, peer, base) /\ Sides(Cells, Tag, peer, local, base)
        /\ merged = Merge(local, peer, base, Tag)
    BY <1>1, <2>1, MergedFacts
  <2>3. BodiesIn(merged.cells) = BodiesIn(other.cells)
    <3>1. BodiesIn(merged.cells) \subseteq BodiesIn(other.cells)
      BY <2>2, BodiesBothWays
    <3>2. BodiesIn(other.cells) \subseteq BodiesIn(merged.cells)
      BY <2>2, BodiesBothWays
    <3>3. QED
      BY <3>1, <3>2
  <2>4. Ids(merged.cells) = Ids(other.cells)
    <3>1. Ids(merged.cells) = Left(local, peer, base) \union Copies(Tag, local, peer, base)
      BY <2>2, MergeRight
    <3>2. Ids(other.cells) = Left(peer, local, base) \union Copies(Tag, peer, local, base)
      BY <2>2, MergeRight
    <3>3. QED
      BY <3>1, <3>2, LeftBothWays
  <2>5. Cardinality(Ids(merged.cells)) = Len(merged.cells)
    BY <2>2, MergedLength
  <2>6. Cardinality(Ids(other.cells)) = Len(other.cells)
    BY <2>2, MergedLength
  <2>7. QED
    BY <2>3, <2>4, <2>5, <2>6
<1>2. QED
  BY <1>1, MergeInvariant, PTL

(* A side that did not move base's cells finds its own in the order it had *)
(* them (order.rs, collect_added_by_anchor and build_merged_cells).        *)
THEOREM MergeKeepsOrder == MergeSpec => []OrderKept
<1>1. ASSUME MergedRight PROVE OrderKept
  <2>1. SUFFICES ASSUME Done
        PROVE  /\ KeepsBaseOrder(local) => InOrder(Ids(local.cells), local.cells)
               /\ KeepsBaseOrder(peer)
                     => InOrder(Ids(peer.cells) \ (Ids(local.cells) \ Ids(base.cells)), peer.cells)
    BY DEF OrderKept
  <2>2. /\ Sides(Cells, Tag, local, peer, base) /\ merged = Merge(local, peer, base, Tag)
        /\ WellFormed(Cells, local.cells) /\ WellFormed(Cells, peer.cells) /\ WellFormed(Cells, base.cells)
    BY <1>1, <2>1, MergedFacts
  <2> DEFINE S == Survivors(local, peer, base)
  <2>3. ASSUME NEW side \in {local, peer}, KeepsBaseOrder(side), NEW added, NEW ids,
               \/ side = local /\ added = LocalAdded(local, base) /\ ids = Ids(local.cells)
               \/ /\ side = peer /\ added = PeerAdded(local, peer, base)
                  /\ ids = Ids(peer.cells) \ (Ids(local.cells) \ Ids(base.cells))
        PROVE  InOrder(ids, side.cells)
    <3>1. /\ DOMAIN side.cells = 1 .. Len(side.cells)
          /\ \A k \in 1 .. Len(side.cells) : side.cells[k].id \in UserIds
      BY <2>2, CellsFacts, UserCellsRight
    <3>2. DOMAIN base.cells = 1 .. Len(base.cells)
      BY <2>2, CellsFacts
    <3>3. DOMAIN merged.cells = 1 .. Len(merged.cells)
      <4>1. merged.cells \in Seq(Pieces(Tag, local, peer, base, Left(local, peer, base)))
        BY <2>2, MergeRight
      <4>2. QED
        BY <4>1
    <3>4. InBaseOrder(side.cells, base.cells)
      BY <2>3, <3>1, <3>2 DEF KeepsBaseOrder, InBaseOrder
    <3>5. SUFFICES ASSUME NEW i \in 1 .. Len(side.cells), NEW j \in 1 .. Len(side.cells), i < j,
                          side.cells[i].id \in ids, side.cells[j].id \in ids,
                          NEW m \in 1 .. Len(merged.cells), NEW n \in 1 .. Len(merged.cells),
                          merged.cells[m].id = side.cells[i].id,
                          merged.cells[n].id = side.cells[j].id
                   PROVE  m < n
      BY <3>1, <3>3 DEF InOrder
    <3> DEFINE x == side.cells[i].id
               y == side.cells[j].id
    <3>6. ASSUME NEW k \in 1 .. Len(merged.cells), merged.cells[k].id \in ids \intersect UserIds
          PROVE  merged.cells[k].id \in S \union added
      <4>1. merged.cells[k].id \in Left(local, peer, base) \union Copies(Tag, local, peer, base)
        BY <2>2, <3>3, MergeRight DEF Ids
      <4>2. merged.cells[k].id \in Placed(local, peer, base)
        BY <2>2, <3>6, <4>1, LeftAreUsers, PlacedIsLeft
      <4>3. QED
        BY <2>3, <3>6, <4>2 DEF Placed, LocalAdded, PeerAdded, Survivors
    <3>7. x \in S \union added /\ y \in S \union added
      BY <3>1, <3>5, <3>6
    <3>8. Precedes(MergedIds(local, peer, base), x, y)
      <4>1. \/ side.cells = local.cells /\ added = LocalAdded(local, base)
            \/ side.cells = peer.cells /\ added = PeerAdded(local, peer, base)
        BY <2>3
      <4>2. QED
        BY <2>2, <3>4, <3>5, <3>7, <4>1, SideOrder
    <3>9. x \in UserIds /\ y \in UserIds
      BY <3>1
    <3>10. \A u, v \in UserIds : Precedes(MergedIds(local, peer, base), u, v) =>
               \A q, r \in 1 .. Len(merged.cells) :
                   merged.cells[q].id = u /\ merged.cells[r].id = v => q < r
      BY <2>2, MergeRight, UserCellsRight
    <3>11. QED
      BY <3>5, <3>8, <3>9, <3>10
  <2>4. KeepsBaseOrder(local) => InOrder(Ids(local.cells), local.cells)
    BY <2>3
  <2>5. KeepsBaseOrder(peer)
            => InOrder(Ids(peer.cells) \ (Ids(local.cells) \ Ids(base.cells)), peer.cells)
    BY <2>3
  <2>6. QED
    BY <2>4, <2>5
<1>2. QED
  BY <1>1, MergeInvariant, PTL

---------------------------------------------------------------------------
(* A workbook on two devices that sync in turns.                           *)

\* The ids and cells there may be after e edits and n installs: an edit's id
\* is at most e + 1, and each install tags its conflict copies anew.
SyncIds(e, n) == {id \in Seq(Nat) : /\ Len(id) > 0 /\ id[1] <= e + 1
                                    /\ \A i \in 2 .. Len(id) : id[i] <= n}
Lines == {"line end", "conflict", "deleted upstream", "deleted locally"}
SyncCells(e, n) ==
    [id : SyncIds(e, n), body : Nat \ {0}, before : Seq(Lines), after : Seq(Lines)]
Sound(cells, e, n) == WellFormed(SyncCells(e, n), cells)

LEMMA SyncCellsRight ==
    ASSUME NEW e \in Nat, NEW n \in Nat
    PROVE  /\ IsCells(SyncCells(e, n))
           /\ Names(SyncCells(e, n)) \subseteq SyncIds(e, n)
           /\ NewTag(SyncCells(e, n), n + 1)
<1>1. \A id \in SyncIds(e, n) : id \in Seq(Nat) /\ id # Start
  BY DEF SyncIds, Start
<1>2. IsCells(SyncCells(e, n))
  BY <1>1 DEF IsCells, SyncCells
<1>3. Names(SyncCells(e, n)) \subseteq SyncIds(e, n)
  BY DEF Names, SyncCells
<1>4. ASSUME NEW x \in SyncIds(e, n), NEW y \in SyncIds(e, n)
      PROVE  /\ Append(x, n + 1) # y
             /\ Append(x, n + 1) = Append(y, n + 1) => x = y
  <2>1. /\ x \in Seq(Nat) /\ Len(x) \in Nat /\ Len(x) > 0
        /\ y \in Seq(Nat) /\ Len(y) \in Nat
        /\ \A i \in 2 .. Len(y) : y[i] <= n
    BY DEF SyncIds
  <2>2. /\ Len(Append(x, n + 1)) = Len(x) + 1 /\ Append(x, n + 1)[Len(x) + 1] = n + 1
        /\ \A i \in 1 .. Len(x) : Append(x, n + 1)[i] = x[i]
    BY <2>1
  <2>3. /\ Len(Append(y, n + 1)) = Len(y) + 1
        /\ \A i \in 1 .. Len(y) : Append(y, n + 1)[i] = y[i]
    BY <2>1
  <2>4. ASSUME Append(x, n + 1) = y PROVE FALSE
    <3>1. Len(x) + 1 \in 2 .. Len(y) /\ y[Len(x) + 1] = n + 1
      BY <2>1, <2>2, <2>4
    <3>2. QED
      BY <2>1, <3>1
  <2>5. ASSUME Append(x, n + 1) = Append(y, n + 1) PROVE x = y
    <3> DEFINE u == Append(x, n + 1)
               v == Append(y, n + 1)
    <3>1. /\ u = v /\ Len(u) = Len(x) + 1 /\ Len(v) = Len(y) + 1
          /\ \A i \in 1 .. Len(x) : u[i] = x[i]
          /\ \A i \in 1 .. Len(y) : v[i] = y[i]
      BY <2>2, <2>3, <2>5
    <3> HIDE DEF u, v
    <3>2. Len(x) = Len(y) /\ \A i \in 1 .. Len(x) : x[i] = y[i]
      BY <2>1, <3>1
    <3>3. x = [i \in 1 .. Len(x) |-> x[i]] /\ y = [i \in 1 .. Len(y) |-> y[i]]
      BY <2>1
    <3>4. QED
      BY <3>2, <3>3
  <2>6. QED
    BY <2>4, <2>5
<1>5. NewTag(SyncCells(e, n), n + 1)
  BY <1>3, <1>4 DEF NewTag
<1>6. QED
  BY <1>2, <1>3, <1>5

LEMMA SyncCellsGrow ==
    ASSUME NEW e \in Nat, NEW n \in Nat, NEW f \in Nat, NEW m \in Nat, e <= f, n <= m
    PROVE  /\ SyncIds(e, n) \subseteq SyncIds(f, m)
           /\ SyncCells(e, n) \subseteq SyncCells(f, m)
           /\ \A cells : Sound(cells, e, n) => Sound(cells, f, m)
<1>1. ASSUME NEW id \in SyncIds(e, n) PROVE id \in SyncIds(f, m)
  <2>1. /\ id \in Seq(Nat) /\ Len(id) > 0 /\ id[1] <= e + 1
        /\ \A i \in 2 .. Len(id) : id[i] <= n
    BY DEF SyncIds
  <2>2. id[1] \in Nat /\ \A i \in 2 .. Len(id) : id[i] \in Nat
    BY <2>1
  <2>3. QED
    BY <2>1, <2>2 DEF SyncIds
<1>2. SyncCells(e, n) \subseteq SyncCells(f, m)
  BY <1>1 DEF SyncCells
<1>3. ASSUME NEW cells, Sound(cells, e, n) PROVE Sound(cells, f, m)
  <2>1. cells \in Seq(SyncCells(e, n)) /\ Distinct(IdsOf(cells))
    BY <1>3 DEF Sound, WellFormed
  <2>2. cells \in Seq(SyncCells(f, m))
    BY <1>2, <2>1
  <2>3. QED
    BY <2>1, <2>2, SyncCellsRight DEF Sound, WellFormed
<1>4. QED
  BY <1>1, <1>2, <1>3

---------------------------------------------------------------------------
(* What one version of the cells has of another.                           *)

Has(cells, id, body) == \E i \in DOMAIN cells : cells[i].id = id /\ cells[i].body = body

\* But for the bodies, or ids, in gone: every cell is as it was; every body is
\* in some cell; every id is there.
CellsHeld(from, to, gone) ==
    \A i \in DOMAIN from : from[i].body \notin gone => Has(to, from[i].id, from[i].body)
BodiesHeld(from, to, gone) == BodiesIn(from) \ gone \subseteq BodiesIn(to)
IdsHeld(from, to, gone) == Ids(from) \ gone \subseteq Ids(to)

LEMMA HeldThrough ==
    ASSUME NEW x, NEW y, NEW z, NEW R, NEW T, R \subseteq T
    PROVE  /\ CellsHeld(x, y, R) /\ CellsHeld(y, z, T) => CellsHeld(x, z, T)
           /\ BodiesHeld(x, y, R) /\ BodiesHeld(y, z, T) => BodiesHeld(x, z, T)
           /\ IdsHeld(x, y, R) /\ IdsHeld(y, z, T) => IdsHeld(x, z, T)
           /\ CellsHeld(x, y, R) => BodiesHeld(x, y, R)
           /\ CellsHeld(x, x, R) /\ BodiesHeld(x, x, R) /\ IdsHeld(x, x, R)
<1>1. CellsHeld(x, y, R) /\ CellsHeld(y, z, T) => CellsHeld(x, z, T)
  BY DEF CellsHeld, Has
<1>2. CellsHeld(x, y, R) => BodiesHeld(x, y, R)
  BY DEF CellsHeld, BodiesHeld, Has, BodiesIn
<1>3. CellsHeld(x, x, R)
  BY DEF CellsHeld, Has
<1>4. QED
  BY <1>1, <1>2, <1>3 DEF BodiesHeld, IdsHeld

\* Only the prose around the cells differs.
Alike(x, y) ==
    /\ x \in Seq(Elements(x)) /\ y \in Seq(Elements(y)) /\ Len(x) = Len(y)
    /\ \A i \in 1 .. Len(x) : x[i].id = y[i].id /\ x[i].body = y[i].body

LEMMA AlikeFacts ==
    ASSUME NEW x, NEW y, Alike(x, y)
    PROVE  /\ IdsOf(x) = IdsOf(y) /\ Ids(x) = Ids(y) /\ BodiesIn(x) = BodiesIn(y)
           /\ \A id, body : Has(x, id, body) <=> Has(y, id, body)
<1>1. /\ DOMAIN x = 1 .. Len(x) /\ DOMAIN y = 1 .. Len(x)
      /\ \A i \in 1 .. Len(x) : x[i].id = y[i].id /\ x[i].body = y[i].body
  BY DEF Alike
<1>2. IdsOf(x) = IdsOf(y)
  BY <1>1 DEF IdsOf
<1>3. Ids(x) = Ids(y)
  BY <1>1 DEF Ids
<1>4. BodiesIn(x) = BodiesIn(y)
  BY <1>1 DEF BodiesIn
<1>5. \A id, body : Has(x, id, body) <=> Has(y, id, body)
  BY <1>1 DEF Has
<1>6. QED
  BY <1>2, <1>3, <1>4, <1>5

\* What writing a file, or the merge, does to the text after the cells.
LEMMA AlikeSound ==
    ASSUME NEW e \in Nat, NEW n \in Nat, NEW x, Sound(x, e, n),
           NEW t \in [1 .. Len(x) -> Seq(Lines)], NEW y,
           y = [i \in 1 .. Len(x) |-> [x[i] EXCEPT !.after = t[i]]]
    PROVE  Sound(y, e, n) /\ Alike(x, y)
<1>1. /\ x \in Seq(SyncCells(e, n)) /\ Len(x) \in Nat /\ Distinct(IdsOf(x))
      /\ IsCells(SyncCells(e, n))
  BY DEF Sound, WellFormed
<1>2. \A i \in 1 .. Len(x) : x[i] \in SyncCells(e, n)
  BY <1>1
<1>3. \A i \in 1 .. Len(x) : /\ y[i] \in SyncCells(e, n)
                             /\ y[i].id = x[i].id /\ y[i].body = x[i].body
  BY <1>2 DEF SyncCells
<1>4. y \in Seq(SyncCells(e, n)) /\ Len(y) = Len(x)
  <2>1. \A i \in 1 .. Len(x) : [x[i] EXCEPT !.after = t[i]] \in SyncCells(e, n)
    BY <1>3
  <2>2. QED
    BY <1>1, <2>1
<1>5. x \in Seq(Elements(x)) /\ y \in Seq(Elements(y))
  BY <1>1, <1>4, NarrowSeq
<1>6. Alike(x, y)
  BY <1>3, <1>4, <1>5 DEF Alike
<1>7. IdsOf(y) = IdsOf(x)
  BY <1>6, AlikeFacts
<1>8. QED
  BY <1>1, <1>4, <1>6, <1>7 DEF Sound, WellFormed

LEMMA TextFacts == <<>> \in Seq(Lines) /\ \A line \in Lines : <<line>> \in Seq(Lines)
<1>1. ASSUME NEW A, NEW x \in A PROVE <<x>> \in Seq(A)
  OBVIOUS
<1>2. <<>> \in Seq(Lines)
  OBVIOUS
<1>3. QED
  BY <1>1, <1>2

LEMMA FileFacts ==
    ASSUME NEW e \in Nat, NEW n \in Nat, NEW cells, Sound(cells, e, n)
    PROVE  Sound(File(cells).cells, e, n) /\ Alike(cells, File(cells).cells)
<1> DEFINE t == [i \in 1 .. Len(cells) |-> IF i = Len(cells) THEN <<"line end">> ELSE <<>>]
<1>1. DOMAIN cells = 1 .. Len(cells)
  BY CellsFacts DEF Sound
<1>2. t \in [1 .. Len(cells) -> Seq(Lines)]
  BY TextFacts DEF Lines
<1>3. File(cells).cells = [i \in 1 .. Len(cells) |-> [cells[i] EXCEPT !.after = t[i]]]
  BY <1>1 DEF File
<1> HIDE DEF t
<1>4. QED
  BY <1>2, <1>3, AlikeSound

LEMMA WrittenFacts ==
    ASSUME NEW e \in Nat, NEW n \in Nat, NEW cells, Sound(cells, e, n), NEW prose, NEW x,
           x = [cells |-> cells, prose |-> prose]
    PROVE  Sound(Written(x).cells, e, n) /\ Alike(cells, Written(x).cells)
<1> DEFINE t == [i \in 1 .. Len(cells) |-> IF i = Len(cells) THEN cells[i].after ELSE <<>>]
<1>1. /\ DOMAIN cells = 1 .. Len(cells) /\ Len(cells) \in Nat
      /\ \A i \in 1 .. Len(cells) : cells[i] \in SyncCells(e, n)
  BY CellsFacts DEF Sound
<1>2. t \in [1 .. Len(cells) -> Seq(Lines)]
  <2>1. \A i \in 1 .. Len(cells) : cells[i].after \in Seq(Lines)
    BY <1>1 DEF SyncCells
  <2>2. QED
    BY <2>1, TextFacts
<1>3. \A i \in 1 .. Len(cells) :
          (IF i = Len(cells) THEN cells[i] ELSE [cells[i] EXCEPT !.after = <<>>])
              = [cells[i] EXCEPT !.after = t[i]]
  BY <1>1 DEF SyncCells
<1>4. Written(x).cells = [i \in 1 .. Len(cells) |-> [cells[i] EXCEPT !.after = t[i]]]
  BY <1>1, <1>3 DEF Written
<1> HIDE DEF t
<1>5. QED
  BY <1>2, <1>4, AlikeSound

---------------------------------------------------------------------------
(* What a user's edit does to the cells.                                   *)

LEMMA CellEdited ==
    ASSUME NEW e \in Nat, NEW n \in Nat, NEW cells, Sound(cells, e, n), NEW i \in DOMAIN cells,
           NEW b \in Nat \ {0}, NEW to, to = [cells EXCEPT ![i].body = b]
    PROVE  /\ Sound(to, e, n) /\ Ids(to) = Ids(cells) /\ b \in BodiesIn(to)
           /\ \A R : cells[i].body \in R => CellsHeld(cells, to, R)
<1>1. /\ cells \in Seq(SyncCells(e, n)) /\ DOMAIN cells = 1 .. Len(cells) /\ Len(cells) \in Nat
      /\ Distinct(IdsOf(cells)) /\ IsCells(SyncCells(e, n))
  BY CellsFacts DEF Sound, WellFormed
<1>2. [cells[i] EXCEPT !.body = b] \in SyncCells(e, n)
  <2>1. cells[i] \in SyncCells(e, n)
    BY <1>1
  <2>2. QED
    BY <2>1 DEF SyncCells
<1>3. to \in Seq(SyncCells(e, n)) /\ Len(to) = Len(cells) /\ DOMAIN to = 1 .. Len(cells)
  BY <1>1, <1>2
<1>4. \A j \in 1 .. Len(cells) : /\ to[j].id = cells[j].id
                                 /\ to[j].body = IF j = i THEN b ELSE cells[j].body
  BY <1>1 DEF SyncCells
<1>5. IdsOf(to) = IdsOf(cells) /\ Ids(to) = Ids(cells)
  BY <1>1, <1>3, <1>4 DEF IdsOf, Ids
<1>6. b \in BodiesIn(to)
  BY <1>1, <1>3, <1>4 DEF BodiesIn
<1>7. ASSUME NEW R, cells[i].body \in R PROVE CellsHeld(cells, to, R)
  BY <1>1, <1>3, <1>4, <1>7 DEF CellsHeld, Has
<1>8. QED
  BY <1>1, <1>3, <1>5, <1>6, <1>7 DEF Sound, WellFormed

Added(from, b, to) == to = Append(from, Cell(<<b>>, b))

LEMMA CellAdded ==
    ASSUME NEW e \in Nat, NEW n \in Nat, NEW cells, Sound(cells, e, n), NEW b, b = e + 2,
           NEW to, Added(cells, b, to)
    PROVE  /\ Sound(to, e + 1, n) /\ Ids(cells) \subseteq Ids(to) /\ b \in BodiesIn(to)
           /\ \A R : CellsHeld(cells, to, R)
<1> DEFINE new == Cell(<<b>>, b)
<1>1. /\ cells \in Seq(SyncCells(e, n)) /\ DOMAIN cells = 1 .. Len(cells) /\ Len(cells) \in Nat
      /\ \A j \in 1 .. Len(cells) : cells[j].id \in SyncIds(e, n)
      /\ \A j, k \in 1 .. Len(cells) : cells[j].id = cells[k].id => j = k
  BY CellsFacts, SyncCellsRight DEF Sound
<1>2. cells \in Seq(SyncCells(e + 1, n)) /\ IsCells(SyncCells(e + 1, n))
  <2>1. e + 1 \in Nat /\ e <= e + 1 /\ n <= n
    OBVIOUS
  <2>2. SyncCells(e, n) \subseteq SyncCells(e + 1, n)
    BY <2>1, SyncCellsGrow
  <2>3. cells \in Seq(SyncCells(e + 1, n))
    BY <1>1, <2>2
  <2>4. IsCells(SyncCells(e + 1, n))
    BY <2>1, SyncCellsRight
  <2>5. QED
    BY <2>3, <2>4
<1>3. new \in SyncCells(e + 1, n) /\ new.id = <<b>> /\ new.body = b
  <2>1. <<b>> \in SyncIds(e + 1, n)
    BY DEF SyncIds
  <2>2. <<>> \in Seq(Lines)
    OBVIOUS
  <2>3. QED
    BY <2>1, <2>2 DEF Cell, SyncCells
<1>4. \A id \in SyncIds(e, n) : id # <<b>>
  BY DEF SyncIds
<1> HIDE DEF new
<1>5. /\ to \in Seq(SyncCells(e + 1, n)) /\ Len(to) = Len(cells) + 1
      /\ DOMAIN to = 1 .. Len(cells) + 1
      /\ \A j \in 1 .. Len(cells) : to[j] = cells[j]
      /\ to[Len(cells) + 1] = new
  BY <1>1, <1>2, <1>3 DEF new, Added
<1>6. \A j, k \in 1 .. Len(to) : to[j].id = to[k].id => j = k
  <2>1. \A j \in 1 .. Len(to) : j \in 1 .. Len(cells) \/ j = Len(cells) + 1
    BY <1>1, <1>5
  <2>2. \A j \in 1 .. Len(cells) : to[j].id # to[Len(cells) + 1].id
    BY <1>1, <1>3, <1>4, <1>5
  <2>3. \A j, k \in 1 .. Len(cells) : to[j].id = to[k].id => j = k
    BY <1>1, <1>5
  <2>4. QED
    BY <2>1, <2>2, <2>3
<1>7. Distinct(IdsOf(to))
  <2>1. /\ Len(IdsOf(to)) = Len(to)
        /\ \A j \in 1 .. Len(to) : IdsOf(to)[j] = to[j].id
    BY <1>5, IdsOfFacts
  <2>2. QED
    BY <1>6, <2>1 DEF Distinct
<1>8. Ids(cells) \subseteq Ids(to)
  BY <1>1, <1>5 DEF Ids
<1>9. b \in BodiesIn(to)
  BY <1>1, <1>3, <1>5 DEF BodiesIn
<1>10. \A R : CellsHeld(cells, to, R)
  BY <1>1, <1>5 DEF CellsHeld, Has
<1>11. QED
  BY <1>2, <1>5, <1>7, <1>8, <1>9, <1>10 DEF Sound, WellFormed

LEMMA CellDeleted ==
    ASSUME NEW e \in Nat, NEW n \in Nat, NEW cells, Sound(cells, e, n), NEW i \in DOMAIN cells,
           NEW to, to = Select(cells, {c \in Range(cells) : c.id # cells[i].id}),
           NEW R, cells[i].body \in R, NEW X, cells[i].id \in X
    PROVE  Sound(to, e, n) /\ IdsHeld(cells, to, X) /\ CellsHeld(cells, to, R)
<1> DEFINE rest == {c \in Range(cells) : c.id # cells[i].id}
<1>1. /\ cells \in Seq(SyncCells(e, n)) /\ DOMAIN cells = 1 .. Len(cells) /\ Len(cells) \in Nat
      /\ \A j, k \in 1 .. Len(cells) : cells[j].id = cells[k].id => j = k
      /\ IsCells(SyncCells(e, n))
  BY CellsFacts DEF Sound, WellFormed
<1>2. Distinct(cells)
  BY <1>1 DEF Distinct
<1>3. \A c : c \in Elements(cells) \intersect rest
             <=> \E j \in 1 .. Len(cells) : c = cells[j] /\ j # i
  BY <1>1 DEF Range, Elements
<1>4. /\ to \in Seq(SyncCells(e, n)) /\ Elements(to) = Elements(cells) \intersect rest
      /\ Distinct(to)
  BY <1>1, <1>2, SelectElements
<1> HIDE DEF rest
<1>5. DOMAIN to = 1 .. Len(to) /\ \A j \in 1 .. Len(to) : to[j] \in Elements(to)
  <2>1. to \in Seq(SyncCells(e, n))
    BY <1>4
  <2>2. DOMAIN to = 1 .. Len(to)
    BY <2>1
  <2>3. \A s : \A j \in 1 .. Len(s) : s[j] \in Elements(s)
    BY DEF Elements
  <2>4. QED
    BY <2>2, <2>3
<1>6. \A j, k \in 1 .. Len(to) : to[j].id = to[k].id => j = k
  BY <1>1, <1>3, <1>4, <1>5 DEF Distinct
<1>7. Distinct(IdsOf(to))
  <2>1. /\ Len(IdsOf(to)) = Len(to)
        /\ \A j \in 1 .. Len(to) : IdsOf(to)[j] = to[j].id
    BY <1>4, IdsOfFacts
  <2>2. QED
    BY <1>6, <2>1 DEF Distinct
<1>8. \A j \in 1 .. Len(cells) : j = i \/ \E k \in 1 .. Len(to) : to[k] = cells[j]
  <2>1. \A j \in 1 .. Len(cells) : j = i \/ cells[j] \in Elements(to)
    BY <1>3, <1>4
  <2>2. \A c \in Elements(to) : \E k \in 1 .. Len(to) : to[k] = c
    BY DEF Elements
  <2>3. QED
    BY <2>1, <2>2
<1>9. IdsHeld(cells, to, X)
  <2>1. \A id \in Ids(cells) : \E j \in 1 .. Len(cells) : id = cells[j].id
    BY <1>1 DEF Ids
  <2>2. \A k \in 1 .. Len(to) : to[k].id \in Ids(to)
    BY <1>5 DEF Ids
  <2>3. ASSUME NEW id \in Ids(cells), id \notin X PROVE id \in Ids(to)
    <3>1. PICK j \in 1 .. Len(cells) : id = cells[j].id
      BY <2>1
    <3>2. j # i
      BY <2>3, <3>1
    <3>3. PICK k \in 1 .. Len(to) : to[k] = cells[j]
      BY <1>8, <3>2
    <3>4. QED
      BY <2>2, <3>1, <3>3
  <2>4. QED
    BY <2>3 DEF IdsHeld
<1>10. CellsHeld(cells, to, R)
  BY <1>1, <1>5, <1>8 DEF CellsHeld, Has
<1>11. QED
  BY <1>1, <1>4, <1>7, <1>9, <1>10 DEF Sound, WellFormed

---------------------------------------------------------------------------
(* What a merge keeps of its sides.                                        *)

\* A cell the peer left as base had it is kept as local has it.
LEMMA CellPeerUnchanged ==
    ASSUME NEW l, NEW p, NEW b, p = b, l # NoContent
    PROVE  l \in C!Kept(C!Decide(b, l, p), l, p)
<1> USE DEF C!Decide, C!DecideOne, C!SideState, C!ConflictOrKeep, C!EditMeetsDeletion,
            C!DeletionAlone
<1>1. CASE b = NoContent
  BY <1>1 DEF C!Kept
<1>2. CASE b # NoContent
  BY <1>2 DEF C!Kept
<1>3. QED
  BY <1>1, <1>2

LEMMA ContentFacts ==
    ASSUME NEW All, NEW cells, WellFormed(All, cells)
    PROVE  /\ \A id : /\ id \in Ids(cells) <=> ContentOf(cells, id) # NoContent
                      /\ id \in Ids(cells) => Has(cells, id, ContentOf(cells, id).body)
           /\ \A id, body : Has(cells, id, body) =>
                 id \in Ids(cells) /\ ContentOf(cells, id).body = body
           /\ \A body : body \in BodiesIn(cells) <=> \E id : Has(cells, id, body)
<1>1. /\ DOMAIN cells = 1 .. Len(cells)
      /\ \A i, j \in 1 .. Len(cells) : cells[i].id = cells[j].id => i = j
  BY CellsFacts
<1>2. ASSUME NEW i \in 1 .. Len(cells)
      PROVE  cells[i].id \in Ids(cells) /\ ContentOf(cells, cells[i].id).body = cells[i].body
  <2>1. cells[i].id \in Ids(cells)
    BY <1>1 DEF Ids
  <2>2. CellOf(cells, cells[i].id) = cells[i]
    BY <1>1 DEF CellOf
  <2>3. QED
    BY <2>1, <2>2, CellOfFacts
<1>3. \A id \in Ids(cells) : \E i \in 1 .. Len(cells) : cells[i].id = id
  BY <1>1 DEF Ids
<1>4. \A id, body : Has(cells, id, body) <=>
          \E i \in 1 .. Len(cells) : cells[i].id = id /\ cells[i].body = body
  BY <1>1 DEF Has
<1>5. \A id : /\ id \in Ids(cells) <=> ContentOf(cells, id) # NoContent
              /\ id \in Ids(cells) => Has(cells, id, ContentOf(cells, id).body)
  <2>1. \A id : id \in Ids(cells) <=> ContentOf(cells, id) # NoContent
    BY CellOfFacts
  <2>2. ASSUME NEW id \in Ids(cells) PROVE Has(cells, id, ContentOf(cells, id).body)
    <3>1. PICK i \in 1 .. Len(cells) : cells[i].id = id
      BY <1>3
    <3>2. ContentOf(cells, id).body = cells[i].body
      BY <1>2, <3>1
    <3>3. QED
      BY <1>4, <3>1, <3>2
  <2>3. QED
    BY <2>1, <2>2
<1>6. \A id, body : Has(cells, id, body) =>
          id \in Ids(cells) /\ ContentOf(cells, id).body = body
  BY <1>2, <1>4
<1>7. \A body : body \in BodiesIn(cells) <=> \E id : Has(cells, id, body)
  <2>1. \A body : body \in BodiesIn(cells) <=> \E i \in 1 .. Len(cells) : cells[i].body = body
    BY <1>1 DEF BodiesIn
  <2>2. \A i \in 1 .. Len(cells) : Has(cells, cells[i].id, cells[i].body)
    BY <1>4
  <2>3. \A id, body : Has(cells, id, body) => \E i \in 1 .. Len(cells) : cells[i].body = body
    BY <1>4
  <2>4. QED
    BY <2>1, <2>2, <2>3
<1>8. QED
  BY <1>5, <1>6, <1>7

LEMMA BodyKept ==
    ASSUME NEW All, NEW tag, NEW l, NEW p, NEW b, Sides(All, tag, l, p, b),
           NEW id \in Ids(l.cells) \union Ids(p.cells),
           NEW k \in C!Kept(Outcome(l, p, b, id), ContentOf(l.cells, id), ContentOf(p.cells, id))
    PROVE  k.body \in BodiesIn(Merge(l, p, b, tag).cells)
<1> DEFINE cells == Merge(l, p, b, tag).cells
<1>1. Outcome(l, p, b, id) # "Drop"
  BY DEF C!Kept
<1>2. id \in Left(l, p, b)
  BY <1>1 DEF Left
<1>3. PICK c \in Piece(tag, l, p, b, id) : c.body = k.body
  BY PieceHas
<1>4. c \in Pieces(tag, l, p, b, Left(l, p, b))
  BY <1>2 DEF Pieces
<1>5. /\ cells \in Seq(Pieces(tag, l, p, b, Left(l, p, b)))
      /\ Elements(cells) = Pieces(tag, l, p, b, Left(l, p, b))
  BY MergeRight
<1> HIDE DEF cells
<1>6. \E i \in 1 .. Len(cells) : cells[i] = c
  BY <1>4, <1>5 DEF Elements
<1>7. DOMAIN cells = 1 .. Len(cells)
  BY <1>5
<1>8. k.body \in BodiesIn(cells)
  BY <1>3, <1>6, <1>7 DEF BodiesIn
<1>9. QED
  BY <1>8 DEF cells

(* If local still has base's cells and peer base's bodies, both but for    *)
(* what users took away, then the merge has the bodies and the ids of each, *)
(* but for what users took away.                                           *)
LEMMA MergeHolds ==
    ASSUME NEW All, NEW tag, NEW l, NEW p, NEW b, Sides(All, tag, l, p, b), NEW R, NEW X,
           CellsHeld(b.cells, l.cells, R), BodiesHeld(b.cells, p.cells, R),
           IdsHeld(b.cells, l.cells, X), IdsHeld(b.cells, p.cells, X),
           NEW cells, cells = Merge(l, p, b, tag).cells
    PROVE  /\ BodiesHeld(l.cells, cells, R) /\ BodiesHeld(p.cells, cells, R)
           /\ IdsHeld(l.cells, cells, X) /\ IdsHeld(p.cells, cells, X)
<1> DEFINE CL(id) == ContentOf(l.cells, id)
           CP(id) == ContentOf(p.cells, id)
           CB(id) == ContentOf(b.cells, id)
<1>1. WellFormed(All, l.cells) /\ WellFormed(All, p.cells) /\ WellFormed(All, b.cells)
  BY DEF Sides
<1>2. \A id : CL(id) # CB(id) /\ CL(id) # NoContent => CL(id).body \in BodiesIn(cells)
  BY <1>1, ContentFacts, CellEditSurvives, BodyKept DEF Outcome
<1>3. \A id : CP(id) # CB(id) /\ CP(id) # NoContent => CP(id).body \in BodiesIn(cells)
  BY <1>1, ContentFacts, CellEditSurvives, BodyKept DEF Outcome
<1>4. ASSUME NEW id, CP(id) = CB(id), CL(id) # NoContent PROVE CL(id).body \in BodiesIn(cells)
  <2>1. id \in Ids(l.cells)
    BY <1>1, <1>4, ContentFacts
  <2>2. CL(id) \in C!Kept(C!Decide(CB(id), CL(id), CP(id)), CL(id), CP(id))
    BY <1>4, CellPeerUnchanged
  <2>3. QED
    BY <2>1, <2>2, BodyKept DEF Outcome
<1>5. ASSUME NEW id, CB(id) # NoContent, CB(id).body \notin R
      PROVE  CL(id) # NoContent /\ CL(id).body = CB(id).body
  <2>1. Has(b.cells, id, CB(id).body)
    BY <1>1, <1>5, ContentFacts
  <2>2. Has(l.cells, id, CB(id).body)
    BY <1>5, <2>1 DEF CellsHeld, Has
  <2>3. QED
    BY <1>1, <2>2, ContentFacts
<1>6. ASSUME NEW x \in BodiesIn(p.cells), x \notin R PROVE x \in BodiesIn(cells)
  <2>1. PICK id : CP(id) # NoContent /\ CP(id).body = x
    <3>1. PICK id : Has(p.cells, id, x)
      BY <1>1, ContentFacts
    <3>2. QED
      BY <1>1, <3>1, ContentFacts
  <2> HIDE DEF CL, CP, CB
  <2>2. CASE CP(id) # CB(id)
    BY <1>3, <2>1, <2>2
  <2>3. CASE CP(id) = CB(id)
    <3>1. CL(id) # NoContent /\ CL(id).body = x
      BY <1>5, <1>6, <2>1, <2>3
    <3>2. QED
      BY <1>4, <2>3, <3>1
  <2>4. QED
    BY <2>2, <2>3
<1>7. ASSUME NEW x \in BodiesIn(l.cells), x \notin R PROVE x \in BodiesIn(cells)
  <2>1. PICK id : CL(id) # NoContent /\ CL(id).body = x
    <3>1. PICK id : Has(l.cells, id, x)
      BY <1>1, ContentFacts
    <3>2. QED
      BY <1>1, <3>1, ContentFacts
  <2>2. CASE CL(id) # CB(id)
    BY <1>2, <2>1, <2>2
  <2>3. CASE CL(id) = CB(id)
    <3>1. x \in BodiesIn(b.cells)
      BY <1>1, <2>1, <2>3, ContentFacts
    <3>2. x \in BodiesIn(p.cells)
      BY <1>7, <3>1 DEF BodiesHeld
    <3>3. QED
      BY <1>6, <1>7, <3>2
  <2>4. QED
    BY <2>2, <2>3
<1>8. ASSUME NEW id \in Ids(l.cells) \union Ids(p.cells), id \notin X PROVE id \in Ids(cells)
  <2>1. Ids(cells) = Left(l, p, b) \union Copies(tag, l, p, b)
    BY MergeRight
  <2>2. CASE Outcome(l, p, b, id) # "Drop"
    BY <2>1, <2>2 DEF Left
  <2>3. CASE Outcome(l, p, b, id) = "Drop"
    <3>1. CB(id) # NoContent /\ (CL(id) = NoContent \/ CP(id) = NoContent)
      BY <1>1, <1>8, <2>3, ContentFacts, CellDroppedOnlyIfDeleted DEF Outcome
    <3>2. id \in Ids(b.cells) /\ (id \notin Ids(l.cells) \/ id \notin Ids(p.cells))
      BY <1>1, <3>1, ContentFacts
    <3>3. QED
      BY <1>8, <3>2 DEF IdsHeld
  <2>4. QED
    BY <2>2, <2>3
<1>9. QED
  BY <1>6, <1>7, <1>8 DEF BodiesHeld, IdsHeld

(* A merge of workbooks is a workbook whose conflict copies have its tag.  *)
LEMMA MergeSound ==
    ASSUME NEW e \in Nat, NEW n \in Nat, NEW l, NEW p, NEW b,
           Sound(l.cells, e, n), Sound(p.cells, e, n), Sound(b.cells, e, n),
           NEW cells, cells = Merge(l, p, b, n + 1).cells
    PROVE  Sides(SyncCells(e, n), n + 1, l, p, b) /\ Sound(cells, e, n + 1)
<1> DEFINE A == SyncCells(e, n)
           B == SyncCells(e, n + 1)
<1>1. Sides(A, n + 1, l, p, b)
  BY SyncCellsRight DEF Sides, Sound
<1>2. n + 1 \in Nat /\ n <= n + 1 /\ e <= e
  OBVIOUS
<1>3. A \subseteq B /\ SyncIds(e, n) \subseteq SyncIds(e, n + 1)
  BY <1>2, SyncCellsGrow
<1>4. ASSUME NEW c \in A, NEW marker \in Lines
      PROVE  c \in B /\ Marked(c, marker) \in B
  <2>1. /\ c \in [id : SyncIds(e, n + 1), body : Nat \ {0}, before : Seq(Lines), after : Seq(Lines)]
        /\ c \in B
    BY <1>3 DEF SyncCells
  <2>2. <<marker>> \o c.before \in Seq(Lines)
    <3>1. <<marker>> \in Seq(Lines) /\ c.before \in Seq(Lines)
      BY <2>1, TextFacts
    <3>2. QED
      BY <3>1
  <2>3. Marked(c, marker) \in B
    BY <2>1, <2>2 DEF Marked, SyncCells
  <2>4. QED
    BY <2>1, <2>3
<1>5. ASSUME NEW c \in A PROVE ConflictCopy(c, n + 1) \in B
  <2>1. Marked(c, "conflict") \in B /\ Marked(c, "conflict").id \in SyncIds(e, n)
    <3>1. Marked(c, "conflict").id = c.id /\ c.id \in SyncIds(e, n)
      BY DEF Marked, SyncCells
    <3>2. QED
      BY <1>4, <3>1 DEF Lines
  <2>2. ASSUME NEW id \in SyncIds(e, n) PROVE Append(id, n + 1) \in SyncIds(e, n + 1)
    <3>1. /\ id \in Seq(Nat) /\ Len(id) > 0 /\ Len(id) \in Nat /\ id[1] <= e + 1
          /\ \A i \in 2 .. Len(id) : id[i] <= n /\ id[i] \in Nat
      BY DEF SyncIds
    <3> DEFINE copy == Append(id, n + 1)
    <3>2. /\ copy \in Seq(Nat) /\ Len(copy) = Len(id) + 1 /\ copy[Len(id) + 1] = n + 1
          /\ \A i \in 1 .. Len(id) : copy[i] = id[i]
      BY <3>1
    <3> HIDE DEF copy
    <3>3. Len(copy) > 0 /\ copy[1] <= e + 1
      <4>1. 1 \in 1 .. Len(id)
        BY <3>1
      <4>2. copy[1] = id[1]
        BY <3>2, <4>1
      <4>3. QED
        BY <3>1, <3>2, <4>2
    <3>4. \A i \in 2 .. Len(copy) : copy[i] <= n + 1
      <4>1. TAKE i \in 2 .. Len(copy)
      <4>2. i = Len(id) + 1 \/ i \in 2 .. Len(id)
        BY <3>1, <3>2
      <4>3. CASE i \in 2 .. Len(id)
        <5>1. i \in 1 .. Len(id) /\ id[i] <= n /\ id[i] \in Nat
          BY <3>1, <4>3
        <5>2. copy[i] = id[i]
          BY <3>2, <5>1
        <5>3. QED
          BY <5>1, <5>2
      <4>4. QED
        BY <3>2, <4>2, <4>3
    <3>5. copy \in SyncIds(e, n + 1)
      BY <3>2, <3>3, <3>4 DEF SyncIds
    <3>6. QED
      BY <3>5 DEF copy
  <2>3. QED
    BY <2>1, <2>2 DEF ConflictCopy, SyncCells
<1>6. ASSUME NEW id, NEW c \in Piece(n + 1, l, p, b, id) PROVE c \in B
  <2> DEFINE o == Outcome(l, p, b, id)
             cl == CellOf(l.cells, id)
             cp == CellOf(p.cells, id)
             r == Rendered(l, p, b, n + 1, id)
  <2>1. /\ o \in {"KeepLocal", "TakePeer", "Conflict", "DeletedByPeer", "DeletedLocally", "Drop"}
        /\ o \in {"KeepLocal", "Conflict", "DeletedByPeer"} => cl \in A
        /\ o \in {"TakePeer", "Conflict", "DeletedLocally"} => cp \in A
    BY <1>1, DecidedSides, CellOfFacts DEF Outcome, Sides
  <2>2. \A x, y : Elements(<<x>>) = {x} /\ Elements(<<x, y>>) = {x, y} /\ Elements(<<>>) = {}
    BY DEF Elements
  <2>3. c \in Elements(r)
    BY DEF Piece
  <2>4. \/ o \in {"KeepLocal", "Conflict"} /\ c = cl
        \/ o = "TakePeer" /\ c = cp
        \/ o = "Conflict" /\ c = ConflictCopy(cp, n + 1)
        \/ o = "DeletedByPeer" /\ c = Marked(cl, "deleted upstream")
        \/ o = "DeletedLocally" /\ c = Marked(cp, "deleted locally")
    <3>1. /\ o = "KeepLocal" => r = <<cl>>
          /\ o = "TakePeer" => r = <<cp>>
          /\ o = "Conflict" => r = <<cl, ConflictCopy(cp, n + 1)>>
          /\ o = "DeletedByPeer" => r = <<Marked(cl, "deleted upstream")>>
          /\ o = "DeletedLocally" => r = <<Marked(cp, "deleted locally")>>
          /\ o = "Drop" => r = <<>>
      BY DEF Rendered
    <3> HIDE DEF o, cl, cp, r
    <3>2. o = "Conflict" => c \in {cl, ConflictCopy(cp, n + 1)}
      BY <2>2, <2>3, <3>1
    <3>3. /\ o = "KeepLocal" => c \in {cl}
          /\ o = "TakePeer" => c \in {cp}
          /\ o = "DeletedByPeer" => c \in {Marked(cl, "deleted upstream")}
          /\ o = "DeletedLocally" => c \in {Marked(cp, "deleted locally")}
          /\ o = "Drop" => c \in {}
      BY <2>2, <2>3, <3>1
    <3>4. QED
      BY <2>1, <3>2, <3>3
  <2> HIDE DEF o, cl, cp, r
  <2>5. QED
    BY <1>3, <1>4, <1>5, <2>1, <2>4 DEF Lines
<1>7. /\ cells \in Seq(Pieces(n + 1, l, p, b, Left(l, p, b)))
      /\ Elements(cells) = Pieces(n + 1, l, p, b, Left(l, p, b))
      /\ Distinct(IdsOf(cells))
  BY <1>1, MergeRight
<1>8. Elements(cells) \subseteq B
  BY <1>6, <1>7 DEF Pieces
<1>9. cells \in Seq(B)
  BY <1>7, <1>8, NarrowSeq
<1>10. IsCells(B)
  BY <1>2, SyncCellsRight
<1>11. QED
  BY <1>1, <1>7, <1>9, <1>10 DEF Sound, WellFormed

---------------------------------------------------------------------------
(* The devices.                                                            *)

\* There are no more than two.
Pair == \A d, e, f \in Devices : d # e /\ d # f => e = f

\* What the cells have of device d's merge base.
Held(d, cells) ==
    /\ BodiesHeld(syncBase[d].cells, cells, replaced)
    /\ IdsHeld(syncBase[d].cells, cells, deleted)

\* The copy on its way has what its sender and its receiver had in common with
\* the device that installed last.
PlanSound(q) ==
    q = NoPlan \/ \E s, t \in Devices :
        /\ s # t
        /\ \/ q = <<s, t>>
           \/ \E sent : /\ q = <<s, t, sent>>
                        /\ Sound(sent.cells, edits, installs)
                        /\ Held(s, sent.cells)
                        /\ t # installer => Held(t, sent.cells)

SyncShape ==
    /\ edits \in Nat /\ installs \in Nat /\ installer \in Devices
    /\ doc = [d \in Devices |-> doc[d]] /\ syncBase = [d \in Devices |-> syncBase[d]]
    /\ plan = [d \in Devices |-> plan[d]] /\ authored = [d \in Devices |-> authored[d]]
DocsSound ==
    \A d \in Devices : /\ Sound(doc[d].cells, edits, installs)
                       /\ Sound(syncBase[d].cells, edits, installs)
OwnBaseHeld ==
    \A d \in Devices : /\ CellsHeld(syncBase[d].cells, doc[d].cells, replaced)
                       /\ IdsHeld(syncBase[d].cells, doc[d].cells, deleted)
PeerBaseHeld == \A d \in Devices : d # installer => Held(d, doc[installer].cells)
PlansSound == \A d \in Devices : PlanSound(plan[d])
OnePlan == \A d, e \in Devices : plan[d] # NoPlan /\ plan[e] # NoPlan => d = e

\* NoEditLost does not hold by itself: it rests on what each merge base has in
\* common with the document it is the base of, and with what may be merged next.
SyncInvariant ==
    /\ SyncShape /\ DocsSound /\ OwnBaseHeld /\ PeerBaseHeld /\ PlansSound /\ OnePlan
    /\ NoEditLost

LEMMA InitSync == Init => SyncInvariant
<1> SUFFICES ASSUME Init PROVE SyncInvariant
  OBVIOUS
<1>1. Sound(<<>>, 0, 0)
  <2>1. IsCells(SyncCells(0, 0))
    BY SyncCellsRight
  <2>2. <<>> \in Seq(SyncCells(0, 0)) /\ Distinct(IdsOf(<<>>))
    BY DEF Distinct, IdsOf
  <2>3. QED
    BY <2>1, <2>2 DEF Sound, WellFormed
<1>2. Sound(<<Cell(<<1>>, 1)>>, 0, 0)
  <2>1. <<1>> \in SyncIds(0, 0)
    BY DEF SyncIds
  <2>2. Cell(<<1>>, 1) \in SyncCells(0, 0)
    BY <2>1, TextFacts DEF Cell, SyncCells
  <2>3. \A x : x \in SyncCells(0, 0) => <<x>> \in Seq(SyncCells(0, 0)) /\ Distinct(IdsOf(<<x>>))
    BY DEF Distinct, IdsOf
  <2>4. IsCells(SyncCells(0, 0))
    BY SyncCellsRight
  <2>5. QED
    BY <2>2, <2>3, <2>4 DEF Sound, WellFormed
<1>3. /\ Sound(File(<<Cell(<<1>>, 1)>>).cells, 0, 0)
      /\ BodiesIn(File(<<Cell(<<1>>, 1)>>).cells) = {1}
  <2>1. Alike(<<Cell(<<1>>, 1)>>, File(<<Cell(<<1>>, 1)>>).cells)
        /\ Sound(File(<<Cell(<<1>>, 1)>>).cells, 0, 0)
    BY <1>2, FileFacts
  <2>2. BodiesIn(<<Cell(<<1>>, 1)>>) = {1}
    BY DEF BodiesIn, Cell
  <2>3. QED
    BY <2>1, <2>2, AlikeFacts
<1>4. /\ Missing.cells = <<>> /\ EmptyDoc.cells = <<>>
      /\ edits = 0 /\ installs = 0 /\ installer = FirstOwner /\ FirstOwner \in Devices
  BY DevicesAssumption DEF Init, Missing, EmptyDoc
<1>5. \A x, R : BodiesHeld(<<>>, x, R) /\ CellsHeld(<<>>, x, R) /\ IdsHeld(<<>>, x, R)
  BY DEF BodiesHeld, CellsHeld, IdsHeld, BodiesIn, Ids
<1>6. \A d \in Devices : /\ doc[d] = IF d = FirstOwner THEN File(<<Cell(<<1>>, 1)>>) ELSE Missing
                         /\ syncBase[d] = EmptyDoc /\ plan[d] = NoPlan
                         /\ authored[d] = IF d = FirstOwner THEN {1} ELSE {}
  BY DEF Init
<1>7. SyncShape
  BY <1>4 DEF Init, SyncShape
<1>8. DocsSound
  BY <1>1, <1>3, <1>4, <1>6 DEF DocsSound
<1>9. OwnBaseHeld /\ PeerBaseHeld
  BY <1>4, <1>5, <1>6 DEF OwnBaseHeld, PeerBaseHeld, Held
<1>10. PlansSound /\ OnePlan
  BY <1>6 DEF PlansSound, PlanSound, OnePlan
<1>11. NoEditLost
  BY <1>3, <1>6 DEF NoEditLost, BodiesOn, BodiesIn
<1>12. QED
  BY <1>7, <1>8, <1>9, <1>10, <1>11 DEF SyncInvariant

\* What all the user's steps have in common.
UserWrote(d) ==
    /\ edits' = edits + 1 /\ UNCHANGED <<syncBase, plan, installer, installs>>
    /\ doc' = [doc EXCEPT ![d] = doc'[d]]
    /\ replaced \subseteq replaced' /\ deleted \subseteq deleted'
    /\ Sound(doc'[d].cells, edits + 1, installs)
    /\ CellsHeld(doc[d].cells, doc'[d].cells, replaced')
    /\ IdsHeld(doc[d].cells, doc'[d].cells, deleted')
    /\ \E new : /\ authored' = [authored EXCEPT ![d] = @ \union new]
                /\ new \subseteq BodiesIn(doc'[d].cells)

LEMMA UserSteps ==
    ASSUME SyncInvariant, NEW d \in Devices, EditCell(d) \/ AddCell(d) \/ DeleteCell(d)
    PROVE  UserWrote(d)
<1> DEFINE cells == doc[d].cells
<1>1. /\ edits \in Nat /\ installs \in Nat /\ doc = [x \in Devices |-> doc[x]]
      /\ authored = [x \in Devices |-> authored[x]] /\ Sound(cells, edits, installs)
  BY DEF SyncInvariant, SyncShape, DocsSound
<1> HIDE DEF cells
<1>2. edits + 1 \in Nat /\ edits + 2 \in Nat \ {0} /\ edits <= edits + 1 /\ installs <= installs
  BY <1>1
<1>3. SUFFICES ASSUME NEW to, NEW new, Write(d, to),
                      Sound(to, edits + 1, installs),
                      CellsHeld(cells, to, replaced'), IdsHeld(cells, to, deleted'),
                      replaced \subseteq replaced', deleted \subseteq deleted',
                      authored' = [authored EXCEPT ![d] = @ \union new],
                      new \subseteq BodiesIn(to)
               PROVE  UserWrote(d)
  <2>1. CASE EditCell(d)
    <3>1. PICK i \in DOMAIN cells :
              /\ Write(d, [cells EXCEPT ![i].body = edits + 2])
              /\ authored' = [authored EXCEPT ![d] = @ \union {edits + 2}]
              /\ replaced' = replaced \union {cells[i].body} /\ deleted' = deleted
      BY <2>1 DEF EditCell, NewBody, cells
    <3> DEFINE to == [cells EXCEPT ![i].body = edits + 2]
    <3>2. /\ Sound(to, edits, installs) /\ Ids(to) = Ids(cells) /\ edits + 2 \in BodiesIn(to)
          /\ CellsHeld(cells, to, replaced')
      <4>1. cells[i].body \in replaced'
        BY <3>1
      <4>2. /\ Sound(to, edits, installs) /\ Ids(to) = Ids(cells) /\ edits + 2 \in BodiesIn(to)
            /\ \A R : cells[i].body \in R => CellsHeld(cells, to, R)
        BY <1>1, <1>2, CellEdited
      <4>3. QED
        BY <4>1, <4>2
    <3> HIDE DEF to
    <3>3. Sound(to, edits + 1, installs) /\ IdsHeld(cells, to, deleted')
      BY <1>1, <1>2, <3>2, SyncCellsGrow DEF IdsHeld
    <3>4. Write(d, to)
      BY <3>1 DEF to
    <3>5. {edits + 2} \subseteq BodiesIn(to) /\ replaced \subseteq replaced' /\ deleted \subseteq deleted'
      BY <3>1, <3>2
    <3>6. QED
      BY <1>3, <3>1, <3>2, <3>3, <3>4, <3>5
  <2>2. CASE AddCell(d)
    <3> DEFINE to == Append(cells, Cell(<<edits + 2>>, edits + 2))
    <3>1. /\ Write(d, to) /\ replaced' = replaced /\ deleted' = deleted
          /\ authored' = [authored EXCEPT ![d] = @ \union {edits + 2}]
      BY <2>2 DEF AddCell, NewBody, cells
    <3>2. /\ Sound(to, edits + 1, installs) /\ Ids(cells) \subseteq Ids(to)
          /\ edits + 2 \in BodiesIn(to) /\ CellsHeld(cells, to, replaced')
      <4> DEFINE b == edits + 2
      <4>1. Added(cells, b, to) /\ b = edits + 2
        BY DEF Added
      <4> HIDE DEF to, b
      <4>2. /\ Sound(to, edits + 1, installs) /\ Ids(cells) \subseteq Ids(to)
            /\ b \in BodiesIn(to) /\ \A R : CellsHeld(cells, to, R)
        BY <1>1, <4>1, CellAdded
      <4>3. QED
        BY <4>1, <4>2
    <3> HIDE DEF to
    <3>3. IdsHeld(cells, to, deleted')
      BY <3>2 DEF IdsHeld
    <3>4. {edits + 2} \subseteq BodiesIn(to) /\ replaced \subseteq replaced' /\ deleted \subseteq deleted'
      BY <3>1, <3>2
    <3>5. QED
      BY <1>3, <3>1, <3>2, <3>3, <3>4
  <2>3. CASE DeleteCell(d)
    <3>1. PICK i \in DOMAIN cells :
              /\ Write(d, Select(cells, {c \in Range(cells) : c.id # cells[i].id}))
              /\ replaced' = replaced \union {cells[i].body}
              /\ deleted' = deleted \union {cells[i].id} /\ authored' = authored
      BY <2>3 DEF DeleteCell, cells
    <3> DEFINE to == Select(cells, {c \in Range(cells) : c.id # cells[i].id})
    <3>2. cells[i].body \in replaced' /\ cells[i].id \in deleted'
      BY <3>1
    <3>3. /\ Sound(to, edits, installs)
          /\ IdsHeld(cells, to, deleted') /\ CellsHeld(cells, to, replaced')
      BY <1>1, <3>2, CellDeleted
    <3>4. Write(d, to)
      BY <3>1
    <3> HIDE DEF to
    <3>5. Sound(to, edits + 1, installs)
      BY <1>1, <1>2, <3>3, SyncCellsGrow
    <3> DEFINE none == {}
    <3>6. /\ authored' = [authored EXCEPT ![d] = @ \union none] /\ none \subseteq BodiesIn(to)
          /\ replaced \subseteq replaced' /\ deleted \subseteq deleted'
      <4>1. authored = [authored EXCEPT ![d] = authored[d]]
        BY <1>1
      <4>2. authored[d] \union {} = authored[d]
        OBVIOUS
      <4>3. authored' = [authored EXCEPT ![d] = @ \union {}]
        BY <3>1, <4>1, <4>2
      <4>4. QED
        BY <3>1, <4>3
    <3> HIDE DEF none
    <3>7. QED
      BY <1>3, <3>3, <3>4, <3>5, <3>6
  <2>4. QED
    BY <2>1, <2>2, <2>3
<1>4. doc' = [doc EXCEPT ![d] = File(to)] /\ doc'[d] = File(to) /\ edits' = edits + 1
      /\ UNCHANGED <<syncBase, plan, installer, installs>>
  BY <1>1, <1>3 DEF Write
<1>5. Sound(doc'[d].cells, edits + 1, installs) /\ Alike(to, doc'[d].cells)
  BY <1>1, <1>2, <1>3, <1>4, FileFacts
<1>6. /\ Ids(doc'[d].cells) = Ids(to) /\ BodiesIn(doc'[d].cells) = BodiesIn(to)
      /\ \A id, body : Has(doc'[d].cells, id, body) <=> Has(to, id, body)
  BY <1>5, AlikeFacts
<1>7. CellsHeld(cells, doc'[d].cells, replaced')
  BY <1>3, <1>6 DEF CellsHeld
<1>8. IdsHeld(cells, doc'[d].cells, deleted')
  BY <1>3, <1>6 DEF IdsHeld
<1>9. doc' = [doc EXCEPT ![d] = doc'[d]]
  BY <1>4
<1>10. QED
  BY <1>3, <1>4, <1>5, <1>6, <1>7, <1>8, <1>9 DEF UserWrote, cells

LEMMA UserKeeps ==
    ASSUME SyncInvariant, NEW d \in Devices, UserWrote(d)
    PROVE  SyncInvariant'
<1> DEFINE R == replaced'
           X == deleted'
<1>1. /\ SyncShape /\ DocsSound /\ OwnBaseHeld /\ PeerBaseHeld /\ PlansSound /\ OnePlan
      /\ NoEditLost
  BY DEF SyncInvariant
<1>2. /\ edits' = edits + 1 /\ installs' = installs /\ installer' = installer
      /\ syncBase' = syncBase /\ plan' = plan
      /\ replaced \subseteq R /\ deleted \subseteq X
      /\ edits \in Nat /\ installs \in Nat
  BY <1>1 DEF UserWrote, SyncShape
<1>3. /\ \A x \in Devices : x # d => doc'[x] = doc[x] /\ authored'[x] = authored[x]
      /\ authored'[d] \ authored[d] \subseteq BodiesIn(doc'[d].cells)
      /\ doc' = [x \in Devices |-> doc'[x]] /\ authored' = [x \in Devices |-> authored'[x]]
  <2>1. doc = [x \in Devices |-> doc[x]] /\ authored = [x \in Devices |-> authored[x]]
    BY <1>1 DEF SyncShape
  <2>2. /\ \A x \in Devices : x # d => doc'[x] = doc[x]
        /\ doc' = [x \in Devices |-> doc'[x]]
    BY <2>1 DEF UserWrote
  <2>3. PICK new : /\ authored' = [authored EXCEPT ![d] = @ \union new]
                   /\ new \subseteq BodiesIn(doc'[d].cells)
    BY DEF UserWrote
  <2>4. /\ \A x \in Devices : x # d => authored'[x] = authored[x]
        /\ authored'[d] = authored[d] \union new
        /\ authored' = [x \in Devices |-> authored'[x]]
    BY <2>1, <2>3
  <2>5. QED
    BY <2>2, <2>3, <2>4
<1>4. /\ Sound(doc'[d].cells, edits + 1, installs)
      /\ CellsHeld(doc[d].cells, doc'[d].cells, R)
      /\ IdsHeld(doc[d].cells, doc'[d].cells, X)
  BY DEF UserWrote
<1>5. \A x : Sound(x, edits, installs) => Sound(x, edits', installs')
  <2>1. edits + 1 \in Nat /\ edits <= edits + 1 /\ installs <= installs
    BY <1>2
  <2>2. QED
    BY <1>2, <2>1, SyncCellsGrow
<1> HIDE DEF R, X
\* What was held of a document, or a copy, still is.
<1>6. ASSUME NEW x \in Devices, NEW from
      PROVE  /\ CellsHeld(from, doc[x].cells, replaced) => CellsHeld(from, doc'[x].cells, R)
             /\ BodiesHeld(from, doc[x].cells, replaced) => BodiesHeld(from, doc'[x].cells, R)
             /\ IdsHeld(from, doc[x].cells, deleted) => IdsHeld(from, doc'[x].cells, X)
  <2>1. /\ CellsHeld(doc[x].cells, doc'[x].cells, R) /\ BodiesHeld(doc[x].cells, doc'[x].cells, R)
        /\ IdsHeld(doc[x].cells, doc'[x].cells, X)
    BY <1>3, <1>4, HeldThrough
  <2>2. QED
    BY <1>2, <2>1, HeldThrough
<1>7. \A from, to : /\ BodiesHeld(from, to, replaced) => BodiesHeld(from, to, R)
                    /\ IdsHeld(from, to, deleted) => IdsHeld(from, to, X)
  BY <1>2 DEF BodiesHeld, IdsHeld
<1>8. SyncShape'
  BY <1>1, <1>2, <1>3 DEF SyncShape
<1>9. DocsSound'
  BY <1>1, <1>2, <1>3, <1>4, <1>5 DEF DocsSound
<1>10. OwnBaseHeld'
  BY <1>1, <1>2, <1>6 DEF OwnBaseHeld, R, X
<1>11. PeerBaseHeld'
  <2>1. installer \in Devices
    BY <1>1 DEF SyncShape
  <2>2. QED
    BY <1>1, <1>2, <1>6, <2>1 DEF PeerBaseHeld, Held, R, X
<1>12. PlansSound'
  <2>1. SUFFICES ASSUME NEW c \in Devices PROVE PlanSound(plan[c])'
    BY DEF PlansSound
  <2>2. PlanSound(plan[c])
    BY <1>1 DEF PlansSound
  <2>3. plan'[c] = plan[c]
    BY <1>2
  <2>4. CASE plan[c] = NoPlan
    BY <2>3, <2>4 DEF PlanSound
  <2>5. CASE \E s, t \in Devices : s # t /\ plan[c] = <<s, t>>
    BY <2>3, <2>5 DEF PlanSound
  <2>6. ASSUME NEW s \in Devices, NEW t \in Devices, NEW sent, s # t, plan[c] = <<s, t, sent>>,
               Sound(sent.cells, edits, installs), Held(s, sent.cells),
               t # installer => Held(t, sent.cells)
        PROVE  PlanSound(plan[c])'
    <3>1. \A x : Held(x, sent.cells) => Held(x, sent.cells)'
      BY <1>2, <1>7 DEF Held, R, X
    <3>2. Sound(sent.cells, edits, installs)'
      BY <1>5, <2>6
    <3>3. Held(s, sent.cells)' /\ (t # installer => Held(t, sent.cells))'
      BY <1>2, <2>6, <3>1
    <3>4. QED
      BY <2>3, <2>6, <3>2, <3>3 DEF PlanSound
  <2>7. QED
    BY <2>2, <2>4, <2>5, <2>6 DEF PlanSound
<1>13. OnePlan'
  BY <1>1, <1>2 DEF OnePlan
<1>14. NoEditLost'
  <2>1. ASSUME NEW x \in Devices, NEW body \in authored'[x], body \notin R
        PROVE  body \in BodiesIn(doc'[x].cells)
    <3>1. CASE body \in authored[x]
      <4>1. body \in BodiesIn(doc[x].cells)
        BY <1>1, <1>2, <2>1, <3>1 DEF NoEditLost, BodiesOn, BodiesIn
      <4>2. BodiesHeld(doc[x].cells, doc'[x].cells, R)
        BY <1>3, <1>4, HeldThrough
      <4>3. QED
        BY <2>1, <4>1, <4>2 DEF BodiesHeld
    <3>2. CASE body \notin authored[x]
      BY <1>3, <2>1, <3>2
    <3>3. QED
      BY <3>1, <3>2
  <2>2. \A x : BodiesOn(x)' = BodiesIn(doc'[x].cells)
    BY DEF BodiesOn, BodiesIn
  <2>3. QED
    BY <2>1, <2>2 DEF NoEditLost, R
<1>15. QED
  BY <1>8, <1>9, <1>10, <1>11, <1>12, <1>13, <1>14 DEF SyncInvariant

LEMMA PairAppended == ASSUME NEW s, NEW t, NEW x PROVE Append(<<s, t>>, x) = <<s, t, x>>
<1> DEFINE p == <<s, t>>
           q == <<s, t, x>>
           a == Append(p, x)
           A == {s, t, x}
<1>1. p \in Seq(A) /\ x \in A /\ Len(p) = 2 /\ p[1] = s /\ p[2] = t
  OBVIOUS
<1>2. q \in Seq(A) /\ Len(q) = 3 /\ q[1] = s /\ q[2] = t /\ q[3] = x
  OBVIOUS
<1> HIDE DEF p, q, A
<1>3. ASSUME NEW u \in Seq(A), NEW v \in A
      PROVE  /\ Append(u, v) \in Seq(A) /\ Len(Append(u, v)) = Len(u) + 1
             /\ \A i \in 1 .. Len(u) : Append(u, v)[i] = u[i]
             /\ Append(u, v)[Len(u) + 1] = v
  OBVIOUS
<1>4. a \in Seq(A) /\ Len(a) = 3 /\ a[1] = p[1] /\ a[2] = p[2] /\ a[3] = x
  <2>1. /\ a \in Seq(A) /\ Len(a) = Len(p) + 1
        /\ \A i \in 1 .. Len(p) : a[i] = p[i]
        /\ a[Len(p) + 1] = x
    BY <1>1, <1>3
  <2>2. 1 \in 1 .. Len(p) /\ 2 \in 1 .. Len(p) /\ Len(p) + 1 = 3
    BY <1>1
  <2> HIDE DEF a
  <2>3. QED
    BY <2>1, <2>2
<1> HIDE DEF a
<1>5. a = q
  <2>1. \A i \in 1 .. 3 : i = 1 \/ i = 2 \/ i = 3
    OBVIOUS
  <2>2. \A i \in 1 .. 3 : a[i] = q[i]
    BY <1>1, <1>2, <1>4, <2>1
  <2>3. QED
    BY <1>2, <1>4, <2>2
<1>6. QED
  BY <1>5 DEF a, p, q

\* The steps of a sync that touch no document.
LEMMA PlanningKeeps ==
    ASSUME TakingTurns, Pair, SyncInvariant, NEW c \in Devices,
           (\E s \in Devices : Plan(c, s)) \/ Fetch(c) \/ SyncFails(c)
    PROVE  SyncInvariant' /\ doc' = doc
<1>1. /\ SyncShape /\ DocsSound /\ OwnBaseHeld /\ PeerBaseHeld /\ PlansSound /\ OnePlan
      /\ NoEditLost
  BY DEF SyncInvariant
<1>2. UNCHANGED <<doc, syncBase, installer, installs, edits, authored, replaced, deleted>>
  BY DEF Plan, Fetch, SyncFails, historyVars
<1>3. plan = [d \in Devices |-> plan[d]]
  BY <1>1 DEF SyncShape
<1>4. SUFFICES ASSUME NEW q, plan' = [plan EXCEPT ![c] = q],
                      PlanSound(q), q = NoPlan \/ \A d \in Devices : d # c => plan[d] = NoPlan
               PROVE  SyncInvariant'
  <2>1. CASE \E s \in Devices : Plan(c, s)
    <3>1. PICK s \in Devices : Plan(c, s)
      BY <2>1
    <3>2. PICK q : plan' = [plan EXCEPT ![c] = q] /\ q \in {<<s, c>>, <<c, s>>}
      BY <3>1 DEF Plan
    <3>3. c # s /\ \A d \in Devices : plan[d] = NoPlan
      BY <3>1 DEF Plan
    <3>4. PlanSound(q)
      BY <3>2, <3>3 DEF PlanSound
    <3>5. QED
      BY <1>2, <1>4, <3>2, <3>3, <3>4
  <2>2. CASE Fetch(c)
    <3>1. /\ Len(plan[c]) = 2
          /\ plan' = [plan EXCEPT ![c] = Append(plan[c], doc[plan[c][1]])]
      BY <1>3, <2>2 DEF Fetch
    <3>2. PlanSound(plan[c])
      BY <1>1 DEF PlansSound
    <3>3. /\ Len(NoPlan) = 0
          /\ \A s, t, sent : Len(<<s, t, sent>>) = 3
      BY DEF NoPlan
    <3>4. PICK s \in Devices, t \in Devices : s # t /\ plan[c] = <<s, t>>
      BY <3>1, <3>2, <3>3 DEF PlanSound
    <3> DEFINE q == <<s, t, doc[s]>>
    <3>5. plan' = [plan EXCEPT ![c] = q]
      <4>1. plan[c][1] = s
        BY <3>4
      <4>2. Append(plan[c], doc[plan[c][1]]) = q
        BY <3>4, <4>1, PairAppended
      <4> HIDE DEF q
      <4>3. QED
        BY <3>1, <4>2
    <3>6. Sound(doc[s].cells, edits, installs)
      BY <1>1 DEF DocsSound
    <3>7. Held(s, doc[s].cells)
      <4>1. /\ CellsHeld(syncBase[s].cells, doc[s].cells, replaced)
            /\ IdsHeld(syncBase[s].cells, doc[s].cells, deleted)
        BY <1>1 DEF OwnBaseHeld
      <4>2. QED
        BY <4>1, HeldThrough DEF Held
    <3>8. ASSUME t # installer PROVE Held(t, doc[s].cells)
      <4>1. installer \in Devices
        BY <1>1 DEF SyncShape
      <4>2. installer = s
        BY <3>4, <3>8, <4>1 DEF Pair
      <4>3. QED
        BY <1>1, <3>8, <4>2 DEF PeerBaseHeld
    <3>9. PlanSound(q)
      BY <3>4, <3>6, <3>7, <3>8 DEF PlanSound
    <3>10. plan[c] # NoPlan
      BY <3>1, <3>3
    <3>11. \A d \in Devices : d # c => plan[d] = NoPlan
      BY <1>1, <3>10 DEF OnePlan
    <3> HIDE DEF q
    <3>12. QED
      BY <1>2, <1>4, <3>5, <3>9, <3>11
  <2>3. CASE SyncFails(c)
    BY <1>2, <1>4, <2>3 DEF SyncFails, PlanSound
  <2>4. QED
    BY <2>1, <2>2, <2>3
<1>5. /\ plan'[c] = q /\ plan' = [d \in Devices |-> plan'[d]]
      /\ \A d \in Devices : d # c => plan'[d] = plan[d]
  BY <1>3, <1>4
<1>6. \A r : PlanSound(r) => PlanSound(r)'
  BY <1>2 DEF PlanSound, Held
<1>7. PlansSound'
  <2>1. \A d \in Devices : PlanSound(plan'[d])
    BY <1>1, <1>4, <1>5 DEF PlansSound
  <2>2. \A d : PlanSound(plan'[d]) => PlanSound(plan[d])'
    BY <1>2 DEF PlanSound, Held
  <2>3. QED
    BY <2>1, <2>2 DEF PlansSound
<1>8. OnePlan'
  BY <1>1, <1>4, <1>5 DEF OnePlan
<1>9. SyncShape' /\ DocsSound' /\ OwnBaseHeld' /\ PeerBaseHeld' /\ NoEditLost'
  <2>1. SyncShape'
    BY <1>1, <1>2, <1>5 DEF SyncShape
  <2>2. DocsSound' /\ OwnBaseHeld'
    BY <1>1, <1>2 DEF DocsSound, OwnBaseHeld
  <2>3. PeerBaseHeld'
    BY <1>1, <1>2 DEF PeerBaseHeld, Held
  <2>4. NoEditLost'
    BY <1>1, <1>2 DEF NoEditLost, BodiesOn
  <2>5. QED
    BY <2>1, <2>2, <2>3, <2>4
<1>10. QED
  BY <1>7, <1>8, <1>9 DEF SyncInvariant

LEMMA InstallKeeps ==
    ASSUME TakingTurns, Pair, SyncInvariant, NEW c \in Devices, CarryOut(c)
    PROVE  /\ SyncInvariant'
           /\ \A d \in Devices : IdsHeld(doc[d].cells, doc'[d].cells, deleted')
<1>1. /\ SyncShape /\ DocsSound /\ OwnBaseHeld /\ PeerBaseHeld /\ PlansSound /\ OnePlan
      /\ NoEditLost
  BY DEF SyncInvariant
<1>2. /\ edits' = edits /\ authored' = authored /\ replaced' = replaced /\ deleted' = deleted
      /\ Len(plan[c]) = 3 /\ plan' = [plan EXCEPT ![c] = NoPlan]
      /\ Install(plan[c][2], plan[c][3])
  BY DEF CarryOut, historyVars
<1>0. PICK s \in Devices, t \in Devices : \E copy :
          /\ s # t /\ plan[c] = <<s, t, copy>> /\ Sound(copy.cells, edits, installs)
          /\ Held(s, copy.cells) /\ (t # installer => Held(t, copy.cells))
  <2>1. PlanSound(plan[c])
    BY <1>1 DEF PlansSound
  <2>2. Len(NoPlan) = 0 /\ \A x, y : Len(<<x, y>>) = 2
    BY DEF NoPlan
  <2>3. QED
    BY <1>2, <2>1, <2>2 DEF PlanSound
<1>3. PICK sent :
          /\ s # t /\ plan[c] = <<s, t, sent>> /\ Sound(sent.cells, edits, installs)
          /\ Held(s, sent.cells) /\ (t # installer => Held(t, sent.cells))
  BY <1>0
<1> DEFINE merge == Merge(doc[t], sent, syncBase[t], installs + 1)
           result == IF doc[t] = Missing THEN sent ELSE Written(merge)
<1>4. /\ installer # t /\ installer' = t /\ installs' = installs + 1
      /\ doc' = [doc EXCEPT ![t] = result] /\ syncBase' = [syncBase EXCEPT ![t] = result]
  <2>1. plan[c][2] = t /\ plan[c][3] = sent
    BY <1>3
  <2>2. Install(t, sent)
    BY <1>2, <2>1
  <2>3. QED
    BY <2>2 DEF Install
<1>5. /\ edits \in Nat /\ installs \in Nat /\ installs + 1 \in Nat /\ installer \in Devices
      /\ edits <= edits /\ installs <= installs + 1
      /\ doc = [d \in Devices |-> doc[d]] /\ syncBase = [d \in Devices |-> syncBase[d]]
      /\ plan = [d \in Devices |-> plan[d]]
  BY <1>1 DEF SyncShape
<1>6. \A x : Sound(x, edits, installs) => Sound(x, edits, installs + 1)
  BY <1>5, SyncCellsGrow
<1>7. /\ Sound(doc[t].cells, edits, installs) /\ Sound(syncBase[t].cells, edits, installs)
      /\ CellsHeld(syncBase[t].cells, doc[t].cells, replaced)
      /\ IdsHeld(syncBase[t].cells, doc[t].cells, deleted)
      /\ Held(t, sent.cells)
  BY <1>1, <1>3, <1>4 DEF DocsSound, OwnBaseHeld
\* What is installed has the bodies and ids of both sides.
<1>8. /\ Sound(result.cells, edits, installs + 1)
      /\ BodiesHeld(doc[t].cells, result.cells, replaced)
      /\ BodiesHeld(sent.cells, result.cells, replaced)
      /\ IdsHeld(doc[t].cells, result.cells, deleted)
      /\ IdsHeld(sent.cells, result.cells, deleted)
  <2>1. CASE doc[t] = Missing
    <3>1. result = sent
      BY <2>1
    <3>2. doc[t].cells = <<>>
      BY <2>1 DEF Missing
    <3>3. \A x, R : BodiesHeld(<<>>, x, R) /\ IdsHeld(<<>>, x, R)
      BY DEF BodiesHeld, IdsHeld, BodiesIn, Ids
    <3>4. BodiesHeld(sent.cells, sent.cells, replaced) /\ IdsHeld(sent.cells, sent.cells, deleted)
      BY DEF BodiesHeld, IdsHeld
    <3> HIDE DEF result
    <3>5. QED
      BY <1>3, <1>6, <3>1, <3>2, <3>3, <3>4
  <2>2. CASE doc[t] # Missing
    <3> DEFINE cells == merge.cells
    <3>1. Sides(SyncCells(edits, installs), installs + 1, doc[t], sent, syncBase[t])
          /\ Sound(cells, edits, installs + 1)
      BY <1>3, <1>5, <1>7, MergeSound
    <3>2. /\ BodiesHeld(doc[t].cells, cells, replaced) /\ BodiesHeld(sent.cells, cells, replaced)
          /\ IdsHeld(doc[t].cells, cells, deleted) /\ IdsHeld(sent.cells, cells, deleted)
      BY <1>7, <3>1, MergeHolds DEF Held
    <3>3. merge = [cells |-> merge.cells, prose |-> merge.prose]
      BY DEF Merge
    <3> HIDE DEF merge
    <3>4. Sound(Written(merge).cells, edits, installs + 1) /\ Alike(cells, Written(merge).cells)
      BY <1>5, <3>1, <3>3, WrittenFacts
    <3>5. /\ Ids(Written(merge).cells) = Ids(cells)
          /\ BodiesIn(Written(merge).cells) = BodiesIn(cells)
      BY <3>4, AlikeFacts
    <3>6. QED
      BY <2>2, <3>2, <3>4, <3>5 DEF BodiesHeld, IdsHeld
  <2>3. QED
    BY <2>1, <2>2
<1> HIDE DEF merge, result
<1>9. /\ doc'[t] = result /\ syncBase'[t] = result
      /\ \A d \in Devices : d # t => doc'[d] = doc[d] /\ syncBase'[d] = syncBase[d]
      /\ doc' = [d \in Devices |-> doc'[d]] /\ syncBase' = [d \in Devices |-> syncBase'[d]]
  BY <1>4, <1>5
<1>10. /\ \A d \in Devices : plan'[d] = NoPlan
       /\ plan' = [d \in Devices |-> plan'[d]]
  <2>1. plan[c] # NoPlan
    BY <1>2 DEF NoPlan
  <2>2. \A d \in Devices : d # c => plan[d] = NoPlan
    BY <1>1, <2>1 DEF OnePlan
  <2>3. QED
    BY <1>2, <1>5, <2>2
<1>11. SyncShape'
  BY <1>1, <1>2, <1>4, <1>5, <1>9, <1>10 DEF SyncShape
<1>12. DocsSound'
  BY <1>1, <1>2, <1>4, <1>6, <1>8, <1>9 DEF DocsSound
<1>13. OwnBaseHeld'
  <2>1. ASSUME NEW d \in Devices
        PROVE  /\ CellsHeld(syncBase'[d].cells, doc'[d].cells, replaced)
               /\ IdsHeld(syncBase'[d].cells, doc'[d].cells, deleted)
    <3>1. CASE d = t
      <4>1. CellsHeld(result.cells, result.cells, replaced) /\ IdsHeld(result.cells, result.cells, deleted)
        BY DEF CellsHeld, Has, IdsHeld
      <4>2. QED
        BY <1>9, <3>1, <4>1
    <3>2. CASE d # t
      BY <1>1, <1>9, <3>2 DEF OwnBaseHeld
    <3>3. QED
      BY <3>1, <3>2
  <2>2. QED
    BY <1>2, <2>1 DEF OwnBaseHeld
<1>14. PeerBaseHeld'
  <2>1. SUFFICES ASSUME NEW d \in Devices, d # t
                 PROVE  /\ BodiesHeld(syncBase[d].cells, result.cells, replaced)
                        /\ IdsHeld(syncBase[d].cells, result.cells, deleted)
    BY <1>2, <1>4, <1>9 DEF PeerBaseHeld, Held
  <2>2. d = s
    BY <1>3, <2>1 DEF Pair
  <2>3. /\ BodiesHeld(syncBase[d].cells, sent.cells, replaced)
        /\ IdsHeld(syncBase[d].cells, sent.cells, deleted)
    BY <1>3, <2>2 DEF Held
  <2>4. QED
    BY <1>8, <2>3 DEF BodiesHeld, IdsHeld
<1>15. PlansSound' /\ OnePlan'
  BY <1>10 DEF PlansSound, PlanSound, OnePlan
<1>16. NoEditLost'
  <2>1. ASSUME NEW d \in Devices PROVE authored[d] \ replaced \subseteq BodiesIn(doc'[d].cells)
    <3>1. authored[d] \ replaced \subseteq BodiesIn(doc[d].cells)
      BY <1>1 DEF NoEditLost, BodiesOn, BodiesIn
    <3>2. CASE d = t
      BY <1>8, <1>9, <3>1, <3>2 DEF BodiesHeld
    <3>3. CASE d # t
      BY <1>9, <3>1, <3>3
    <3>4. QED
      BY <3>2, <3>3
  <2>2. \A d : BodiesOn(d)' = BodiesIn(doc'[d].cells)
    BY DEF BodiesOn, BodiesIn
  <2>3. QED
    BY <1>2, <2>1, <2>2 DEF NoEditLost
<1>17. ASSUME NEW d \in Devices PROVE IdsHeld(doc[d].cells, doc'[d].cells, deleted')
  <2>1. CASE d = t
    BY <1>2, <1>8, <1>9, <2>1
  <2>2. CASE d # t
    BY <1>9, <2>2 DEF IdsHeld
  <2>3. QED
    BY <2>1, <2>2
<1>18. QED
  BY <1>11, <1>12, <1>13, <1>14, <1>15, <1>16, <1>17 DEF SyncInvariant

LEMMA NextSync ==
    ASSUME TakingTurns, Pair, SyncInvariant, [Next]_vars
    PROVE  /\ SyncInvariant'
           /\ UNCHANGED vars \/ \A d \in Devices : IdsHeld(doc[d].cells, doc'[d].cells, deleted')
<1>1. CASE UNCHANGED vars
  <2>1. UNCHANGED <<doc, syncBase, plan, installer, installs, edits, authored, replaced, deleted>>
    BY <1>1 DEF vars, historyVars
  <2>2. SyncShape' /\ DocsSound' /\ OwnBaseHeld' /\ OnePlan'
    BY <2>1 DEF SyncInvariant, SyncShape, DocsSound, OwnBaseHeld, OnePlan
  <2>3. PeerBaseHeld' /\ PlansSound' /\ NoEditLost'
    BY <2>1 DEF SyncInvariant, PeerBaseHeld, PlansSound, PlanSound, Held, NoEditLost, BodiesOn
  <2>4. QED
    BY <1>1, <2>2, <2>3 DEF SyncInvariant
<1>2. ASSUME NEW d \in Devices, EditCell(d) \/ AddCell(d) \/ DeleteCell(d)
      PROVE  SyncInvariant' /\ \A x \in Devices : IdsHeld(doc[x].cells, doc'[x].cells, deleted')
  <2>1. UserWrote(d)
    BY <1>2, UserSteps
  <2>2. SyncInvariant'
    BY <2>1, UserKeeps
  <2>3. ASSUME NEW x \in Devices PROVE IdsHeld(doc[x].cells, doc'[x].cells, deleted')
    <3>1. CASE x = d
      BY <2>1, <3>1 DEF UserWrote
    <3>2. CASE x # d
      <4>1. doc = [y \in Devices |-> doc[y]]
        BY DEF SyncInvariant, SyncShape
      <4>2. doc'[x] = doc[x]
        BY <2>1, <3>2, <4>1 DEF UserWrote
      <4>3. QED
        BY <4>2 DEF IdsHeld
    <3>3. QED
      BY <3>1, <3>2
  <2>4. QED
    BY <2>2, <2>3
<1>3. ASSUME NEW c \in Devices, (\E s \in Devices : Plan(c, s)) \/ Fetch(c) \/ SyncFails(c)
      PROVE  SyncInvariant' /\ \A x \in Devices : IdsHeld(doc[x].cells, doc'[x].cells, deleted')
  BY <1>3, PlanningKeeps DEF IdsHeld
<1>4. ASSUME NEW c \in Devices, CarryOut(c)
      PROVE  SyncInvariant' /\ \A x \in Devices : IdsHeld(doc[x].cells, doc'[x].cells, deleted')
  BY <1>4, InstallKeeps
<1>5. QED
  BY <1>1, <1>2, <1>3, <1>4 DEF Next

(* No edit is lost: on two devices that sync in turns, what a user wrote   *)
(* stays on the device it was written on until some user edits or deletes  *)
(* it, however many edits come between planning, fetching and installing   *)
(* (diff_workbook, install_workbook and write_base).                       *)
THEOREM SyncKeepsEdits == ASSUME TakingTurns, Pair PROVE Spec => []NoEditLost
<1>1. SyncInvariant /\ [Next]_vars => SyncInvariant'
  BY NextSync
<1>2. SyncInvariant => NoEditLost
  BY DEF SyncInvariant
<1>3. QED
  BY <1>1, <1>2, InitSync, PTL DEF Spec

(* A cell goes from a device only when some user deleted it, there or on   *)
(* the other device (cells.rs, CellOutcome::Drop).                         *)
THEOREM SyncDropsOnlyDeleted == ASSUME TakingTurns, Pair PROVE Spec => OnlyDeletedCellsGo
<1> DEFINE Gone == \A d \in Devices : Ids(doc[d].cells) \ Ids(doc'[d].cells) \subseteq deleted'
<1>1. SyncInvariant /\ [Next]_vars => SyncInvariant' /\ [Gone]_vars
  <2>1. SUFFICES ASSUME SyncInvariant, [Next]_vars PROVE SyncInvariant' /\ [Gone]_vars
    OBVIOUS
  <2>2. SyncInvariant'
    BY <2>1, NextSync
  <2>3. UNCHANGED vars \/ Gone
    <3>1. UNCHANGED vars \/ \A d \in Devices : IdsHeld(doc[d].cells, doc'[d].cells, deleted')
      BY <2>1, NextSync
    <3>2. (\A d \in Devices : IdsHeld(doc[d].cells, doc'[d].cells, deleted')) => Gone
      BY DEF IdsHeld
    <3>3. QED
      BY <3>1, <3>2
  <2>4. QED
    BY <2>2, <2>3
<1>2. QED
  BY <1>1, InitSync, PTL DEF Spec, OnlyDeletedCellsGo
=============================================================================
