--------------------------- MODULE TodoApp_proofs ---------------------------
(***************************************************************************)
(* Theorems about TodoApp: however its handlers nest, the list view is the *)
(* list, the form is the selected item, and the file is the list.  Sound   *)
(* says of a working state what the invariant says of a state; every       *)
(* handler keeps it, whoever calls it, and the gestures are made of        *)
(* handlers.  At the end, about Reminder, the timer of the same window: no *)
(* reminder is missed.                                                     *)
(***************************************************************************)
EXTENDS TodoApp, Reminder, TodoStore_proofs, WellFoundedInduction

(* The rows show the first items of the list, the newest at the top.       *)
Mirror(rows, list) ==
  /\ Len(rows) <= Len(list)
  /\ \A i \in DOMAIN rows : rows[i] = RowOf(list[Len(rows) - i + 1])

WorkType ==
  [rows : Seq(Row), sel : SUBSET Nat, title : Titles, remark : Remarks,
   deadline : Times, remind : Times, add : BOOLEAN, expanded : BOOLEAN,
   boot : BOOLEAN, shown : Nat \cup {NoItem}, odd : BOOLEAN,
   list : Seq(Item), tick : Nat, dumps : Seq(Seq(Item))]

-----------------------------------------------------------------------------
(* Rows and items *)

LEMMA MirroredRows ==
  ASSUME NEW rows \in Seq(Row), NEW list \in Seq(Item), NEW k,
         Mirror(rows, list), Ordered(list, k), NEW i \in DOMAIN rows
  PROVE  /\ Len(rows) - i + 1 \in DOMAIN list
         /\ rows[i] = RowOf(list[Len(rows) - i + 1])
         /\ rows[i].id = list[Len(rows) - i + 1].id
         /\ At(list, rows[i].id) = Len(rows) - i + 1
         /\ \A j \in DOMAIN rows : rows[j].id = rows[i].id => j = i
<1>1. /\ Len(rows) \in Nat /\ DOMAIN rows = 1..Len(rows)
      /\ Len(list) \in Nat /\ DOMAIN list = 1..Len(list)
  BY ElementTyped
<1>2. \A j \in DOMAIN rows : Len(rows) - j + 1 \in DOMAIN list
  BY <1>1, SMT DEF Mirror
<1>3. \A j \in DOMAIN rows : rows[j].id = list[Len(rows) - j + 1].id
  BY DEF Mirror, RowOf
<1>4. \A j \in DOMAIN rows : At(list, rows[j].id) = Len(rows) - j + 1
  BY <1>2, <1>3, SearchHits DEF At
<1>5. ASSUME NEW j \in DOMAIN rows, rows[j].id = rows[i].id
      PROVE  j = i
  BY <1>1, <1>4, <1>5, SMT
<1> QED
  BY <1>2, <1>3, <1>4, <1>5 DEF Mirror

(* An item and its row change together. *)
EditedTogether(rows, list, p, rows2, list2) ==
  /\ rows2 \in Seq(Row) /\ DOMAIN rows2 = DOMAIN rows
  /\ list2 \in Seq(Item) /\ DOMAIN list2 = DOMAIN list
  /\ \A j \in DOMAIN list : j # At(list, rows[p].id) => list2[j] = list[j]
  /\ \A i \in DOMAIN rows :
       rows2[i] = IF rows[i].id = rows[p].id THEN RowOf(list2[At(list, rows[p].id)])
                  ELSE rows[i]

LEMMA MirrorEdited ==
  ASSUME NEW rows \in Seq(Row), NEW list \in Seq(Item), NEW k,
         Mirror(rows, list), Ordered(list, k), NEW p \in DOMAIN rows,
         NEW rows2, NEW list2, EditedTogether(rows, list, p, rows2, list2)
  PROVE  Mirror(rows2, list2)
<1> USE DEF EditedTogether
<1>1. Len(rows2) = Len(rows) /\ Len(list2) = Len(list)
  BY ElementTyped, SMT
<1>2. ASSUME NEW i \in DOMAIN rows
      PROVE  rows2[i] = RowOf(list2[Len(rows) - i + 1])
  <2>1. CASE i = p
    <3>1. At(list, rows[p].id) = Len(rows) - p + 1
      BY MirroredRows
    <3>2. rows2[p] = RowOf(list2[At(list, rows[p].id)])
      OBVIOUS
    <3> QED
      BY <2>1, <3>1, <3>2
  <2>2. CASE i # p
    <3>1. rows[i].id # rows[p].id
      BY <2>2, MirroredRows
    <3>2. /\ rows[i] = RowOf(list[Len(rows) - i + 1])
          /\ Len(rows) - i + 1 \in DOMAIN list
          /\ At(list, rows[p].id) = Len(rows) - p + 1
      BY MirroredRows
    <3>3. Len(rows) - i + 1 # Len(rows) - p + 1
      BY <2>2, ElementTyped, SMT
    <3> QED
      BY <3>1, <3>2, <3>3
  <2> QED
    BY <2>1, <2>2
<1> QED
  BY <1>1, <1>2 DEF Mirror

(* The topmost selected row exists. *)
LEMMA ChosenSelected ==
  ASSUME NEW w \in WorkType, w.sel \subseteq IdsOf(w.rows), w.sel # {}
  PROVE  /\ ChosenRow(w) \in DOMAIN w.rows
         /\ Chosen(w) = w.rows[ChosenRow(w)].id /\ Chosen(w) \in w.sel
<1> DEFINE T == {i \in DOMAIN w.rows : w.rows[i].id \in w.sel}
<1>1. w.rows \in Seq(Row)
  BY DEF WorkType
<1>2. DOMAIN w.rows = 1..Len(w.rows) /\ Len(w.rows) \in Nat
  BY <1>1, ElementTyped
<1>3. T \subseteq Nat /\ T # {}
  BY <1>2 DEF IdsOf
<1>4. PICK i \in T : \A j \in T : ~(<<j, i>> \in OpToRel(<, Nat))
  BY <1>3, NatLessThanWellFounded, WFMin
<1>5. \A j \in T : ~(j < i)
  BY <1>3, <1>4 DEF OpToRel
<1>6. \A j \in 1..(i - 1) : w.rows[j].id \notin w.sel
  BY <1>2, <1>5, SMT
<1> QED
  BY <1>6 DEF ChosenRow, Chosen

-----------------------------------------------------------------------------
(* Working states *)

(* Every remark came through the buffer of 1024 characters. *)
Clipped(list) == \A i \in DOMAIN list : ClipRemark[list[i].remark] = list[i].remark

(* Rows and list agree, every selected id is a row's, remarks are clipped,  *)
(* and what is in the list is what was dumped last, or nothing was dumped   *)
(* and it is the list the handler began with.                               *)
Sound(w) ==
  /\ w \in WorkType
  /\ w.sel \subseteq IdsOf(w.rows)
  /\ Ordered(w.list, w.tick)
  /\ Mirror(w.rows, w.list)
  /\ w.boot => w.sel = {}
  /\ ~w.boot => Len(w.rows) = Len(w.list)
  /\ Clipped(w.list) /\ \A d \in DOMAIN w.dumps : Clipped(w.dumps[d])
  /\ w.list = IF w.dumps = <<>> THEN todos ELSE Last(w.dumps)

(* The form and the history do not matter to it, and nothing selected is    *)
(* always right.                                                            *)
LEMMA FormAside ==
  ASSUME NEW w, Sound(w), NEW x \in WorkType,
         x.rows = w.rows, x.list = w.list, x.tick = w.tick, x.dumps = w.dumps,
         x.boot = w.boot, x.sel \in {w.sel, {}}
  PROVE  Sound(x)
BY DEF Sound

LEMMA AppendedLast ==
  ASSUME NEW S, NEW s \in Seq(S), NEW e \in S
  PROVE  Append(s, e) \in Seq(S) /\ Append(s, e) # <<>> /\ Last(Append(s, e)) = e
BY AppendProperties, EmptySeq DEF Last

LEMMA AppendedMembers ==
  ASSUME NEW S, NEW s \in Seq(S), NEW e \in S
  PROVE  \A d \in DOMAIN Append(s, e) :
           Append(s, e)[d] = e \/ (d \in DOMAIN s /\ Append(s, e)[d] = s[d])
BY AppendProperties

(* update_...: the list and the row are edited, the list is dumped.         *)
Edited(w, list, rows) == [[w EXCEPT !.list = list, !.dumps = Append(w.dumps, list)]
                            EXCEPT !.rows = rows]

LEMMA EditedSound ==
  ASSUME NEW w, Sound(w),
         NEW list \in Seq(Item), SameIds(w.list, list), Clipped(list),
         NEW rows \in Seq(Row), Len(rows) = Len(w.rows), IdsOf(rows) = IdsOf(w.rows),
         Mirror(rows, list)
  PROVE  Sound(Edited(w, list, rows))
<1> DEFINE x == Edited(w, list, rows)
<1>1. w \in WorkType
  BY DEF Sound
<1>2. /\ x.list = list /\ x.rows = rows /\ x.dumps = Append(w.dumps, list)
      /\ x.sel = w.sel /\ x.tick = w.tick /\ x.boot = w.boot
  BY <1>1 DEF Edited, WorkType
<1>3. Append(w.dumps, list) \in Seq(Seq(Item)) /\ x.dumps # <<>> /\ Last(x.dumps) = list
  BY <1>1, <1>2, AppendedLast DEF WorkType
<1>4. x \in WorkType
  BY <1>1, <1>3 DEF Edited, WorkType
<1>5. Ordered(list, w.tick)
  BY UpdatedOrdered DEF Sound
<1>6. Len(list) = Len(w.list)
  BY <1>1, ElementTyped, SMT DEF SameIds, WorkType
<1>7. \A d \in DOMAIN x.dumps : Clipped(x.dumps[d])
  <2>1. w.dumps \in Seq(Seq(Item))
    BY <1>1 DEF WorkType
  <2>2. \A d \in DOMAIN w.dumps : Clipped(w.dumps[d])
    BY DEF Sound
  <2> QED
    BY <1>2, <2>1, <2>2, AppendedMembers
<1> HIDE DEF x
<1> QED
  BY <1>2, <1>3, <1>4, <1>5, <1>6, <1>7 DEF Sound, x

(* A row with that id is an item's, and the search ends on the item.        *)
LEMMA RowItem ==
  ASSUME NEW w, Sound(w), NEW p \in DOMAIN w.rows
  PROVE  /\ w.rows \in Seq(Row) /\ w.list \in Seq(Item)
         /\ At(w.list, w.rows[p].id) \in DOMAIN w.list
         /\ w.list[At(w.list, w.rows[p].id)].id = w.rows[p].id
         /\ w.rows[p] = RowOf(w.list[At(w.list, w.rows[p].id)])
<1>1. w.rows \in Seq(Row) /\ w.list \in Seq(Item)
  BY DEF Sound, WorkType
<1> QED
  BY <1>1, MirroredRows DEF Sound

(* What SetRow makes of the rows. *)
RowsSet(rows, id, f, v) ==
  [i \in DOMAIN rows |-> IF rows[i].id = id THEN [rows[i] EXCEPT ![f] = v] ELSE rows[i]]

LEMMA RowsSetTyped ==
  ASSUME NEW rows \in Seq(Row), NEW id
  PROVE  /\ \A v \in Titles : RowsSet(rows, id, "text", v) \in Seq(Row)
         /\ \A v \in BOOLEAN : RowsSet(rows, id, "checked", v) \in Seq(Row)
         /\ \A f \in {"text", "checked"} : \A v :
              /\ DOMAIN RowsSet(rows, id, f, v) = DOMAIN rows
              /\ IdsOf(RowsSet(rows, id, f, v)) = IdsOf(rows)
<1>1. DOMAIN rows = 1..Len(rows) /\ Len(rows) \in Nat /\ \A i \in DOMAIN rows : rows[i] \in Row
  BY ElementTyped
<1>2. ASSUME NEW v \in Titles
      PROVE  RowsSet(rows, id, "text", v) \in Seq(Row)
  <2>1. \A i \in DOMAIN rows : [rows[i] EXCEPT !.text = v] \in Row
    BY <1>1 DEF Row
  <2> QED
    BY <1>1, <2>1 DEF RowsSet
<1>3. ASSUME NEW v \in BOOLEAN
      PROVE  RowsSet(rows, id, "checked", v) \in Seq(Row)
  <2>1. \A i \in DOMAIN rows : [rows[i] EXCEPT !.checked = v] \in Row
    BY <1>1 DEF Row
  <2> QED
    BY <1>1, <2>1 DEF RowsSet
<1>4. ASSUME NEW f \in {"text", "checked"}, NEW v
      PROVE  /\ DOMAIN RowsSet(rows, id, f, v) = DOMAIN rows
             /\ IdsOf(RowsSet(rows, id, f, v)) = IdsOf(rows)
  <2>1. \A i \in DOMAIN rows : [rows[i] EXCEPT ![f] = v].id = rows[i].id
    BY <1>1, <1>4 DEF Row
  <2>2. /\ DOMAIN RowsSet(rows, id, f, v) = DOMAIN rows
        /\ \A i \in DOMAIN rows : RowsSet(rows, id, f, v)[i].id = rows[i].id
    BY <2>1 DEF RowsSet
  <2> QED
    BY <2>2 DEF IdsOf
<1> QED
  BY <1>2, <1>3, <1>4

-----------------------------------------------------------------------------
(* Handlers *)

(* Nothing but list, dumps and rows differs. *)
SameForm(w, x) ==
  /\ x.sel = w.sel /\ x.title = w.title /\ x.remark = w.remark
  /\ x.deadline = w.deadline /\ x.remind = w.remind /\ x.add = w.add
  /\ x.expanded = w.expanded /\ x.boot = w.boot /\ x.shown = w.shown
  /\ x.odd = w.odd /\ x.tick = w.tick

(* x is w with v in place of item n, saved. *)
ItemEdited(w, x, n, v) ==
  /\ DOMAIN x.list = DOMAIN w.list
  /\ \A j \in DOMAIN w.list : x.list[j] = IF j = n THEN v ELSE w.list[j]
  /\ x.dumps = Append(w.dumps, x.list)

LEMMA EditedForm ==
  ASSUME NEW w \in WorkType, NEW list, NEW rows
  PROVE  /\ SameForm(w, Edited(w, list, rows))
         /\ Edited(w, list, rows).list = list
         /\ Edited(w, list, rows).dumps = Append(w.dumps, list)
         /\ Edited(w, list, rows).rows = rows
BY DEF WorkType, Edited, SameForm

SameRows(w, x) == IdsOf(x.rows) = IdsOf(w.rows) /\ Len(x.rows) = Len(w.rows)

LEMMA TitleChangeSound ==
  ASSUME NEW w, Sound(w), w.sel # {}
  PROVE  /\ Sound(OnTitleChange(w)) /\ SameForm(w, OnTitleChange(w))
         /\ SameRows(w, OnTitleChange(w))
         /\ ChosenRow(w) \in DOMAIN w.rows /\ Chosen(w) \in w.sel
         /\ At(w.list, Chosen(w)) \in DOMAIN w.list
         /\ w.list[At(w.list, Chosen(w))].id = Chosen(w)
         /\ ItemEdited(w, OnTitleChange(w), At(w.list, Chosen(w)),
                       [w.list[At(w.list, Chosen(w))] EXCEPT !.text = ClipEdit[w.title]])
<1> DEFINE p    == ChosenRow(w)
           id   == Chosen(w)
           n    == At(w.list, id)
           str  == ClipEdit[w.title]
           list == WithTitle(w.list, id, str)
           rows == RowsSet(w.rows, id, "text", str)
<1>1. w \in WorkType /\ w.rows \in Seq(Row) /\ w.list \in Seq(Item)
  BY DEF Sound, WorkType
<1>2. p \in DOMAIN w.rows /\ id = w.rows[p].id /\ id \in w.sel
  BY <1>1, ChosenSelected DEF Sound
<1>3. n \in DOMAIN w.list /\ w.list[n].id = id /\ w.rows[p] = RowOf(w.list[n])
  BY <1>2, RowItem
<1>4. str \in Titles
  BY <1>1, AppAssumption DEF WorkType
<1>5. list \in Seq(Item) /\ SameIds(w.list, list)
  BY <1>1, <1>4, WithTyped
<1>6. /\ rows \in Seq(Row) /\ DOMAIN rows = DOMAIN w.rows /\ IdsOf(rows) = IdsOf(w.rows)
  BY <1>1, <1>4, RowsSetTyped
<1>7. OnTitleChange(w) = Edited(w, list, rows)
  BY <1>1 DEF OnTitleChange, SetRow, Dumped, Edited, RowsSet, WorkType
<1>8. /\ DOMAIN list = DOMAIN w.list
      /\ \A j \in DOMAIN w.list :
           list[j] = IF j = n THEN [w.list[n] EXCEPT !.text = str] ELSE w.list[j]
  BY <1>3 DEF WithTitle
<1>9. Mirror(rows, list)
  <2>1. w.list[n] \in Item
    BY <1>1, <1>3, ElementTyped
  <2>2. [w.rows[p] EXCEPT !.text = str] = RowOf(list[n])
    BY <1>3, <1>8, <2>1 DEF RowOf, Item
  <2>3. \A i \in DOMAIN w.rows : w.rows[i].id = id => i = p
    BY <1>1, <1>2, MirroredRows DEF Sound
  <2>4. \A i \in DOMAIN w.rows :
          rows[i] = IF w.rows[i].id = w.rows[p].id THEN RowOf(list[n]) ELSE w.rows[i]
    BY <1>2, <2>2, <2>3 DEF RowsSet
  <2>5. n = At(w.list, w.rows[p].id)
    BY <1>2
  <2>6. Mirror(w.rows, w.list) /\ Ordered(w.list, w.tick)
    BY DEF Sound
  <2> HIDE DEF rows, list, p, id, n, str
  <2>7. \A j \in DOMAIN w.list : j # At(w.list, w.rows[p].id) => list[j] = w.list[j]
    BY <1>8, <2>5
  <2>8. \A i \in DOMAIN w.rows :
          rows[i] = IF w.rows[i].id = w.rows[p].id THEN RowOf(list[At(w.list, w.rows[p].id)])
                    ELSE w.rows[i]
    BY <2>4, <2>5
  <2>9. /\ w.rows \in Seq(Row) /\ w.list \in Seq(Item) /\ p \in DOMAIN w.rows
        /\ list \in Seq(Item) /\ DOMAIN list = DOMAIN w.list
        /\ rows \in Seq(Row) /\ DOMAIN rows = DOMAIN w.rows
    BY <1>1, <1>2, <1>5, <1>6, <1>8
  <2>10. EditedTogether(w.rows, w.list, p, rows, list)
    BY ONLY <2>7, <2>8, <2>9 DEF EditedTogether
  <2> QED
    BY <2>6, <2>9, <2>10, MirrorEdited
<1>10. Len(rows) = Len(w.rows)
  BY <1>1, <1>6, ElementTyped, SMT
<1>14. Clipped(list)
  <2>1. w.list[n] \in Item
    BY <1>1, <1>3, ElementTyped
  <2>2. [w.list[n] EXCEPT !.text = str].remark = w.list[n].remark
    BY <2>1 DEF Item
  <2>3. \A j \in DOMAIN w.list : list[j].remark = w.list[j].remark
    <3> HIDE DEF list, n, id, str
    <3> QED
      BY <1>3, <1>8, <2>2
  <2>4. Clipped(w.list)
    BY DEF Sound
  <2> QED
    BY ONLY <1>8, <2>3, <2>4 DEF Clipped
<1> HIDE DEF rows, list
<1>11. Sound(Edited(w, list, rows))
  BY <1>5, <1>6, <1>9, <1>10, <1>14, EditedSound
<1>12. ItemEdited(w, Edited(w, list, rows), n, [w.list[n] EXCEPT !.text = str])
  <2> DEFINE x == Edited(w, list, rows)
             v == [w.list[n] EXCEPT !.text = str]
  <2>1. x.list = list /\ x.dumps = Append(w.dumps, list)
    BY <1>1, EditedForm
  <2>2. \A j \in DOMAIN w.list : list[j] = IF j = n THEN v ELSE w.list[j]
    BY <1>8
  <2> HIDE DEF x, v, n
  <2>3. ItemEdited(w, x, n, v)
    BY ONLY <1>8, <2>1, <2>2 DEF ItemEdited
  <2> QED
    BY <2>3 DEF x, v
<1>13. SameForm(w, Edited(w, list, rows)) /\ SameRows(w, Edited(w, list, rows))
  BY <1>1, <1>6, <1>10, EditedForm DEF SameRows
<1> QED
  BY <1>2, <1>3, <1>7, <1>11, <1>12, <1>13

LEMMA ChosenSame ==
  ASSUME NEW w, NEW x, x.rows = w.rows, x.sel = w.sel
  PROVE  ChosenRow(x) = ChosenRow(w) /\ Chosen(x) = Chosen(w)
BY DEF ChosenRow, Chosen

(* The form after SetDlgItemText(title). *)
Titled(w, str) == [w EXCEPT !.title = str]

LEMMA TitledSound ==
  ASSUME NEW w, Sound(w), NEW str \in Titles
  PROVE  /\ Sound(Titled(w, str)) /\ Titled(w, str).title = str
         /\ Titled(w, str).rows = w.rows /\ Titled(w, str).list = w.list
         /\ Titled(w, str).dumps = w.dumps /\ Titled(w, str).sel = w.sel
         /\ Titled(w, str).tick = w.tick /\ Titled(w, str).boot = w.boot
         /\ Titled(w, str).odd = w.odd /\ Titled(w, str).expanded = w.expanded
<1>1. w \in WorkType
  BY DEF Sound
<1>2. Titled(w, str) \in WorkType
  BY <1>1 DEF Titled, WorkType
<1>3. /\ Titled(w, str).title = str
      /\ Titled(w, str).rows = w.rows /\ Titled(w, str).list = w.list
      /\ Titled(w, str).dumps = w.dumps /\ Titled(w, str).sel = w.sel
      /\ Titled(w, str).tick = w.tick /\ Titled(w, str).boot = w.boot
      /\ Titled(w, str).odd = w.odd /\ Titled(w, str).expanded = w.expanded
  BY <1>1 DEF Titled, WorkType
<1> QED
  BY <1>2, <1>3, FormAside

LEMMA SetTitleSound ==
  ASSUME NEW w, Sound(w), NEW str \in Titles
  PROVE  /\ Sound(SetTitle(w, str)) /\ SameForm(Titled(w, str), SetTitle(w, str))
         /\ SameRows(w, SetTitle(w, str))
         /\ w.sel = {} => SetTitle(w, str) = Titled(w, str)
         /\ w.sel # {} =>
              /\ ChosenRow(w) \in DOMAIN w.rows /\ Chosen(w) \in w.sel
              /\ At(w.list, Chosen(w)) \in DOMAIN w.list
              /\ w.list[At(w.list, Chosen(w))].id = Chosen(w)
              /\ ItemEdited(w, SetTitle(w, str), At(w.list, Chosen(w)),
                            [w.list[At(w.list, Chosen(w))] EXCEPT !.text = ClipEdit[str]])
<1> DEFINE t == Titled(w, str)
<1>1. SetTitle(w, str) = OnTitleChange(t)
  BY DEF SetTitle, Titled
<1>2. /\ Sound(t) /\ t.title = str /\ t.rows = w.rows /\ t.list = w.list
      /\ t.dumps = w.dumps /\ t.sel = w.sel
  BY TitledSound
<1>3. ChosenRow(t) = ChosenRow(w) /\ Chosen(t) = Chosen(w)
  BY <1>2, ChosenSame
<1> HIDE DEF t
<1>4. CASE w.sel = {}
  <2>1. OnTitleChange(t) = t
    BY <1>2, <1>4 DEF OnTitleChange
  <2> QED
    BY <1>1, <1>2, <1>4, <2>1 DEF SameForm, SameRows, t
<1>5. CASE w.sel # {}
  <2>1. /\ Sound(OnTitleChange(t)) /\ SameForm(t, OnTitleChange(t))
        /\ SameRows(t, OnTitleChange(t))
        /\ ChosenRow(w) \in DOMAIN w.rows /\ Chosen(w) \in w.sel
        /\ At(w.list, Chosen(w)) \in DOMAIN w.list
        /\ w.list[At(w.list, Chosen(w))].id = Chosen(w)
        /\ ItemEdited(t, OnTitleChange(t), At(w.list, Chosen(w)),
                      [w.list[At(w.list, Chosen(w))] EXCEPT !.text = ClipEdit[str]])
    BY <1>2, <1>3, <1>5, TitleChangeSound
  <2>2. ItemEdited(w, OnTitleChange(t), At(w.list, Chosen(w)),
                   [w.list[At(w.list, Chosen(w))] EXCEPT !.text = ClipEdit[str]])
    BY <1>2, <2>1 DEF ItemEdited
  <2>3. SameRows(w, OnTitleChange(t))
    BY <1>2, <2>1 DEF SameRows
  <2> QED
    BY <1>1, <1>5, <2>1, <2>2, <2>3 DEF t
<1> QED
  BY <1>4, <1>5

(* What ClearMore and FillToMore do to the rest of the form. *)
Filled(w, remark, deadline, remind, add, shown) ==
  [w EXCEPT !.remark = remark, !.deadline = deadline, !.remind = remind,
            !.add = add, !.shown = shown]

FilledFrom(w, x, remark, add, shown) ==
  /\ Sound(x)
  /\ x.rows = w.rows /\ x.list = w.list /\ x.dumps = w.dumps /\ x.sel = w.sel
  /\ x.tick = w.tick /\ x.boot = w.boot /\ x.odd = w.odd /\ x.title = w.title
  /\ x.expanded = w.expanded /\ x.remark = remark /\ x.add = add /\ x.shown = shown

LEMMA FilledSound ==
  ASSUME NEW w, Sound(w), NEW remark \in Remarks, NEW deadline \in Times,
         NEW remind \in Times, NEW add \in BOOLEAN, NEW shown \in Nat \cup {NoItem}
  PROVE  FilledFrom(w, Filled(w, remark, deadline, remind, add, shown), remark, add, shown)
<1> DEFINE x == Filled(w, remark, deadline, remind, add, shown)
<1>1. w \in WorkType
  BY DEF Sound
<1>2. x \in WorkType
  BY <1>1 DEF Filled, WorkType
<1>3. /\ x.rows = w.rows /\ x.list = w.list /\ x.dumps = w.dumps /\ x.sel = w.sel
      /\ x.tick = w.tick /\ x.boot = w.boot /\ x.odd = w.odd /\ x.title = w.title
      /\ x.expanded = w.expanded /\ x.remark = remark /\ x.add = add /\ x.shown = shown
  BY <1>1 DEF Filled, WorkType
<1> HIDE DEF x
<1>4. Sound(x)
  BY <1>2, <1>3, FormAside
<1>5. FilledFrom(w, x, remark, add, shown)
  BY <1>3, <1>4 DEF FilledFrom
<1> QED
  BY <1>5 DEF x

LEMMA ClearMoreSound ==
  ASSUME NEW w, Sound(w)
  PROVE  LET x == ClearMore(w)
             t == SetTitle(w, Empty)
         IN  /\ Sound(x) /\ Sound(t)
             /\ x.rows = t.rows /\ x.list = t.list /\ x.dumps = t.dumps
             /\ x.sel = w.sel /\ x.tick = w.tick /\ x.boot = w.boot /\ x.odd = w.odd
             /\ x.expanded = w.expanded /\ x.title = Empty /\ x.remark = NoRemark
             /\ x.add /\ x.shown = NoItem
<1> DEFINE t == SetTitle(w, Empty)
           x == Filled(t, NoRemark, 0, 0, TRUE, NoItem)
<1>1. Empty \in Titles /\ NoRemark \in Remarks /\ 0 \in Times /\ NoItem \in Nat \cup {NoItem}
  BY AppAssumption, StoreAssumption
<1>2. /\ Sound(t) /\ t.sel = w.sel /\ t.tick = w.tick /\ t.boot = w.boot /\ t.odd = w.odd
      /\ t.expanded = w.expanded /\ t.title = Empty
  <2>1. Sound(t) /\ SameForm(Titled(w, Empty), t)
    BY <1>1, SetTitleSound
  <2>2. /\ Titled(w, Empty).title = Empty /\ Titled(w, Empty).sel = w.sel
        /\ Titled(w, Empty).tick = w.tick /\ Titled(w, Empty).boot = w.boot
        /\ Titled(w, Empty).odd = w.odd /\ Titled(w, Empty).expanded = w.expanded
    BY <1>1, TitledSound
  <2> QED
    BY <2>1, <2>2 DEF SameForm
<1> HIDE DEF t
<1>3. FilledFrom(t, x, NoRemark, TRUE, NoItem)
  BY <1>1, <1>2, FilledSound
<1>4. ClearMore(w) = x
  BY DEF ClearMore, Filled, t
<1> QED
  BY <1>2, <1>3, <1>4 DEF FilledFrom, t

LEMMA FillToMoreSound ==
  ASSUME NEW w, Sound(w), NEW id \in IdsOf(w.rows)
  PROVE  LET x == FillToMore(w, id)
             todo == w.list[At(w.list, id)]
             t == SetTitle(w, todo.text)
         IN  /\ todo \in Item /\ todo.id = id /\ At(w.list, id) \in DOMAIN w.list
             /\ FilledFrom(t, x, todo.remark, FALSE, id)
             /\ x.sel = w.sel /\ x.tick = w.tick /\ x.boot = w.boot /\ x.odd = w.odd
             /\ x.title = todo.text /\ SameRows(w, x)
<1> DEFINE todo == w.list[At(w.list, id)]
           t == SetTitle(w, todo.text)
           x == Filled(t, todo.remark, todo.deadline, todo.remind, FALSE, id)
<1>1. PICK p \in DOMAIN w.rows : w.rows[p].id = id
  BY DEF IdsOf
<1>2. At(w.list, id) \in DOMAIN w.list /\ todo.id = id /\ w.list \in Seq(Item)
  BY <1>1, RowItem
<1>3. todo \in Item
  BY <1>2, ElementTyped
<1>4. /\ todo.text \in Titles /\ todo.remark \in Remarks /\ todo.deadline \in Times
      /\ todo.remind \in Times /\ id \in Nat \cup {NoItem}
  BY <1>2, <1>3 DEF Item
<1>5. /\ Sound(t) /\ t.sel = w.sel /\ t.tick = w.tick /\ t.boot = w.boot /\ t.odd = w.odd
      /\ t.title = todo.text /\ SameRows(w, t)
  <2>1. Sound(t) /\ SameForm(Titled(w, todo.text), t) /\ SameRows(w, t)
    BY <1>4, SetTitleSound
  <2>2. /\ Titled(w, todo.text).title = todo.text /\ Titled(w, todo.text).sel = w.sel
        /\ Titled(w, todo.text).tick = w.tick /\ Titled(w, todo.text).boot = w.boot
        /\ Titled(w, todo.text).odd = w.odd
    BY <1>4, TitledSound
  <2> QED
    BY <2>1, <2>2 DEF SameForm
<1>6. FillToMore(w, id) = x
  BY DEF FillToMore, Filled
<1> HIDE DEF todo, t
<1>7. FilledFrom(t, x, todo.remark, FALSE, id)
  BY <1>4, <1>5, FilledSound
<1> QED
  BY <1>2, <1>3, <1>5, <1>6, <1>7 DEF FilledFrom, SameRows, todo, t

(* Nothing selected, nothing in the form. *)
Cleared(w) ==
  [w EXCEPT !.sel = {}, !.odd = FALSE, !.title = Empty, !.remark = NoRemark,
            !.deadline = 0, !.remind = 0, !.add = TRUE, !.shown = NoItem]

LEMMA ClearedSound ==
  ASSUME NEW w \in WorkType
  PROVE  /\ Cleared(w) \in WorkType
         /\ Sound(w) => Sound(Cleared(w))
         /\ Cleared(w).rows = w.rows /\ Cleared(w).list = w.list
         /\ Cleared(w).dumps = w.dumps /\ Cleared(w).tick = w.tick
         /\ Cleared(w).boot = w.boot /\ Cleared(w).expanded = w.expanded
         /\ Cleared(w).sel = {} /\ ~Cleared(w).odd /\ Cleared(w).title = Empty
         /\ Cleared(w).remark = NoRemark /\ Cleared(w).add /\ Cleared(w).shown = NoItem
<1>1. Empty \in Titles /\ NoRemark \in Remarks /\ 0 \in Times /\ NoItem \in Nat \cup {NoItem}
  BY AppAssumption, StoreAssumption
<1>2. Cleared(w) \in WorkType
  BY <1>1 DEF Cleared, WorkType
<1>3. /\ Cleared(w).rows = w.rows /\ Cleared(w).list = w.list
      /\ Cleared(w).dumps = w.dumps /\ Cleared(w).tick = w.tick
      /\ Cleared(w).boot = w.boot /\ Cleared(w).expanded = w.expanded
      /\ Cleared(w).sel = {} /\ ~Cleared(w).odd /\ Cleared(w).title = Empty
      /\ Cleared(w).remark = NoRemark /\ Cleared(w).add /\ Cleared(w).shown = NoItem
  BY DEF Cleared, WorkType
<1>4. Sound(w) => Sound(Cleared(w))
  BY <1>2, <1>3, FormAside
<1> QED
  BY <1>2, <1>3, <1>4

LEMMA ClearedAfterDeselect ==
  ASSUME NEW w \in WorkType
  PROVE  /\ ClearMore(DeselectAll(w)) = Cleared(w)
<1>1. DeselectAll(w).sel = {}
  BY DEF DeselectAll, WorkType
<1>2. [DeselectAll(w) EXCEPT !.title = Empty].sel = {}
  BY DEF DeselectAll, WorkType
<1>3. SetTitle(DeselectAll(w), Empty) = [DeselectAll(w) EXCEPT !.title = Empty]
  BY <1>2 DEF SetTitle, OnTitleChange
<1> QED
  BY <1>3 DEF ClearMore, Cleared, DeselectAll, WorkType

(* The item of id, of whatever status and stamp. *)
Stamped(list, id, b, now) == [list[At(list, id)] EXCEPT !.status = b, !.lastmodified = now]

(* The selection goes, the form is cleared, and only then is the item       *)
(* written: it is the one whose box was checked.                            *)
Checked(w, x, id, b, now) ==
  /\ Sound(x) /\ SameForm(Cleared(w), x)
  /\ At(w.list, id) \in DOMAIN w.list
  /\ w.list[At(w.list, id)] \in Item /\ w.list[At(w.list, id)].id = id
  /\ ItemEdited(w, x, At(w.list, id), Stamped(w.list, id, b, now))
  /\ IdsOf(x.rows) = IdsOf(w.rows) /\ Len(x.rows) = Len(w.rows)

LEMMA CheckSound ==
  ASSUME NEW w, Sound(w), NEW id \in IdsOf(w.rows), NEW b \in BOOLEAN, NEW now \in Stamps
  PROVE  Checked(w, OnCheck(w, id, b, now), id, b, now)
<1> DEFINE c    == Cleared(w)
           n    == At(w.list, id)
           v    == [w.list[n] EXCEPT !.status = b, !.lastmodified = now]
           list == WithStatus(w.list, id, b, now)
           rows == RowsSet(w.rows, id, "checked", b)
<1>1. w \in WorkType /\ w.rows \in Seq(Row) /\ w.list \in Seq(Item)
  BY DEF Sound, WorkType
<1>2. PICK p \in DOMAIN w.rows : w.rows[p].id = id
  BY DEF IdsOf
<1>3. n \in DOMAIN w.list /\ w.list[n].id = id /\ w.rows[p] = RowOf(w.list[n])
  BY <1>2, RowItem
<1>4. w.list[n] \in Item
  BY <1>1, <1>3, ElementTyped
<1>5. list \in Seq(Item) /\ SameIds(w.list, list)
  BY <1>1, WithTyped
<1>6. /\ rows \in Seq(Row) /\ DOMAIN rows = DOMAIN w.rows /\ IdsOf(rows) = IdsOf(w.rows)
  BY <1>1, RowsSetTyped
<1>7. /\ Sound(c) /\ c.rows = w.rows /\ c.list = w.list /\ c.dumps = w.dumps
      /\ c \in WorkType
  BY <1>1, ClearedSound
<1>8. OnCheck(w, id, b, now) = Edited(c, list, rows)
  <2> DEFINE r == SetRow(w, id, "checked", b)
  <2>1. r = [w EXCEPT !.rows = rows]
    BY DEF SetRow, RowsSet
  <2>2. r \in WorkType
    BY <1>1, <1>6, <2>1 DEF WorkType
  <2>3. ClearMore(DeselectAll(r)) = Cleared(r)
    BY <2>2, ClearedAfterDeselect
  <2>4. Cleared(r) = [c EXCEPT !.rows = rows]
    BY <1>1, <2>1 DEF Cleared, WorkType
  <2>5. Cleared(r).list = w.list
    BY <1>1, <1>7, <2>4 DEF WorkType
  <2> HIDE DEF c, r, rows
  <2>6. OnCheck(w, id, b, now) = Dumped(Cleared(r), list)
    BY <2>3, <2>5 DEF OnCheck, r
  <2>7. Dumped([c EXCEPT !.rows = rows], list) = Edited(c, list, rows)
    BY <1>7 DEF Dumped, Edited, WorkType
  <2> QED
    BY <2>4, <2>6, <2>7
<1>9. /\ DOMAIN list = DOMAIN w.list
      /\ \A j \in DOMAIN w.list : list[j] = IF j = n THEN v ELSE w.list[j]
  BY <1>3, <1>4 DEF WithStatus, Item
<1>10. Mirror(rows, list)
  <2>1. [w.rows[p] EXCEPT !.checked = b] = RowOf(list[n])
    <3>1. v.id = w.list[n].id /\ v.text = w.list[n].text /\ v.status = b
      BY <1>4 DEF Item
    <3>2. list[n] = v
      BY <1>3, <1>9
    <3>3. RowOf(v) = [id |-> w.list[n].id, text |-> w.list[n].text, checked |-> b]
      BY <3>1 DEF RowOf
    <3>4. [RowOf(w.list[n]) EXCEPT !.checked = b]
             = [id |-> w.list[n].id, text |-> w.list[n].text, checked |-> b]
      BY DEF RowOf
    <3> QED
      BY <1>3, <3>2, <3>3, <3>4
  <2>2. \A i \in DOMAIN w.rows : w.rows[i].id = id => i = p
    BY <1>1, <1>2, MirroredRows DEF Sound
  <2>3. \A i \in DOMAIN w.rows :
          rows[i] = IF w.rows[i].id = id THEN RowOf(list[n]) ELSE w.rows[i]
    BY <1>2, <2>1, <2>2 DEF RowsSet
  <2>4. n = At(w.list, w.rows[p].id)
    BY <1>2
  <2>5. Mirror(w.rows, w.list) /\ Ordered(w.list, w.tick)
    BY DEF Sound
  <2> HIDE DEF rows, list, n, v
  <2>6. EditedTogether(w.rows, w.list, p, rows, list)
    BY ONLY <1>2, <1>5, <1>6, <1>9, <2>3, <2>4 DEF EditedTogether
  <2> QED
    BY <1>1, <1>2, <2>5, <2>6, MirrorEdited
<1>11. Len(rows) = Len(w.rows)
  BY <1>1, <1>6, ElementTyped, SMT
<1>15. Clipped(list)
  <2>1. v.remark = w.list[n].remark
    BY <1>4 DEF Item
  <2>2. \A j \in DOMAIN w.list : list[j].remark = w.list[j].remark
    <3> HIDE DEF list, n, v
    <3> QED
      BY <1>3, <1>9, <2>1
  <2>3. Clipped(w.list)
    BY DEF Sound
  <2> QED
    BY ONLY <1>9, <2>2, <2>3 DEF Clipped
<1> HIDE DEF rows, list, c, v, n
<1>12. Sound(Edited(c, list, rows))
  BY <1>5, <1>6, <1>7, <1>10, <1>11, <1>15, EditedSound
<1>13. /\ SameForm(c, Edited(c, list, rows))
       /\ Edited(c, list, rows).list = list /\ Edited(c, list, rows).rows = rows
       /\ Edited(c, list, rows).dumps = Append(w.dumps, list)
  BY <1>7, EditedForm
<1>14. ItemEdited(w, Edited(c, list, rows), n, v)
  BY <1>9, <1>13 DEF ItemEdited
<1> QED
  BY <1>3, <1>4, <1>6, <1>8, <1>11, <1>12, <1>13, <1>14 DEF c, n, v, Checked, Stamped

(* A change that no row shows. *)
LEMMA DumpedSound ==
  ASSUME NEW w, Sound(w), NEW list \in Seq(Item), SameIds(w.list, list), Clipped(list),
         \A j \in DOMAIN w.list : RowOf(list[j]) = RowOf(w.list[j])
  PROVE  /\ Sound(Dumped(w, list)) /\ SameForm(w, Dumped(w, list))
         /\ Dumped(w, list).list = list /\ Dumped(w, list).rows = w.rows
         /\ Dumped(w, list).dumps = Append(w.dumps, list)
<1>1. w \in WorkType /\ w.rows \in Seq(Row) /\ w.list \in Seq(Item)
  BY DEF Sound, WorkType
<1>2. Dumped(w, list) = Edited(w, list, w.rows)
  BY <1>1 DEF Dumped, Edited, WorkType
<1>3. Mirror(w.rows, list)
  <2>1. Len(list) = Len(w.list)
    BY <1>1, ElementTyped, SMT DEF SameIds
  <2>2. \A i \in DOMAIN w.rows : /\ Len(w.rows) - i + 1 \in DOMAIN w.list
                                 /\ w.rows[i] = RowOf(w.list[Len(w.rows) - i + 1])
    BY <1>1, MirroredRows DEF Sound
  <2> QED
    BY <2>1, <2>2 DEF Mirror, Sound
<1>4. Sound(Edited(w, list, w.rows))
  BY <1>1, <1>3, EditedSound
<1> QED
  BY <1>1, <1>2, <1>4, EditedForm

(* The next item of the list gets a row at the top. *)
LEMMA RowInserted ==
  ASSUME NEW rows \in Seq(Row), NEW list \in Seq(Item), Len(rows) < Len(list),
         \A i \in DOMAIN rows : rows[i] = RowOf(list[Len(rows) - i + 1])
  PROVE  LET more == <<RowOf(list[Len(rows) + 1])>> \o rows
         IN  /\ more \in Seq(Row) /\ Len(more) = Len(rows) + 1
             /\ Mirror(more, list)
             /\ IdsOf(rows) \subseteq IdsOf(more)
             /\ list[Len(rows) + 1].id \in IdsOf(more)
<1> DEFINE r == RowOf(list[Len(rows) + 1])
           more == <<r>> \o rows
<1>1. /\ Len(rows) \in Nat /\ DOMAIN rows = 1..Len(rows)
      /\ Len(list) \in Nat /\ DOMAIN list = 1..Len(list)
  BY ElementTyped
<1>2. list[Len(rows) + 1] \in Item
  BY <1>1, ElementTyped, SMT
<1>3. r \in Row /\ r.id = list[Len(rows) + 1].id
  BY <1>2 DEF RowOf, Row, Item
<1> HIDE DEF r
<1>4. <<r>> \in Seq(Row) /\ Len(<<r>>) = 1 /\ <<r>>[1] = r
  BY <1>3
<1>5. /\ more \in Seq(Row) /\ Len(more) = 1 + Len(rows)
      /\ \A i \in 1..(1 + Len(rows)) : more[i] = IF i <= 1 THEN <<r>>[i] ELSE rows[i - 1]
  BY <1>4, ConcatProperties
<1> HIDE DEF more
<1>6. DOMAIN more = 1..(Len(rows) + 1) /\ Len(more) = Len(rows) + 1
  BY <1>1, <1>5, ElementTyped, SMT
<1>7. /\ more[1] = r
      /\ \A i \in 1..Len(rows) : more[i + 1] = rows[i]
  BY <1>1, <1>4, <1>5, SMT
<1>8. ASSUME NEW i \in DOMAIN more
      PROVE  more[i] = RowOf(list[Len(more) - i + 1])
  <2>1. CASE i = 1
    <3>1. Len(more) - i + 1 = Len(rows) + 1
      BY <1>1, <1>6, <2>1, SMT
    <3> QED
      BY <1>7, <2>1, <3>1 DEF r
  <2>2. CASE i # 1
    <3>1. i - 1 \in DOMAIN rows /\ Len(more) - i + 1 = Len(rows) - (i - 1) + 1
      BY <1>1, <1>6, <2>2, SMT
    <3>2. more[i] = rows[i - 1]
      BY <1>1, <1>5, <1>6, <2>2, SMT
    <3> QED
      BY <3>1, <3>2
  <2> QED
    BY <2>1, <2>2
<1>9. Len(more) <= Len(list)
  BY <1>1, <1>6, SMT
<1>10. IdsOf(rows) \subseteq IdsOf(more) /\ r.id \in IdsOf(more)
  BY <1>1, <1>6, <1>7, SMT DEF IdsOf
<1> QED
  BY <1>3, <1>5, <1>6, <1>8, <1>9, <1>10 DEF Mirror, more, r

(* What the control reports of the new row's box ends with its being        *)
(* checked or not, as it is.                                                *)
Inserted(plain, x, id, b, now) ==
  /\ SameForm(Cleared(plain), x)
  /\ At(plain.list, id) \in DOMAIN plain.list /\ plain.list[At(plain.list, id)].id = id
  /\ plain.list[At(plain.list, id)] \in Item
  /\ DOMAIN x.list = DOMAIN plain.list /\ x.dumps # <<>>
  /\ \A j \in DOMAIN plain.list :
       x.list[j] = IF j = At(plain.list, id) THEN Stamped(plain.list, id, b, now)
                   ELSE plain.list[j]

LEMMA InsertedOnce ==
  ASSUME NEW w, Sound(w), NEW x, NEW id, NEW b, NEW now, Checked(w, x, id, b, now)
  PROVE  Inserted(w, x, id, b, now)
<1>1. w.dumps \in Seq(Seq(Item)) /\ x.list \in Seq(Item)
  BY DEF Sound, WorkType, Checked
<1>2. x.dumps = Append(w.dumps, x.list)
  BY DEF Checked, ItemEdited
<1>3. x.dumps # <<>>
  BY <1>1, <1>2, AppendedLast
<1> QED
  BY <1>3 DEF Checked, ItemEdited, Inserted

LEMMA InsertedTwice ==
  ASSUME NEW w, Sound(w), NEW f, NEW x, NEW id, NEW now \in Stamps,
         Checked(w, f, id, FALSE, now), Checked(f, x, id, TRUE, now)
  PROVE  Inserted(w, x, id, TRUE, now)
<1> DEFINE n == At(w.list, id)
<1>1. Sound(f) /\ f \in WorkType /\ f.list \in Seq(Item) /\ f.dumps \in Seq(Seq(Item))
  BY DEF Checked, Sound, WorkType
<1>2. n \in DOMAIN w.list /\ w.list[n] \in Item /\ w.list[n].id = id
  BY DEF Checked
<1>3. DOMAIN f.list = DOMAIN w.list /\ f.list[n] = Stamped(w.list, id, FALSE, now)
      /\ \A j \in DOMAIN w.list : j # n => f.list[j] = w.list[j]
  BY <1>2 DEF Checked, ItemEdited
<1>4. f.list[n].id = id
  BY <1>2, <1>3 DEF Stamped, Item
<1>5. At(f.list, id) = n
  BY <1>1, <1>2, <1>3, <1>4, SearchHits DEF At, Sound
<1>6. Stamped(f.list, id, TRUE, now) = Stamped(w.list, id, TRUE, now)
  BY <1>2, <1>3, <1>5 DEF Stamped, Item
<1>7. Inserted(f, x, id, TRUE, now)
  BY <1>1, InsertedOnce
<1>8. SameForm(Cleared(w), x)
  <2>1. SameForm(Cleared(w), f) /\ SameForm(Cleared(f), x) /\ w \in WorkType
    BY DEF Checked, Sound
  <2>2. SameForm(Cleared(w), Cleared(f))
    BY <1>1, <2>1 DEF SameForm, Cleared, WorkType
  <2> QED
    BY <2>1, <2>2 DEF SameForm
<1> HIDE DEF n
<1>9. \A j \in DOMAIN w.list :
        x.list[j] = IF j = n THEN Stamped(w.list, id, TRUE, now) ELSE w.list[j]
  BY <1>3, <1>5, <1>6, <1>7 DEF Inserted
<1> QED
  BY <1>2, <1>3, <1>7, <1>8, <1>9 DEF Inserted, n

LEMMA InsertSound ==
  ASSUME NEW w, NEW id, NEW text, NEW b \in BOOLEAN,
         NEW reports \in Reports(b), NEW now \in Stamps,
         NEW plain, plain = [w EXCEPT !.rows = <<[id |-> id, text |-> text, checked |-> b]>> \o w.rows],
         Sound(plain), id \in IdsOf(plain.rows)
  PROVE  LET x == InsertRow(w, id, text, b, reports, now)
         IN  /\ Sound(x) /\ Len(x.rows) = Len(plain.rows)
             /\ x = plain \/ Inserted(plain, x, id, b, now)
<1> DEFINE first  == OnCheck(plain, id, reports[1], now)
           second == OnCheck(first, id, reports[2], now)
<1>1. CASE reports = <<>>
  BY <1>1 DEF InsertRow
<1>2. CASE reports = <<b>>
  <2>1. InsertRow(w, id, text, b, reports, now) = first /\ reports[1] = b
    BY <1>2 DEF InsertRow
  <2>2. Checked(plain, first, id, b, now)
    BY <2>1, CheckSound
  <2> HIDE DEF first, second
  <2>3. Inserted(plain, first, id, b, now)
    BY <2>2, InsertedOnce
  <2> QED
    BY <2>1, <2>2, <2>3 DEF Checked
<1>3. CASE b = TRUE /\ reports = <<FALSE, TRUE>>
  <2>1. /\ InsertRow(w, id, text, b, reports, now) = second
        /\ reports[1] = FALSE /\ reports[2] = TRUE
    BY <1>3 DEF InsertRow
  <2>2. Checked(plain, first, id, FALSE, now)
    BY <2>1, CheckSound
  <2>3. Sound(first) /\ id \in IdsOf(first.rows)
    BY <2>2 DEF Checked
  <2>4. Checked(first, second, id, TRUE, now)
    <3> HIDE DEF first
    <3> QED
      BY <2>1, <2>3, CheckSound
  <2> HIDE DEF first, second
  <2>5. Inserted(plain, second, id, TRUE, now)
    BY <2>2, <2>4, InsertedTwice
  <2>6. Len(second.rows) = Len(plain.rows) /\ Sound(second)
    BY <2>2, <2>4 DEF Checked
  <2> QED
    BY <1>3, <2>1, <2>5, <2>6
<1> QED
  BY <1>1, <1>2, <1>3 DEF Reports

LEMMA ItemFound ==
  ASSUME NEW w, Sound(w), NEW n \in DOMAIN w.list, NEW id, w.list[n].id = id
  PROVE  At(w.list, id) = n
<1>1. w.list \in Seq(Item) /\ Ordered(w.list, w.tick)
  BY DEF Sound, WorkType
<1> QED
  BY <1>1, SearchHits DEF At

-----------------------------------------------------------------------------
(* What a handler leaves of the list it began with *)

(* The lists differ in item n at most, which keeps its id.                  *)
Alike(old, new, n) ==
  /\ DOMAIN new = DOMAIN old /\ n \in DOMAIN old /\ new[n].id = old[n].id
  /\ \A j \in DOMAIN old : j # n => new[j] = old[j]

(* So do all the lists that were saved on the way.                          *)
Touches(list, x, n) ==
  Alike(list, x.list, n) /\ \A d \in DOMAIN x.dumps : Alike(list, x.dumps[d], n)

LEMMA AlikeSelf ==
  ASSUME NEW list, NEW n \in DOMAIN list
  PROVE  Alike(list, list, n)
BY DEF Alike

LEMMA TouchesSame ==
  ASSUME NEW list, NEW n, NEW w, Touches(list, w, n),
         NEW x, x.list = w.list, x.dumps = w.dumps
  PROVE  Touches(list, x, n)
BY DEF Touches

LEMMA EditTouches ==
  ASSUME NEW list, NEW n, NEW w, Sound(w), Touches(list, w, n),
         NEW x, Sound(x), NEW v, v.id = list[n].id, ItemEdited(w, x, n, v)
  PROVE  Touches(list, x, n)
<1>1. x.list \in Seq(Item) /\ w.dumps \in Seq(Seq(Item))
  BY DEF Sound, WorkType
<1>2. Alike(list, w.list, n)
  BY DEF Touches
<1>3. Alike(list, x.list, n)
  BY <1>2 DEF Alike, ItemEdited
<1>4. x.dumps = Append(w.dumps, x.list)
  BY DEF ItemEdited
<1>5. ASSUME NEW d \in DOMAIN x.dumps
      PROVE  Alike(list, x.dumps[d], n)
  <2>1. x.dumps[d] = x.list \/ (d \in DOMAIN w.dumps /\ x.dumps[d] = w.dumps[d])
    BY <1>1, <1>4, AppendedMembers
  <2> QED
    BY <1>3, <2>1 DEF Touches
<1> QED
  BY <1>3, <1>5 DEF Touches

LEMMA CheckTouches ==
  ASSUME NEW list, NEW n, NEW w, Sound(w), Touches(list, w, n),
         NEW x, NEW b, NEW now, Checked(w, x, list[n].id, b, now)
  PROVE  Touches(list, x, n)
<1> DEFINE id == list[n].id
<1>1. n \in DOMAIN w.list /\ w.list[n].id = id
  BY DEF Touches, Alike
<1>2. At(w.list, id) = n
  BY <1>1, ItemFound
<1>3. /\ Sound(x) /\ ItemEdited(w, x, n, Stamped(w.list, id, b, now))
      /\ w.list[n] \in Item
  BY <1>2 DEF Checked
<1>4. Stamped(w.list, id, b, now).id = id
  BY <1>1, <1>2, <1>3 DEF Stamped, Item
<1> QED
  BY <1>3, <1>4, EditTouches

(* However often the control reports on the new row.                        *)
LEMMA InsertTouches ==
  ASSUME NEW w, NEW text, NEW b \in BOOLEAN,
         NEW list, NEW n, NEW id, id = list[n].id,
         NEW reports \in Reports(b), NEW now \in Stamps,
         NEW plain, plain = [w EXCEPT !.rows = <<[id |-> id, text |-> text, checked |-> b]>> \o w.rows],
         Sound(plain), id \in IdsOf(plain.rows), Touches(list, plain, n)
  PROVE  Touches(list, InsertRow(w, id, text, b, reports, now), n)
<1> DEFINE first  == OnCheck(plain, id, reports[1], now)
           second == OnCheck(first, id, reports[2], now)
<1>1. CASE reports = <<>>
  BY <1>1 DEF InsertRow
<1>2. CASE reports = <<b>>
  <2>1. InsertRow(w, id, text, b, reports, now) = first /\ reports[1] = b
    BY <1>2 DEF InsertRow
  <2>2. Checked(plain, first, id, b, now)
    BY <2>1, CheckSound
  <2> HIDE DEF first
  <2> QED
    BY <2>1, <2>2, CheckTouches
<1>3. CASE b = TRUE /\ reports = <<FALSE, TRUE>>
  <2>1. /\ InsertRow(w, id, text, b, reports, now) = second
        /\ reports[1] = FALSE /\ reports[2] = TRUE
    BY <1>3 DEF InsertRow
  <2>2. Checked(plain, first, id, FALSE, now)
    BY <2>1, CheckSound
  <2>3. Sound(first) /\ id \in IdsOf(first.rows)
    BY <2>2 DEF Checked
  <2>4. Checked(first, second, id, TRUE, now)
    <3> HIDE DEF first
    <3> QED
      BY <2>1, <2>3, CheckSound
  <2> HIDE DEF first, second
  <2>5. Touches(list, first, n)
    BY <2>2, CheckTouches
  <2> QED
    BY <2>1, <2>3, <2>4, <2>5, CheckTouches
<1> QED
  BY <1>1, <1>2, <1>3 DEF Reports

(* With nothing selected the form has no item to write to.                  *)
LEMMA FormWritesNothing ==
  ASSUME NEW w, Sound(w), w.sel = {}
  PROVE  /\ ClearMore(w).list = w.list /\ ClearMore(w).dumps = w.dumps
         /\ \A id \in IdsOf(w.rows) :
              FillToMore(w, id).list = w.list /\ FillToMore(w, id).dumps = w.dumps
<1>1. ASSUME NEW str \in Titles
      PROVE  SetTitle(w, str).list = w.list /\ SetTitle(w, str).dumps = w.dumps
  <2>1. SetTitle(w, str) = Titled(w, str)
    BY SetTitleSound
  <2>2. Titled(w, str).list = w.list /\ Titled(w, str).dumps = w.dumps
    BY TitledSound
  <2> QED
    BY <2>1, <2>2
<1>2. ClearMore(w).list = w.list /\ ClearMore(w).dumps = w.dumps
  <2>1. Empty \in Titles
    BY AppAssumption
  <2> QED
    BY <1>1, <2>1, ClearMoreSound
<1>3. ASSUME NEW id \in IdsOf(w.rows)
      PROVE  FillToMore(w, id).list = w.list /\ FillToMore(w, id).dumps = w.dumps
  <2> DEFINE todo == w.list[At(w.list, id)]
             x == FillToMore(w, id)
  <2>1. todo \in Item /\ FilledFrom(SetTitle(w, todo.text), x, todo.remark, FALSE, id)
    BY FillToMoreSound
  <2>2. todo.text \in Titles
    BY <2>1 DEF Item
  <2> HIDE DEF todo, x
  <2>3. SetTitle(w, todo.text).list = w.list /\ SetTitle(w, todo.text).dumps = w.dumps
    BY <1>1, <2>2
  <2>4. x.list = w.list /\ x.dumps = w.dumps
    BY <2>1, <2>3 DEF FilledFrom
  <2> QED
    BY <2>4 DEF x
<1> QED
  BY <1>2, <1>3

-----------------------------------------------------------------------------
(* The form and the selection *)

(* FormShowsSelection, of a working state. *)
FormOf(w) ==
  ~w.odd /\ w.sel # {} =>
    LET item == w.list[At(w.list, Chosen(w))]
    IN  /\ w.sel = {w.shown} /\ ~w.add
        /\ ClipEdit[w.title] = item.text
        /\ ClipRemark[w.remark] = item.remark

Good(w) == Sound(w) /\ FormOf(w)

LEMMA NothingSelected ==
  ASSUME NEW w, w.sel = {} \/ w.odd
  PROVE  FormOf(w)
BY DEF FormOf

LEMMA SelectionFound ==
  ASSUME NEW w, Sound(w), w.sel # {}
  PROVE  /\ Chosen(w) \in w.sel /\ Chosen(w) \in IdsOf(w.rows)
         /\ ChosenRow(w) \in DOMAIN w.rows /\ w.rows[ChosenRow(w)].id = Chosen(w)
         /\ At(w.list, Chosen(w)) \in DOMAIN w.list
         /\ w.list[At(w.list, Chosen(w))] \in Item
         /\ w.list[At(w.list, Chosen(w))].id = Chosen(w)
<1>1. w \in WorkType /\ w.sel \subseteq IdsOf(w.rows) /\ w.list \in Seq(Item)
  BY DEF Sound, WorkType
<1>2. /\ ChosenRow(w) \in DOMAIN w.rows
      /\ w.rows[ChosenRow(w)].id = Chosen(w) /\ Chosen(w) \in w.sel
  BY <1>1, ChosenSelected
<1>3. /\ At(w.list, Chosen(w)) \in DOMAIN w.list
      /\ w.list[At(w.list, Chosen(w))].id = Chosen(w)
  BY <1>2, RowItem
<1> QED
  BY <1>1, <1>2, <1>3, ElementTyped

(* A change that the form shows as well. *)
LEMMA FormKept ==
  ASSUME NEW w, Good(w), w.sel # {},
         NEW x, Sound(x), x.sel = w.sel, x.odd = w.odd, x.shown = w.shown, x.add = w.add,
         NEW n, n \in DOMAIN x.list, x.list[n].id = Chosen(w),
         ~w.odd => /\ ClipEdit[x.title] = x.list[n].text
                   /\ ClipRemark[x.remark] = x.list[n].remark
  PROVE  FormOf(x)
<1> SUFFICES ASSUME ~w.odd
             PROVE  FormOf(x)
  BY DEF FormOf
<1>1. w.sel = {w.shown} /\ ~w.add /\ Chosen(w) \in w.sel
  BY SelectionFound DEF Good, FormOf
<1>2. Chosen(x) \in x.sel
  BY SelectionFound
<1>3. Chosen(x) = Chosen(w)
  BY <1>1, <1>2
<1>4. At(x.list, Chosen(x)) = n
  BY <1>3, ItemFound
<1> QED
  BY <1>1, <1>4 DEF FormOf

(* The user moves the selection. *)
Moved(w, s, odd) == [w EXCEPT !.sel = s, !.odd = odd]

LEMMA MovedSound ==
  ASSUME NEW w, Sound(w), NEW s, ~w.boot \/ s = {}, s \subseteq IdsOf(w.rows), NEW odd \in BOOLEAN
  PROVE  /\ Sound(Moved(w, s, odd)) /\ Moved(w, s, odd).sel = s /\ Moved(w, s, odd).odd = odd
         /\ Moved(w, s, odd).rows = w.rows /\ Moved(w, s, odd).list = w.list
         /\ Moved(w, s, odd).dumps = w.dumps /\ Moved(w, s, odd).tick = w.tick
         /\ Moved(w, s, odd).boot = w.boot
<1>1. w \in WorkType /\ w.rows \in Seq(Row)
  BY DEF Sound, WorkType
<1>2. s \subseteq Nat
  <2>1. \A i \in DOMAIN w.rows : w.rows[i] \in Row
    BY <1>1, ElementTyped
  <2> QED
    BY <2>1 DEF IdsOf, Row
<1>3. Moved(w, s, odd) \in WorkType
  BY <1>1, <1>2 DEF Moved, WorkType
<1>4. /\ Moved(w, s, odd).sel = s /\ Moved(w, s, odd).odd = odd
      /\ Moved(w, s, odd).rows = w.rows /\ Moved(w, s, odd).list = w.list
      /\ Moved(w, s, odd).dumps = w.dumps /\ Moved(w, s, odd).tick = w.tick
      /\ Moved(w, s, odd).boot = w.boot
  BY <1>1 DEF Moved, WorkType
<1> QED
  BY <1>3, <1>4 DEF Sound

-----------------------------------------------------------------------------
(* Gestures *)

(* A click on a row: the form is the row's item. *)
LEMMA ClickGood ==
  ASSUME NEW w, Sound(w), ~w.boot, NEW id \in IdsOf(w.rows)
  PROVE  Good(FillToMore(Moved(w, {id}, FALSE), id))
<1> DEFINE m == Moved(w, {id}, FALSE)
           n == At(m.list, id)
           todo == m.list[n]
           t == SetTitle(m, todo.text)
           x == FillToMore(m, id)
<1>1. Sound(m) /\ m.sel = {id} /\ m.rows = w.rows
  <2>1. PICK s, odd : s = {id} /\ odd = FALSE
    OBVIOUS
  <2>2. s \subseteq IdsOf(w.rows) /\ odd \in BOOLEAN
    BY <2>1
  <2>3. Sound(Moved(w, s, odd)) /\ Moved(w, s, odd).sel = s
        /\ Moved(w, s, odd).rows = w.rows
    BY <2>2, MovedSound
  <2> QED
    BY <2>1, <2>3
<1>2. Chosen(m) = id
  BY <1>1, SelectionFound
<1> HIDE DEF m
<1>3. /\ todo \in Item /\ todo.id = id /\ n \in DOMAIN m.list
      /\ FilledFrom(t, x, todo.remark, FALSE, id)
      /\ x.sel = {id} /\ x.title = todo.text
  <2>1. id \in IdsOf(m.rows)
    BY <1>1
  <2>2. /\ m.list[At(m.list, id)] \in Item /\ m.list[At(m.list, id)].id = id
        /\ At(m.list, id) \in DOMAIN m.list
        /\ FilledFrom(SetTitle(m, m.list[At(m.list, id)].text), FillToMore(m, id),
                      m.list[At(m.list, id)].remark, FALSE, id)
        /\ FillToMore(m, id).sel = m.sel
        /\ FillToMore(m, id).title = m.list[At(m.list, id)].text
    <3>1. Sound(m)
      BY <1>1
    <3> HIDE DEF n, todo, t, x
    <3> QED
      BY ONLY <2>1, <3>1, FillToMoreSound
  <2> QED
    BY <1>1, <2>2
<1>4. todo.text \in Titles
  BY <1>3 DEF Item
<1>5. ItemEdited(m, t, n, [todo EXCEPT !.text = ClipEdit[todo.text]])
  BY <1>1, <1>2, <1>4, SetTitleSound
<1>6. Sound(x) /\ x.list = t.list /\ x.remark = todo.remark /\ ~x.add /\ x.shown = id
  BY <1>3 DEF FilledFrom
<1>7. /\ n \in DOMAIN x.list /\ x.list[n].id = id
      /\ x.list[n].text = ClipEdit[todo.text] /\ x.list[n].remark = todo.remark
  BY <1>3, <1>5, <1>6 DEF ItemEdited, Item
<1>8. ClipRemark[todo.remark] = todo.remark
  BY <1>1, <1>3 DEF Sound, Clipped
<1> HIDE DEF n, todo, t, x
<1>9. Chosen(x) = id
  BY <1>3, <1>6, SelectionFound
<1>10. At(x.list, id) = n
  BY <1>6, <1>7, ItemFound
<1>11. x.remark = x.list[n].remark /\ ClipRemark[x.remark] = x.list[n].remark
  BY <1>6, <1>7, <1>8
<1>12. ClipEdit[x.title] = x.list[n].text
  BY <1>3, <1>7
<1>13. FormOf(x)
  BY <1>3, <1>6, <1>9, <1>10, <1>11, <1>12 DEF FormOf
<1> QED
  BY <1>6, <1>13 DEF Good, x, m

(* The form is filled over another selection, or none. *)
LEMMA FillGood ==
  ASSUME NEW w, Sound(w), NEW id \in IdsOf(w.rows), w.sel = {} \/ w.odd
  PROVE  /\ Good(FillToMore(w, id)) /\ SameRows(w, FillToMore(w, id))
         /\ FillToMore(w, id).boot = w.boot
<1> DEFINE x == FillToMore(w, id)
<1>1. Sound(x) /\ x.sel = w.sel /\ x.odd = w.odd /\ x.boot = w.boot /\ SameRows(w, x)
  BY FillToMoreSound DEF FilledFrom
<1> HIDE DEF x
<1>2. FormOf(x)
  BY <1>1, NothingSelected
<1> QED
  BY <1>1, <1>2 DEF Good, x

LEMMA ClearGood ==
  ASSUME NEW w, Sound(w), w.sel = {} \/ w.odd
  PROVE  Good(ClearMore(w))
<1> DEFINE x == ClearMore(w)
<1>1. Sound(x) /\ x.sel = w.sel /\ x.odd = w.odd
  BY ClearMoreSound
<1> HIDE DEF x
<1>2. FormOf(x)
  BY <1>1, NothingSelected
<1> QED
  BY <1>1, <1>2 DEF Good, x

LEMMA CheckGood ==
  ASSUME NEW w, Sound(w), NEW id \in IdsOf(w.rows), NEW b \in BOOLEAN, NEW now \in Stamps
  PROVE  /\ Sound(OnCheck(w, id, b, now)) /\ OnCheck(w, id, b, now).sel = {}
         /\ id \in IdsOf(OnCheck(w, id, b, now).rows)
         /\ OnCheck(w, id, b, now).boot = w.boot
<1> DEFINE x == OnCheck(w, id, b, now)
<1>1. Checked(w, x, id, b, now)
  BY CheckSound
<1>2. Cleared(w).sel = {} /\ Cleared(w).boot = w.boot
  BY ClearedSound DEF Sound
<1> HIDE DEF x
<1> QED
  BY <1>1, <1>2 DEF Checked, SameForm, x

(* Typing in the title edit. *)
LEMMA TypeTitleGood ==
  ASSUME NEW w, Good(w), NEW str \in Titles
  PROVE  Good(SetTitle(w, str))
<1> DEFINE x == SetTitle(w, str)
           t == Titled(w, str)
           n == At(w.list, Chosen(w))
<1>1. Sound(w)
  BY DEF Good
<1>2. Sound(x) /\ SameForm(t, x)
  BY <1>1, SetTitleSound
<1>3. /\ t.title = str /\ t.sel = w.sel /\ t.odd = w.odd
      /\ t.shown = w.shown /\ t.add = w.add /\ t.remark = w.remark
  BY <1>1 DEF Titled, Sound, WorkType
<1>4. /\ x.title = str /\ x.sel = w.sel /\ x.odd = w.odd
      /\ x.shown = w.shown /\ x.add = w.add /\ x.remark = w.remark
  BY <1>2, <1>3 DEF SameForm
<1>5. CASE w.sel = {}
  <2> HIDE DEF x
  <2> QED
    BY <1>2, <1>4, <1>5, NothingSelected DEF Good, x
<1>6. CASE w.sel # {}
  <2>1. /\ n \in DOMAIN w.list /\ w.list[n].id = Chosen(w) /\ w.list[n] \in Item
    BY <1>1, <1>6, SelectionFound
  <2>2. ItemEdited(w, x, n, [w.list[n] EXCEPT !.text = ClipEdit[str]])
    BY <1>1, <1>6, SetTitleSound
  <2>3. /\ n \in DOMAIN x.list /\ x.list[n].id = Chosen(w)
        /\ x.list[n].text = ClipEdit[str] /\ x.list[n].remark = w.list[n].remark
    BY <2>1, <2>2 DEF ItemEdited, Item
  <2>4. ~w.odd => ClipRemark[w.remark] = w.list[n].remark
    BY <1>6 DEF Good, FormOf
  <2> HIDE DEF x, n
  <2>5. ~w.odd => /\ ClipEdit[x.title] = x.list[n].text
                  /\ ClipRemark[x.remark] = x.list[n].remark
    BY <1>4, <2>3, <2>4
  <2>6. FormOf(x)
    BY <1>2, <1>4, <1>6, <2>3, <2>5, FormKept
  <2> QED
    BY <1>2, <2>6 DEF Good, x
<1> QED
  BY <1>5, <1>6

(* Typing or picking in the rest of the form: the selected item alone       *)
(* changes, in what no row shows.                                           *)
SameBut(w, x) ==
  /\ x.rows = w.rows /\ x.list = w.list /\ x.sel = w.sel /\ x.odd = w.odd
  /\ x.shown = w.shown /\ x.add = w.add /\ x.title = w.title

FieldEdited(item, v, remark, odd) ==
  /\ v \in Item /\ v.id = item.id /\ v.text = item.text /\ v.status = item.status
  /\ ClipRemark[v.remark] = v.remark
  /\ ~odd => v.remark = ClipRemark[remark]

LEMMA EditGood ==
  ASSUME NEW w, Good(w), w.sel # {}, NEW x, Sound(x), SameBut(w, x), NEW v,
         FieldEdited(w.list[At(w.list, Chosen(w))], v, x.remark, w.odd)
  PROVE  Good(Dumped(x, Replace(w.list, At(w.list, Chosen(w)), v)))
<1> DEFINE n    == At(w.list, Chosen(w))
           list == Replace(w.list, n, v)
           y    == Dumped(x, list)
<1>1. Sound(w) /\ w.list \in Seq(Item)
  BY DEF Good, Sound, WorkType
<1>2. n \in DOMAIN w.list /\ w.list[n].id = Chosen(w)
  BY <1>1, SelectionFound
<1>3. list \in Seq(Item) /\ SameIds(w.list, list)
  BY <1>1, ReplacedItem DEF FieldEdited
<1>4. /\ DOMAIN list = DOMAIN w.list
      /\ \A j \in DOMAIN w.list : list[j] = IF j = n THEN v ELSE w.list[j]
  BY <1>2 DEF Replace
<1> HIDE DEF n, list
<1>5. Clipped(list)
  <2>1. Clipped(w.list)
    BY <1>1 DEF Sound
  <2> QED
    BY <1>4, <2>1 DEF Clipped, FieldEdited
<1>6. \A j \in DOMAIN w.list : RowOf(list[j]) = RowOf(w.list[j])
  BY <1>4 DEF RowOf, FieldEdited, n
<1>7. x.list = w.list /\ SameIds(x.list, list)
  BY <1>3 DEF SameBut
<1>8. Sound(y) /\ SameForm(x, y) /\ y.list = list
  BY <1>3, <1>5, <1>6, <1>7, DumpedSound
<1> HIDE DEF y
<1>9. /\ y.sel = w.sel /\ y.odd = w.odd /\ y.shown = w.shown /\ y.add = w.add
      /\ y.title = w.title /\ y.remark = x.remark
  BY <1>8 DEF SameForm, SameBut
<1>10. n \in DOMAIN y.list /\ y.list[n] = v /\ v.id = Chosen(w)
  BY <1>2, <1>4, <1>8 DEF FieldEdited, n
<1>11. ASSUME ~w.odd
       PROVE  /\ ClipEdit[y.title] = y.list[n].text
              /\ ClipRemark[y.remark] = y.list[n].remark
  <2>1. ClipEdit[w.title] = w.list[n].text
    BY <1>11 DEF Good, FormOf, n
  <2> QED
    BY <1>9, <1>10, <1>11, <2>1 DEF FieldEdited, n
<1>12. FormOf(y)
  BY <1>8, <1>9, <1>10, <1>11, FormKept
<1> QED
  BY <1>8, <1>12 DEF Good, y, list, n

(* A row is inserted for an item of the list that has none yet. *)
LEMMA InsertGood ==
  ASSUME NEW w, NEW id, NEW text, NEW b \in BOOLEAN,
         NEW reports \in Reports(b), NEW now \in Stamps,
         NEW plain, plain = [w EXCEPT !.rows = <<[id |-> id, text |-> text, checked |-> b]>> \o w.rows],
         Sound(plain), id \in IdsOf(plain.rows), plain.sel = {} \/ plain.odd
  PROVE  LET x == InsertRow(w, id, text, b, reports, now)
         IN  Sound(x) /\ (x.sel = {} \/ x.odd)
<1> DEFINE x == InsertRow(w, id, text, b, reports, now)
<1>1. Sound(x) /\ (x = plain \/ Inserted(plain, x, id, b, now))
  BY InsertSound
<1>2. Cleared(plain).sel = {}
  BY ClearedSound DEF Sound
<1> HIDE DEF x
<1> QED
  BY <1>1, <1>2 DEF Inserted, SameForm, x

(* An item is removed with its row, and its selection with it. *)
LEMMA DeleteGood ==
  ASSUME NEW w, Good(w), ~w.boot, w.sel # {}, NEW d,
         d = Dumped(w, RemoveAt(w.list, At(w.list, Chosen(w))))
  PROVE  Good([d EXCEPT !.rows = RemoveAt(@, ChosenRow(w)), !.sel = @ \ {Chosen(w)}])
<1> DEFINE k == ChosenRow(w)
           id == Chosen(w)
           n == At(w.list, id)
           list == RemoveAt(w.list, n)
           rows == RemoveAt(w.rows, k)
           L == Len(w.rows)
           x == [d EXCEPT !.rows = RemoveAt(@, k), !.sel = @ \ {id}]
<1>1. /\ Sound(w) /\ w \in WorkType /\ w.rows \in Seq(Row) /\ w.list \in Seq(Item)
      /\ w.dumps \in Seq(Seq(Item)) /\ w.tick \in Nat /\ w.sel \in SUBSET Nat
  BY DEF Good, Sound, WorkType
<1>2. k \in DOMAIN w.rows /\ w.rows[k].id = id /\ id \in w.sel /\ n \in DOMAIN w.list
  BY <1>1, SelectionFound
<1>3. /\ n = L - k + 1
      /\ \A j \in DOMAIN w.rows : w.rows[j].id = id => j = k
      /\ \A i \in DOMAIN w.rows : /\ L - i + 1 \in DOMAIN w.list
                                  /\ w.rows[i] = RowOf(w.list[L - i + 1])
  <2>1. Mirror(w.rows, w.list) /\ Ordered(w.list, w.tick)
    BY <1>1 DEF Sound
  <2>2. /\ At(w.list, w.rows[k].id) = L - k + 1
        /\ \A j \in DOMAIN w.rows : w.rows[j].id = w.rows[k].id => j = k
    BY <1>1, <1>2, <2>1, MirroredRows
  <2>3. \A i \in DOMAIN w.rows : /\ L - i + 1 \in DOMAIN w.list
                                 /\ w.rows[i] = RowOf(w.list[L - i + 1])
    BY <1>1, <2>1, MirroredRows
  <2> QED
    BY <1>2, <2>2, <2>3
<1>4. /\ x.rows = rows /\ x.list = list /\ x.dumps = Append(w.dumps, list)
      /\ x.sel = w.sel \ {id} /\ x.tick = w.tick /\ x.boot = w.boot /\ x.odd = w.odd
      /\ x.title = w.title /\ x.remark = w.remark /\ x.add = w.add /\ x.shown = w.shown
  BY <1>1 DEF Dumped, WorkType
<1>5. /\ list \in Seq(Item) /\ Len(list) = Len(w.list) - 1
      /\ \A j \in 1..(Len(w.list) - 1) :
           list[j] = IF j < n THEN w.list[j] ELSE w.list[j + 1]
  BY <1>1, <1>2, ErasedList
<1>6. /\ rows \in Seq(Row) /\ Len(rows) = L - 1
      /\ \A j \in 1..(L - 1) : rows[j] = IF j < k THEN w.rows[j] ELSE w.rows[j + 1]
  BY <1>1, <1>2, ErasedList
<1>7. Ordered(list, w.tick)
  BY <1>1, <1>2, ErasedOrdered DEF Sound
<1>8. L \in Nat /\ Len(w.list) = L /\ DOMAIN w.rows = 1..L /\ DOMAIN w.list = 1..L
  BY <1>1, ElementTyped DEF Sound
<1>9. DOMAIN rows = 1..(L - 1) /\ DOMAIN list = 1..(L - 1)
  BY <1>5, <1>6, <1>8, ElementTyped
<1>10. x \in WorkType
  <2>1. Append(w.dumps, list) \in Seq(Seq(Item))
    BY <1>1, <1>5, AppendedLast
  <2>2. x = [w EXCEPT !.list = list, !.dumps = Append(w.dumps, list),
                      !.rows = rows, !.sel = w.sel \ {id}]
    BY <1>1 DEF Dumped, WorkType
  <2> HIDE DEF x, rows, list, id
  <2> QED
    BY <1>1, <1>5, <1>6, <2>1, <2>2 DEF WorkType
<1> HIDE DEF x, rows, list, n, k, id, L
<1>11. Mirror(rows, list)
  <2>1. ASSUME NEW i \in DOMAIN rows
        PROVE  rows[i] = RowOf(list[Len(rows) - i + 1])
    <3> USE <1>8
    <3>0. k \in 1..L /\ n = L - k + 1 /\ i \in 1..(L - 1) /\ Len(rows) = L - 1
      BY <1>2, <1>3, <1>6, <1>9
    <3>1. CASE i < k
      <4>1. /\ i \in 1..L /\ L - i \in 1..(L - 1) /\ ~(L - i < n) /\ i \in 1..(L - 1)
            /\ Len(rows) - i + 1 = L - i
        BY <3>0, <3>1, SMT
      <4>2. rows[i] = w.rows[i] /\ list[L - i] = w.list[L - i + 1]
        BY <1>5, <1>6, <1>8, <3>1, <4>1
      <4> QED
        BY <1>3, <1>8, <4>1, <4>2
    <3>2. CASE ~(i < k)
      <4>1. /\ i + 1 \in 1..L /\ L - i \in 1..(L - 1) /\ L - i < n /\ i \in 1..(L - 1)
            /\ Len(rows) - i + 1 = L - i /\ L - (i + 1) + 1 = L - i
        BY <3>0, <3>2, SMT
      <4>2. rows[i] = w.rows[i + 1] /\ list[L - i] = w.list[L - i]
        BY <1>5, <1>6, <1>8, <3>2, <4>1
      <4> QED
        BY <1>3, <1>8, <4>1, <4>2
    <3> QED
      BY <3>1, <3>2
  <2> QED
    BY <1>5, <1>6, <1>8, <2>1 DEF Mirror
<1>12. x.sel \subseteq IdsOf(rows)
  <2> SUFFICES ASSUME NEW e \in w.sel, e # id
               PROVE  e \in IdsOf(rows)
    BY <1>4
  <2>1. PICK i \in DOMAIN w.rows : w.rows[i].id = e
    BY <1>1 DEF Sound, IdsOf
  <2>2. i # k
    BY <1>2, <2>1
  <2>3. CASE i < k
    <3>1. i \in 1..(L - 1)
      BY <1>2, <1>8, <2>3, SMT
    <3>2. rows[i].id = e
      BY <1>6, <2>1, <2>3, <3>1
    <3> QED
      BY <1>9, <3>1, <3>2 DEF IdsOf
  <2>4. CASE k < i
    <3>1. i - 1 \in 1..(L - 1) /\ ~(i - 1 < k) /\ (i - 1) + 1 = i
      BY <1>2, <1>8, <2>4, SMT
    <3>2. rows[i - 1].id = e
      BY <1>6, <2>1, <3>1
    <3> QED
      BY <1>9, <3>1, <3>2 DEF IdsOf
  <2> QED
    BY <1>2, <1>8, <2>2, <2>3, <2>4, SMT
<1>13. Clipped(list)
  <2>1. ASSUME NEW j \in 1..(L - 1)
        PROVE  \E m \in 1..L : list[j] = w.list[m]
    <3>1. j \in 1..L /\ j + 1 \in 1..L
      BY <1>8, SMT
    <3>2. list[j] = w.list[j] \/ list[j] = w.list[j + 1]
      BY <1>5, <1>8
    <3> QED
      BY <3>1, <3>2
  <2>2. \A j \in DOMAIN list : \E m \in DOMAIN w.list : list[j] = w.list[m]
    BY <1>8, <1>9, <2>1
  <2>3. Clipped(w.list)
    BY <1>1 DEF Sound
  <2> QED
    BY ONLY <2>2, <2>3 DEF Clipped
<1>14. Sound(x)
  <2>1. x.dumps # <<>> /\ Last(x.dumps) = list
    <3>1. w.dumps \in Seq(Seq(Item)) /\ list \in Seq(Item) /\ x.dumps = Append(w.dumps, list)
      BY <1>1, <1>4, <1>5
    <3> QED
      BY <3>1, AppendedLast
  <2>2. \A e \in DOMAIN x.dumps : Clipped(x.dumps[e])
    BY <1>1, <1>4, <1>5, <1>13, AppendedMembers DEF Sound
  <2>3. ~x.boot /\ Len(rows) = Len(list)
    BY <1>4, <1>5, <1>6, <1>8
  <2> QED
    BY <1>4, <1>7, <1>10, <1>11, <1>12, <1>13, <2>1, <2>2, <2>3 DEF Sound
<1>15. x.sel = {} \/ x.odd
  <2>1. w.odd \/ w.sel = {w.shown}
    BY DEF Good, FormOf
  <2> QED
    BY <1>2, <1>4, <2>1
<1>16. FormOf(x)
  BY <1>15, NothingSelected
<1> QED
  BY <1>14, <1>16 DEF Good, x, k, id

-----------------------------------------------------------------------------
(* The inductive invariant *)

FileClipped == \A i \in DOMAIN file.items : ClipRemark[file.items[i].remark] = file.items[i].remark

(* What the file holds is encoded for good; unless a start or a dump could  *)
(* not open it, it is the list, or torn.                                    *)
FileInv ==
  /\ Encoded(file.items)
  /\ file.state = "absent" => file = NoFile
  /\ "unopened" \notin Faults => SavedIsCurrent

AppInv ==
  /\ AppTypeOK /\ IdsOrdered
  /\ Mirror(ui.rows, todos)
  /\ ui.boot => ui.sel = {}
  /\ ~ui.boot => Len(ui.rows) = Len(todos)
  /\ Clipped(todos) /\ FileClipped /\ FileInv
  /\ FormShowsSelection

LEMMA WorkFields ==
  /\ Work.rows = ui.rows /\ Work.sel = ui.sel /\ Work.title = ui.title
  /\ Work.remark = ui.remark /\ Work.deadline = ui.deadline /\ Work.remind = ui.remind
  /\ Work.add = ui.add /\ Work.expanded = ui.expanded /\ Work.boot = ui.boot
  /\ Work.shown = ui.shown /\ Work.odd = ui.odd
  /\ Work.list = todos /\ Work.tick = tick /\ Work.dumps = <<>>
BY DEF Work

(* A handler begins well. *)
LEMMA WorkGood ==
  ASSUME AppInv
  PROVE  Good(Work) /\ Work \in WorkType
<1>1. Work \in WorkType
  <2>1. ui \in UiType /\ todos \in Seq(Item) /\ tick \in Nat
    BY DEF AppInv, AppTypeOK, StoreTypeOK
  <2>2. <<>> \in Seq(Seq(Item))
    OBVIOUS
  <2> QED
    BY <2>1, <2>2 DEF Work, WorkType, UiType
<1>2. Sound(Work)
  <2>1. ui.sel \subseteq IdsOf(ui.rows)
    BY DEF AppInv, AppTypeOK, RowIds, IdsOf
  <2>2. Ordered(todos, tick)
    BY DEF AppInv, IdsOrdered, Ordered
  <2>3. \A d \in DOMAIN <<>> : Clipped(<<>>[d])
    OBVIOUS
  <2> QED
    BY <1>1, <2>1, <2>2, <2>3, WorkFields DEF Sound, AppInv
<1>3. FormOf(Work)
  BY WorkFields DEF AppInv, FormShowsSelection, FormOf
<1> QED
  BY <1>1, <1>2, <1>3 DEF Good

LEMMA FileOfClipped ==
  ASSUME NEW list \in Seq(Item), Clipped(list)
  PROVE  \A i \in DOMAIN WholeFile(list).items :
           ClipRemark[WholeFile(list).items[i].remark] = WholeFile(list).items[i].remark
<1>1. DOMAIN WholeFile(list).items = DOMAIN list
  BY DEF WholeFile, Image
<1>2. ASSUME NEW i \in DOMAIN list
      PROVE  ClipRemark[Reencode[list[i].remark]] = Reencode[list[i].remark]
  <2>1. list[i] \in Item
    BY ElementTyped
  <2>2. list[i].remark \in Remarks
    BY <2>1 DEF Item
  <2>3. list[i].remark = ClipRemark[list[i].remark]
    BY DEF Clipped
  <2> QED
    BY <2>2, <2>3, AppAssumption
<1>3. \A i \in DOMAIN list : WholeFile(list).items[i].remark = Reencode[list[i].remark]
  BY DEF WholeFile, Image, Saved
<1> QED
  BY <1>1, <1>2, <1>3

LEMMA DumpedFile ==
  ASSUME NEW list \in Seq(Item)
  PROVE  Encoded(WholeFile(list).items) /\ WholeFile(list).state = "whole"
BY ImageEncoded DEF WholeFile

(* A fresh window over any loaded list. *)
LEMMA FreshKeeps ==
  ASSUME StoreInv', ui'.rows = <<>>, ui'.sel = {}, ui'.boot = TRUE, ui' \in UiType,
         Clipped(todos)', FileClipped', FileInv'
  PROVE  AppInv'
<1>1. AppTypeOK' /\ IdsOrdered'
  BY DEF StoreInv, AppTypeOK, RowIds
<1>2. Mirror(ui.rows, todos)'
  <2>1. todos' \in Seq(Item)
    BY DEF StoreInv, StoreTypeOK
  <2>2. Len(todos') \in Nat
    BY <2>1, ElementTyped
  <2> QED
    BY <2>2 DEF Mirror
<1>3. FormShowsSelection'
  BY DEF FormShowsSelection
<1> QED
  BY <1>1, <1>2, <1>3 DEF AppInv

LEMMA FreshTyped ==
  /\ FreshUi \in UiType /\ FreshUi.rows = <<>> /\ FreshUi.sel = {} /\ FreshUi.boot = TRUE
  /\ \A b \in BOOLEAN : LET u == [FreshUi EXCEPT !.odd = b]
                        IN  u \in UiType /\ u.rows = <<>> /\ u.sel = {} /\ u.boot = TRUE
<1>1. Empty \in Titles /\ NoRemark \in Remarks /\ 0 \in Times /\ NoItem \in Nat \cup {NoItem}
  BY AppAssumption, StoreAssumption
<1>2. <<>> \in Seq(Row)
  OBVIOUS
<1> QED
  BY <1>1, <1>2 DEF FreshUi, UiType

LEMMA ReturnKeeps ==
  ASSUME AppInv, mode = "run", NEW w, Good(w), Return(w)
  PROVE  AppInv'
<1>1. /\ Sound(w) /\ w \in WorkType /\ w.rows \in Seq(Row) /\ w.list \in Seq(Item)
      /\ w.dumps \in Seq(Seq(Item)) /\ w.tick \in Nat /\ w.odd \in BOOLEAN
  BY DEF Good, Sound, WorkType
<1>2. file \in FileType /\ FileClipped
  BY DEF AppInv, AppTypeOK, StoreTypeOK
<1>3. ASSUME NEW i \in DOMAIN w.dumps
      PROVE  /\ WholeFile(w.dumps[i]) \in FileType
             /\ \A j \in DOMAIN WholeFile(w.dumps[i]).items :
                  ClipRemark[WholeFile(w.dumps[i]).items[j].remark]
                    = WholeFile(w.dumps[i]).items[j].remark
  <2>1. w.dumps[i] \in Seq(Item)
    BY <1>1, ElementTyped
  <2>2. Clipped(w.dumps[i])
    BY <1>1 DEF Sound
  <2> QED
    BY <2>1, <2>2, SavedTyped, FileOfClipped
<1>6. ASSUME w.dumps # <<>>
      PROVE  Len(w.dumps) \in DOMAIN w.dumps /\ Last(w.dumps) = w.dumps[Len(w.dumps)]
  BY <1>1, <1>6, EmptySeq, ElementTyped, SMT DEF Last
<1>7. file' = file \/ file' = TornFile \/ \E i \in DOMAIN w.dumps : file' = WholeFile(w.dumps[i])
  BY <1>6 DEF Return, Left, Written
<1>8. file' \in FileType /\ FileClipped'
  <2>1. CASE file' = file
    BY <1>2, <2>1 DEF FileClipped
  <2>2. CASE file' = TornFile
    BY <2>2 DEF TornFile, FileType, FileClipped
  <2>3. ASSUME NEW i \in DOMAIN w.dumps, file' = WholeFile(w.dumps[i])
        PROVE  file' \in FileType /\ FileClipped'
    BY <1>3, <2>3 DEF FileClipped
  <2> QED
    BY <1>7, <2>1, <2>2, <2>3
<1>9. Encoded(file.items)' /\ (file.state = "absent" => file = NoFile)'
  <2>1. CASE file' = file
    BY <2>1 DEF AppInv, FileInv
  <2>2. CASE file' = TornFile
    BY <2>2 DEF TornFile, Encoded
  <2>3. ASSUME NEW i \in DOMAIN w.dumps, file' = WholeFile(w.dumps[i])
        PROVE  Encoded(file.items)' /\ (file.state = "absent" => file = NoFile)'
    <3>1. w.dumps[i] \in Seq(Item)
      BY <1>1, ElementTyped
    <3> QED
      BY <2>3, <3>1, DumpedFile
  <2> QED
    BY <1>7, <2>1, <2>2, <2>3
<1>4. CASE /\ todos' = w.list /\ tick' = w.tick /\ mode' = mode
           /\ ui' = Controls(w)
           /\ file' \in Left(w)
  <2>1. /\ ui'.rows = w.rows /\ ui'.sel = w.sel /\ ui'.boot = w.boot /\ ui'.odd = w.odd
        /\ ui'.shown = w.shown /\ ui'.add = w.add /\ ui'.title = w.title
        /\ ui'.remark = w.remark /\ ui' \in UiType
    BY <1>1, <1>4 DEF Controls, WorkType, UiType
  <2>3. StoreTypeOK'
    BY <1>1, <1>4, <1>8 DEF StoreTypeOK
  <2>4. AppTypeOK'
    <3>1. w.sel \subseteq IdsOf(w.rows)
      BY <1>1 DEF Sound
    <3> QED
      BY <2>1, <2>3, <3>1 DEF AppTypeOK, RowIds, IdsOf
  <2>5. IdsOrdered'
    <3>1. Ordered(w.list, w.tick)
      BY <1>1 DEF Sound
    <3> QED
      BY <1>4, <3>1 DEF Ordered, IdsOrdered
  <2>6. /\ Mirror(w.rows, w.list) /\ Clipped(w.list)
        /\ w.boot => w.sel = {}
        /\ ~w.boot => Len(w.rows) = Len(w.list)
    BY <1>1 DEF Sound
  <2>7. FormShowsSelection'
    <3>1. Chosen(Work)' = Chosen(w)
      <4>1. Work'.rows = w.rows /\ Work'.sel = w.sel
        BY <2>1 DEF Work
      <4> QED
        BY <4>1 DEF Chosen, ChosenRow
    <3>2. FormOf(w)
      BY DEF Good
    <3> QED
      BY <1>4, <2>1, <3>1, <3>2 DEF FormShowsSelection, FormOf
  <2>8. ASSUME "unopened" \notin Faults
        PROVE  SavedIsCurrent'
    <3>1. CASE w.dumps = <<>>
      <4>1. w.list = todos
        BY <1>1, <3>1 DEF Sound
      <4>2. file' = file
        BY <1>4, <3>1 DEF Left
      <4> QED
        BY <1>4, <2>8, <4>1, <4>2 DEF AppInv, FileInv, SavedIsCurrent, WholeFile, Image
    <3>2. CASE w.dumps # <<>>
      <4>1. WholeFile(Last(w.dumps)) = WholeFile(w.list)
        BY <1>1, <3>2 DEF Sound
      <4>2. file' = WholeFile(w.list) \/ ("short" \in Faults /\ file' = TornFile)
        BY <1>4, <2>8, <3>2, <4>1 DEF Left
      <4> QED
        BY <1>4, <4>2 DEF SavedIsCurrent, WholeFile, Image, TornFile
    <3> QED
      BY <3>1, <3>2
  <2>9. FileInv'
    BY <1>9, <2>8 DEF FileInv
  <2> QED
    BY <1>4, <1>8, <2>1, <2>4, <2>5, <2>6, <2>7, <2>9 DEF AppInv
<1>5. CASE /\ todos' = <<>> /\ tick' = 0 /\ mode' = "off"
           /\ ui' = [FreshUi EXCEPT !.odd = w.odd]
  <2>2. StoreInv'
    BY <1>5, <1>8 DEF StoreInv, StoreTypeOK, IdsOrdered
  <2>3. ui'.rows = <<>> /\ ui'.sel = {} /\ ui'.boot = TRUE /\ ui' \in UiType
    BY <1>1, <1>5, FreshTyped
  <2>4. Clipped(todos)'
    BY <1>5 DEF Clipped
  <2>5. FileInv'
    BY <1>5, <1>9 DEF FileInv, SavedIsCurrent
  <2> QED
    BY <1>8, <2>2, <2>3, <2>4, <2>5, FreshKeeps
<1> QED
  BY <1>4, <1>5 DEF Return

-----------------------------------------------------------------------------
(* Steps *)

(* What a gesture may do to the item that ends up, or not, in the form.     *)
Harmless(old, new, shown) ==
  ~(ui.shown = old.id /\ shown = old.id) =>
    /\ new.remark = old.remark
    /\ new.deadline = old.deadline /\ new.remind = old.remind
    /\ new.text = old.text \/ (shown = old.id /\ new.text = ClipEdit[old.text])

(* A handler rewrites one item, or adds one and rewrites that, or removes   *)
(* one; and so does every dump on the way.                                  *)
OneItem(x) ==
  \/ x.list = todos /\ x.dumps = <<>>
  \/ \E n \in DOMAIN todos :
       Touches(todos, x, n) /\ Harmless(todos[n], x.list[n], x.shown)
  \/ \E item \in Item :
       item.id = tick /\ Touches(Append(todos, item), x, Len(todos) + 1)
  \/ \E n \in DOMAIN todos : x.list = RemoveAt(todos, n) /\ x.dumps = <<x.list>>

(* A gesture is a handler that ends well, having written to one item, or    *)
(* with the form parted from the selection.                                 *)
Gestured ==
  mode = "run" /\ \E x : Good(x) /\ Return(x) /\ (x.odd \/ OneItem(x))

LEMMA GestureKeeps ==
  ASSUME AppInv, Gestured
  PROVE  AppInv'
BY ReturnKeeps DEF Gestured

LEMMA WorkTouches ==
  ASSUME NEW n \in DOMAIN todos, NEW w, w.list = todos, w.dumps = <<>>
  PROVE  Touches(todos, w, n)
<1>1. DOMAIN <<>> = {}
  OBVIOUS
<1> QED
  BY <1>1, AlikeSelf DEF Touches

(* The list of the handler has the item the search finds.                   *)
LEMMA RowOfTodos ==
  ASSUME AppInv, NEW id \in RowIds
  PROVE  /\ Sound(Work) /\ id \in IdsOf(Work.rows)
         /\ At(todos, id) \in DOMAIN todos
         /\ todos[At(todos, id)] \in Item /\ todos[At(todos, id)].id = id
<1>1. Sound(Work) /\ id \in IdsOf(Work.rows)
  BY WorkGood, WorkFields DEF Good, RowIds, IdsOf
<1>2. PICK p \in DOMAIN Work.rows : Work.rows[p].id = id
  BY <1>1 DEF IdsOf
<1>3. /\ At(todos, id) \in DOMAIN todos /\ todos[At(todos, id)].id = id
      /\ todos \in Seq(Item)
  BY <1>1, <1>2, RowItem, WorkFields
<1> QED
  BY <1>1, <1>3, ElementTyped

(* The window with one more row, before the control reports on it. *)
WithRow(w, r) == [w EXCEPT !.rows = <<r>> \o w.rows]

LEMMA ShowNextItemSound ==
  ASSUME AppInv, ui.boot, Len(ui.rows) < Len(todos)
  PROVE  LET todo == todos[Len(ui.rows) + 1]
             plain == WithRow(Work, RowOf(todo))
         IN  /\ todo \in Item /\ todo.status \in BOOLEAN
             /\ RowOf(todo) = [id |-> todo.id, text |-> todo.text, checked |-> todo.status]
             /\ Sound(plain) /\ plain.sel = {} /\ plain.list = todos
             /\ todo.id \in IdsOf(plain.rows)
             /\ At(plain.list, todo.id) = Len(ui.rows) + 1
<1> DEFINE todo == todos[Len(ui.rows) + 1]
           plain == WithRow(Work, RowOf(todo))
           more == <<RowOf(todo)>> \o ui.rows
<1>1. Sound(Work) /\ Work \in WorkType
  BY WorkGood DEF Good
<1>2. ui.rows \in Seq(Row) /\ todos \in Seq(Item) /\ Mirror(ui.rows, todos)
  BY DEF AppInv, AppTypeOK, StoreTypeOK, UiType
<1>3. /\ more \in Seq(Row) /\ Len(more) = Len(ui.rows) + 1
      /\ Mirror(more, todos) /\ IdsOf(ui.rows) \subseteq IdsOf(more)
      /\ todo.id \in IdsOf(more)
  BY <1>2, RowInserted DEF Mirror
<1>4. Len(ui.rows) + 1 \in DOMAIN todos /\ todo \in Item
  BY <1>2, ElementTyped, SMT
<1>5. /\ plain.rows = more /\ plain.sel = {} /\ plain.list = todos /\ plain.tick = tick
      /\ plain.dumps = <<>> /\ plain.boot = TRUE
  <2>1. ui.sel = {} /\ ui.boot \in BOOLEAN
    BY DEF AppInv, AppTypeOK, UiType
  <2> QED
    BY <2>1 DEF WithRow, Work
<1>6. plain \in WorkType
  <2>1. plain = [Work EXCEPT !.rows = more]
    BY DEF WithRow, Work
  <2> HIDE DEF plain, more
  <2> QED
    BY <1>1, <1>3, <2>1 DEF WorkType
<1>7. Ordered(todos, tick) /\ Clipped(todos)
  BY <1>1, WorkFields DEF Sound
<1> HIDE DEF plain, more
<1>8. Sound(plain)
  BY <1>3, <1>5, <1>6, <1>7 DEF Sound
<1>9. At(plain.list, todo.id) = Len(ui.rows) + 1
  BY <1>4, <1>5, <1>8, ItemFound
<1> QED
  BY <1>3, <1>4, <1>5, <1>8, <1>9 DEF plain, RowOf, Item

LEMMA ShowNextItemGestured ==
  ASSUME AppInv, ShowNextItem
  PROVE  Gestured
<1> DEFINE todo == todos[Len(ui.rows) + 1]
           plain == WithRow(Work, RowOf(todo))
<1>1. mode = "run" /\ ui.boot /\ Len(ui.rows) < Len(todos)
  BY DEF ShowNextItem
<1>2. PICK reports \in Reports(todo.status), now \in Stamps :
        Return(InsertRow(Work, todo.id, todo.text, todo.status, reports, now))
  BY DEF ShowNextItem
<1>3. /\ todo.status \in BOOLEAN /\ Sound(plain) /\ plain.sel = {}
      /\ RowOf(todo) = [id |-> todo.id, text |-> todo.text, checked |-> todo.status]
      /\ todo.id \in IdsOf(plain.rows)
  BY <1>1, ShowNextItemSound
<1>4. plain = [Work EXCEPT !.rows = <<[id |-> todo.id, text |-> todo.text,
                                       checked |-> todo.status]>> \o Work.rows]
  BY <1>3 DEF WithRow
<1> DEFINE x == InsertRow(Work, todo.id, todo.text, todo.status, reports, now)
<1> HIDE DEF plain
<1>5. Sound(x) /\ (x.sel = {} \/ x.odd)
  BY <1>2, <1>3, <1>4, InsertGood
<1> HIDE DEF x
<1>6. Good(x)
  BY <1>5, NothingSelected DEF Good
<1>7. OneItem(x)
  <2> DEFINE n == Len(ui.rows) + 1
  <2>1. n \in DOMAIN todos /\ n = At(plain.list, todo.id) /\ plain.list = todos /\ todo \in Item
    BY <1>1, ShowNextItemSound DEF plain, Inserted, Sound
  <2>2. plain.dumps = <<>>
    BY WorkFields DEF plain, WithRow, Work
  <2>3. Touches(todos, plain, n)
    BY <2>1, <2>2, WorkTouches
  <2>4. Touches(todos, x, n)
    BY <1>2, <1>3, <1>4, <2>3, InsertTouches DEF x
  <2>5. x = plain \/ Inserted(plain, x, todo.id, todo.status, now)
    BY <1>2, <1>3, <1>4, InsertSound DEF x
  <2>6. Harmless(todo, x.list[n], x.shown)
    <3>1. CASE x = plain
      BY <2>1, <3>1 DEF Harmless
    <3>2. CASE x # plain
      <4>1. x.list[n] = [todo EXCEPT !.status = todo.status, !.lastmodified = now]
        BY <2>1, <2>5, <3>2 DEF Inserted, Stamped
      <4>2. x.list[n].remark = todo.remark /\ x.list[n].deadline = todo.deadline
            /\ x.list[n].remind = todo.remind /\ x.list[n].text = todo.text
        BY <2>1, <4>1 DEF Item
      <4> QED
        BY <4>2 DEF Harmless
    <3> QED
      BY <3>1, <3>2
  <2> QED
    BY <2>1, <2>4, <2>6 DEF OneItem
<1>8. Return(x)
  BY <1>2 DEF x
<1> QED
  BY <1>1, <1>6, <1>7, <1>8 DEF Gestured

(* add(): the item first, then its row, then the form. *)
LEMMA AddedSound ==
  ASSUME AppInv, ~ui.boot, NEW item \in Item, item.id = tick,
         ClipRemark[item.remark] = item.remark
  PROVE  LET w     == [Dumped(Work, Append(todos, item)) EXCEPT !.tick = tick + 1]
             plain == WithRow(w, RowOf(item))
         IN  /\ Sound(plain) /\ plain.sel = ui.sel /\ plain.odd = ui.odd
             /\ plain.list = Append(todos, item) /\ plain.dumps = <<Append(todos, item)>>
             /\ tick \in IdsOf(plain.rows)
<1> DEFINE list  == Append(todos, item)
           w     == [Dumped(Work, list) EXCEPT !.tick = tick + 1]
           plain == WithRow(w, RowOf(item))
           more  == <<RowOf(item)>> \o ui.rows
<1>1. Sound(Work) /\ Work \in WorkType
  BY WorkGood DEF Good
<1>2. /\ ui.rows \in Seq(Row) /\ todos \in Seq(Item) /\ tick \in Nat
      /\ Mirror(ui.rows, todos) /\ Len(ui.rows) = Len(todos)
  BY DEF AppInv, AppTypeOK, StoreTypeOK, UiType
<1>3. Ordered(todos, tick) /\ Clipped(todos) /\ ui.sel \subseteq IdsOf(ui.rows)
  BY <1>1, WorkFields DEF Sound
<1>4. /\ list \in Seq(Item) /\ Len(list) = Len(todos) + 1
      /\ \A j \in 1..(Len(todos) + 1) :
           list[j] = IF j = Len(todos) + 1 THEN item ELSE todos[j]
  BY <1>2, AppendProperties
<1>5. Ordered(list, tick + 1)
  BY <1>2, <1>3, PushedOrdered
<1> HIDE DEF list
<1>6. /\ DOMAIN ui.rows = 1..Len(ui.rows) /\ Len(todos) \in Nat
      /\ DOMAIN list = 1..(Len(todos) + 1) /\ DOMAIN todos = 1..Len(todos)
  BY <1>2, <1>4, ElementTyped
<1>7. list[Len(ui.rows) + 1] = item
  BY <1>2, <1>4, <1>6, SMT
<1>8. \A i \in DOMAIN ui.rows : ui.rows[i] = RowOf(list[Len(ui.rows) - i + 1])
  <2> SUFFICES ASSUME NEW i \in DOMAIN ui.rows
               PROVE  ui.rows[i] = RowOf(list[Len(ui.rows) - i + 1])
    OBVIOUS
  <2>1. /\ Len(ui.rows) - i + 1 \in 1..(Len(todos) + 1)
        /\ Len(ui.rows) - i + 1 # Len(todos) + 1
    BY <1>2, <1>6, SMT
  <2>2. ui.rows[i] = RowOf(todos[Len(ui.rows) - i + 1])
    BY <1>2 DEF Mirror
  <2> QED
    BY <1>4, <2>1, <2>2
<1>9. /\ more \in Seq(Row) /\ Len(more) = Len(ui.rows) + 1
      /\ Mirror(more, list) /\ IdsOf(ui.rows) \subseteq IdsOf(more) /\ tick \in IdsOf(more)
  <2>1. Len(ui.rows) < Len(list)
    BY <1>2, <1>4, <1>6, SMT
  <2> QED
    BY <1>2, <1>4, <1>7, <1>8, <2>1, RowInserted
<1>10. /\ plain.rows = more /\ plain.sel = ui.sel /\ plain.odd = ui.odd
       /\ plain.list = list /\ plain.dumps = <<list>> /\ plain.tick = tick + 1
       /\ plain.boot = ui.boot
  <2>1. Append(<<>>, list) = <<list>>
    OBVIOUS
  <2> QED
    BY <2>1 DEF WithRow, Dumped, Work
<1>11. plain \in WorkType
  <2>1. plain = [Work EXCEPT !.rows = more, !.list = list, !.dumps = <<list>>, !.tick = tick + 1]
    <3>1. Append(Work.dumps, list) = <<list>>
      BY WorkFields
    <3>2. Dumped(Work, list) = [Work EXCEPT !.list = list, !.dumps = <<list>>]
      BY <3>1 DEF Dumped
    <3> QED
      BY <1>1, <3>2, WorkFields DEF WithRow, WorkType
  <2>2. <<list>> \in Seq(Seq(Item)) /\ tick + 1 \in Nat
    BY <1>2, <1>4
  <2> HIDE DEF plain, more
  <2> QED
    BY <1>1, <1>4, <1>9, <2>1, <2>2 DEF WorkType
<1>12. Clipped(list)
  <2>1. \A j \in DOMAIN todos : ClipRemark[todos[j].remark] = todos[j].remark
    BY <1>3 DEF Clipped
  <2>2. \A j \in DOMAIN list : list[j] = item \/ (j \in DOMAIN todos /\ list[j] = todos[j])
    BY <1>4, <1>6, SMT
  <2> QED
    BY <2>1, <2>2 DEF Clipped
<1> HIDE DEF plain, more
<1>13. Last(<<list>>) = list /\ <<list>> # <<>> /\ \A d \in DOMAIN <<list>> : <<list>>[d] = list
  BY DEF Last
<1>14. Sound(plain)
  <2>1. plain.sel \subseteq IdsOf(plain.rows)
    BY <1>3, <1>9, <1>10
  <2>2. Len(plain.rows) = Len(plain.list) /\ ~plain.boot
    BY <1>2, <1>4, <1>9, <1>10
  <2>3. \A d \in DOMAIN plain.dumps : Clipped(plain.dumps[d])
    BY <1>10, <1>12, <1>13
  <2> QED
    BY <1>5, <1>9, <1>10, <1>11, <1>12, <1>13, <2>1, <2>2, <2>3 DEF Sound
<1> QED
  BY <1>9, <1>10, <1>14 DEF plain, list

LEMMA AddTodoItemGestured ==
  ASSUME AppInv, NEW now \in Stamps, AddTodoItem(now)
  PROVE  Gestured
<1> DEFINE text == ClipAdd[ui.title]
           item == [id |-> tick, text |-> text, remark |-> ClipRemark[ui.remark],
                    status |-> FALSE, lastmodified |-> now, deadline |-> ui.deadline,
                    remind |-> ui.remind, everyday |-> FALSE]
           w == [Dumped(Work, Append(todos, item)) EXCEPT !.tick = tick + 1]
           plain == WithRow(w, RowOf(item))
<1>1. mode = "run" /\ ~ui.boot /\ ui.add
  BY DEF AddTodoItem, Ready
<1>2. PICK reports \in Reports(FALSE) :
        Return(ClearMore(InsertRow(w, tick, text, FALSE, reports, now)))
  BY DEF AddTodoItem
<1>3. item \in Item /\ item.id = tick /\ ClipRemark[item.remark] = item.remark
  <2>1. ui \in UiType /\ tick \in Nat
    BY DEF AppInv, AppTypeOK, StoreTypeOK
  <2>2. /\ ui.title \in Titles /\ ui.remark \in Remarks /\ ui.deadline \in Times
        /\ ui.remind \in Times
    BY <2>1 DEF UiType
  <2>3. text \in Titles /\ ClipRemark[ui.remark] \in Remarks
        /\ ClipRemark[ClipRemark[ui.remark]] = ClipRemark[ui.remark]
    BY <2>2, AppAssumption
  <2> QED
    BY <2>1, <2>2, <2>3 DEF Item
<1>4. RowOf(item) = [id |-> tick, text |-> text, checked |-> FALSE]
  BY DEF RowOf
<1>5. ui.sel = {} \/ ui.odd
  BY <1>1, WorkGood, WorkFields DEF Good, FormOf
<1> HIDE DEF item
<1>6. /\ Sound(plain) /\ tick \in IdsOf(plain.rows)
      /\ plain.sel = ui.sel /\ plain.odd = ui.odd
  BY <1>1, <1>3, AddedSound
<1>7. plain = [w EXCEPT !.rows = <<[id |-> tick, text |-> text, checked |-> FALSE]>> \o w.rows]
  BY <1>4 DEF WithRow
<1> HIDE DEF plain, w
<1>8. PICK b : b = FALSE
  OBVIOUS
<1> DEFINE x == InsertRow(w, tick, text, b, reports, now)
<1>9. Sound(x) /\ (x.sel = {} \/ x.odd)
  BY <1>2, <1>5, <1>6, <1>7, <1>8, InsertGood
<1>10. x = InsertRow(w, tick, text, FALSE, reports, now)
  BY <1>8
<1> HIDE DEF x
<1>11. Good(ClearMore(x))
  BY <1>9, ClearGood
<1>12. Touches(Append(todos, item), x, Len(todos) + 1)
  <2> DEFINE list == Append(todos, item)
             n == Len(todos) + 1
  <2>1. todos \in Seq(Item)
    BY DEF AppInv, AppTypeOK, StoreTypeOK
  <2>2. n \in DOMAIN list /\ list[n] = item
    BY <1>3, <2>1, AppendProperties
  <2>3. plain.list = list /\ plain.dumps = <<list>>
    BY <1>1, <1>3, AddedSound DEF plain, w
  <2> HIDE DEF list, n
  <2>4. Touches(list, plain, n)
    BY <2>2, <2>3, AlikeSelf DEF Touches
  <2>5. tick = list[n].id /\ b \in BOOLEAN
    BY <1>3, <1>8, <2>2
  <2>6. Touches(list, x, n)
    BY <1>2, <1>6, <1>7, <1>8, <2>4, <2>5, InsertTouches DEF x
  <2> QED
    BY <2>6 DEF list, n
<1>13. ClearMore(x).odd \/ OneItem(ClearMore(x))
  <2>1. CASE x.odd
    BY <1>9, <2>1, ClearMoreSound
  <2>2. CASE ~x.odd
    <3>1. ClearMore(x).list = x.list /\ ClearMore(x).dumps = x.dumps
      BY <1>9, <2>2, FormWritesNothing
    <3>2. Touches(Append(todos, item), ClearMore(x), Len(todos) + 1)
      BY <1>12, <3>1, TouchesSame
    <3> QED
      BY <1>3, <3>2 DEF OneItem
  <2> QED
    BY <2>1, <2>2
<1>14. Return(ClearMore(x))
  BY <1>2, <1>10
<1> QED
  BY <1>1, <1>11, <1>13, <1>14 DEF Gestured

(* The list is still as it was when a row is checked or unchecked.          *)
LEMMA CheckOneItem ==
  ASSUME AppInv, NEW id \in RowIds, NEW b \in BOOLEAN, NEW now \in Stamps,
         NEW w, Sound(w), id \in IdsOf(w.rows), w.list = todos, w.dumps = <<>>,
         NEW x, x.list = OnCheck(w, id, b, now).list, x.dumps = OnCheck(w, id, b, now).dumps
  PROVE  OneItem(x)
<1> DEFINE n == At(todos, id)
           c == OnCheck(w, id, b, now)
<1>1. n \in DOMAIN todos /\ todos[n] \in Item /\ todos[n].id = id
  BY RowOfTodos
<1>2. Checked(w, c, id, b, now)
  BY CheckSound
<1>3. Touches(todos, w, n)
  BY <1>1, WorkTouches
<1> HIDE DEF c, n
<1>4. Touches(todos, x, n)
  BY <1>1, <1>2, <1>3, CheckTouches, TouchesSame DEF c
<1>5. x.list[n] = [todos[n] EXCEPT !.status = b, !.lastmodified = now]
  BY <1>1, <1>2 DEF Checked, ItemEdited, Stamped, c, n
<1>6. /\ x.list[n].remark = todos[n].remark /\ x.list[n].deadline = todos[n].deadline
      /\ x.list[n].remind = todos[n].remind /\ x.list[n].text = todos[n].text
  BY <1>1, <1>5 DEF Item
<1> QED
  BY <1>1, <1>4, <1>6 DEF OneItem, Harmless

LEMMA CheckRowGestured ==
  ASSUME AppInv, NEW id \in RowIds, NEW now \in Stamps, CheckRow(id, now)
  PROVE  Gestured
<1> DEFINE b == ~todos[At(todos, id)].status
           f == FillToMore(Work, id)
           x == OnCheck(Work, id, b, now)
           y == OnCheck(f, id, b, now)
<1>1. mode = "run" /\ ~ui.boot /\ b \in BOOLEAN
  BY DEF CheckRow, Ready
<1>2. Sound(Work) /\ id \in IdsOf(Work.rows) /\ Work.boot = ui.boot
  BY WorkGood, WorkFields DEF Good, RowIds, IdsOf
<1>3. CASE Return(FillToMore(x, id))
  <2>1. Sound(x) /\ x.sel = {} /\ id \in IdsOf(x.rows)
    BY <1>1, <1>2, CheckGood
  <2> HIDE DEF x
  <2>2. Good(FillToMore(x, id))
    BY <2>1, FillGood
  <2>3. FillToMore(x, id).list = x.list /\ FillToMore(x, id).dumps = x.dumps
    BY <2>1, FormWritesNothing
  <2>4. OneItem(FillToMore(x, id))
    <3> HIDE DEF b
    <3> QED
      BY <1>1, <1>2, <2>3, WorkFields, CheckOneItem DEF x
  <2> QED
    BY <1>1, <1>3, <2>2, <2>4 DEF Gestured
<1>4. CASE Return([y EXCEPT !.odd = ui.sel # {}])
  <2>1. Sound(f) /\ SameRows(Work, f) /\ f.boot = Work.boot
    BY <1>2, FillToMoreSound DEF FilledFrom
  <2>2. id \in IdsOf(f.rows)
    BY <1>2, <2>1 DEF SameRows
  <2> HIDE DEF f
  <2>3. Sound(y) /\ y.sel = {} /\ y.boot = f.boot
    <3> HIDE DEF b
    <3> QED
      BY <1>1, <2>1, <2>2, CheckGood
  <2> DEFINE z == [y EXCEPT !.odd = ui.sel # {}]
  <2> HIDE DEF y
  <2>4. /\ z \in WorkType /\ z.sel = {} /\ z.rows = y.rows /\ z.list = y.list
        /\ z.tick = y.tick /\ z.dumps = y.dumps /\ z.boot = y.boot
    <3>1. y \in WorkType /\ (ui.sel # {}) \in BOOLEAN
      BY <2>3 DEF Sound
    <3> QED
      BY <2>3, <3>1 DEF WorkType
  <2> HIDE DEF z
  <2>5. Sound(z) /\ FormOf(z)
    BY <2>3, <2>4, FormAside, NothingSelected
  <2>6. z.odd = (ui.sel # {})
    BY <2>3 DEF z, Sound, WorkType
  <2>7. CASE ui.sel = {}
    <3>1. f.list = todos /\ f.dumps = <<>>
      BY <1>2, <2>7, WorkFields, FormWritesNothing DEF f
    <3>2. OneItem(z)
      <4> HIDE DEF b
      <4> QED
        BY <1>1, <2>1, <2>2, <2>4, <3>1, CheckOneItem DEF y
    <3> QED
      BY <1>1, <1>4, <2>5, <3>2 DEF z, Good, Gestured
  <2>8. CASE ui.sel # {}
    BY <1>1, <1>4, <2>5, <2>6, <2>8 DEF z, Good, Gestured
  <2> QED
    BY <2>7, <2>8
<1> QED
  BY <1>3, <1>4 DEF CheckRow

(* The item an edit of the form is written to. *)
LEMMA FieldsEdited ==
  ASSUME AppInv, ui.sel # {}
  PROVE  LET item == todos[At(todos, Chosen(Work))]
         IN  /\ \A str \in Remarks :
                  FieldEdited(item, [item EXCEPT !.remark = ClipRemark[str]], str, ui.odd)
             /\ \A t \in Times :
                  /\ FieldEdited(item, [item EXCEPT !.deadline = t], ui.remark, ui.odd)
                  /\ FieldEdited(item, [item EXCEPT !.remind = t], ui.remark, ui.odd)
<1> DEFINE item == todos[At(todos, Chosen(Work))]
<1>1. At(todos, Chosen(Work)) \in DOMAIN todos /\ item \in Item
  BY WorkGood, WorkFields, SelectionFound DEF Good
<1>2. ClipRemark[item.remark] = item.remark
  BY <1>1 DEF AppInv, Clipped
<1>3. ~ui.odd => ClipRemark[ui.remark] = item.remark
  BY DEF AppInv, FormShowsSelection
<1> HIDE DEF item
<1>4. ASSUME NEW str \in Remarks
      PROVE  FieldEdited(item, [item EXCEPT !.remark = ClipRemark[str]], str, ui.odd)
  <2>1. ClipRemark[str] \in Remarks /\ ClipRemark[ClipRemark[str]] = ClipRemark[str]
    BY AppAssumption
  <2> QED
    BY <1>1, <2>1 DEF FieldEdited, Item
<1>5. ASSUME NEW t \in Times
      PROVE  /\ FieldEdited(item, [item EXCEPT !.deadline = t], ui.remark, ui.odd)
             /\ FieldEdited(item, [item EXCEPT !.remind = t], ui.remark, ui.odd)
  BY <1>1, <1>2, <1>3 DEF FieldEdited, Item
<1> QED
  BY <1>4, <1>5 DEF item

LEMMA EditGestured ==
  ASSUME AppInv, Ready, NEW x \in WorkType, SameBut(Work, x),
         x.tick = tick, x.dumps = <<>>, x.boot = ui.boot,
         NEW v, ui.sel # {} => FieldEdited(todos[At(todos, Chosen(Work))], v, x.remark, ui.odd),
         ui.sel = {} => Return(x),
         ui.sel # {} => Return(Dumped(x, Replace(todos, At(todos, Chosen(Work)), v)))
  PROVE  Gestured
<1>1. Good(Work) /\ Sound(Work)
  BY WorkGood DEF Good
<1>2. Sound(x) /\ x.sel = ui.sel
  BY <1>1, WorkFields, FormAside DEF SameBut
<1>3. mode = "run"
  BY DEF Ready
<1>4. CASE ui.sel = {}
  <2>1. Good(x)
    BY <1>2, <1>4, NothingSelected DEF Good
  <2>2. OneItem(x)
    BY WorkFields DEF OneItem, SameBut
  <2> QED
    BY <1>3, <1>4, <2>1, <2>2 DEF Gestured
<1>5. CASE ui.sel # {}
  <2> DEFINE n == At(todos, Chosen(Work))
             list == Replace(todos, n, v)
             y == Dumped(x, list)
  <2>1. Good(y)
    <3>1. Good(Dumped(x, Replace(Work.list, At(Work.list, Chosen(Work)), v)))
      BY <1>1, <1>2, <1>5, WorkFields, EditGood
    <3> QED
      BY <3>1, WorkFields
  <2>2. /\ n \in DOMAIN todos /\ todos[n] \in Item /\ todos[n].id = Chosen(Work)
        /\ Chosen(Work) \in ui.sel
    BY <1>1, <1>5, WorkFields, SelectionFound
  <2>3. v.id = todos[n].id
    BY <1>5 DEF FieldEdited
  <2>4. /\ y.list = list /\ y.dumps = <<list>> /\ y.odd = ui.odd /\ y.shown = ui.shown
    <3>1. Append(<<>>, list) = <<list>> /\ x.odd = ui.odd /\ x.shown = ui.shown
      BY WorkFields DEF SameBut
    <3> HIDE DEF list
    <3> QED
      BY <3>1 DEF Dumped, WorkType
  <2>5. Alike(todos, list, n) /\ list[n] = v
    BY <2>2, <2>3 DEF Alike, Replace
  <2>6. Touches(todos, y, n)
    BY <2>4, <2>5 DEF Touches
  <2>7. ASSUME ~ui.odd
        PROVE  ui.shown = todos[n].id
    BY <1>5, <2>2, <2>7 DEF AppInv, FormShowsSelection
  <2> HIDE DEF n, y, list
  <2>8. y.odd \/ OneItem(y)
    BY <2>2, <2>4, <2>6, <2>7 DEF OneItem, Harmless
  <2> QED
    BY <1>3, <1>5, <2>1, <2>8 DEF Gestured, n, y, list
<1> QED
  BY <1>4, <1>5

LEMMA TypeRemarkGestured ==
  ASSUME AppInv, NEW str \in Remarks, TypeRemark(str)
  PROVE  Gestured
<1> DEFINE x == [Work EXCEPT !.remark = str]
           n == At(todos, Chosen(Work))
           v == [todos[n] EXCEPT !.remark = ClipRemark[str]]
<1>1. Ready
  BY DEF TypeRemark
<1>2. /\ x \in WorkType /\ SameBut(Work, x) /\ x.tick = tick /\ x.dumps = <<>>
      /\ x.boot = ui.boot /\ x.remark = str /\ x.sel = ui.sel /\ x.list = todos
  <2>1. Work \in WorkType
    BY WorkGood
  <2>2. x \in WorkType
    BY <2>1 DEF WorkType
  <2> QED
    BY <2>2 DEF Work, SameBut
<1>3. Return(IF x.sel = {} THEN x ELSE Dumped(x, WithRemark(x.list, Chosen(x), ClipRemark[str])))
  BY DEF TypeRemark
<1>4. Chosen(x) = Chosen(Work)
  BY <1>2, ChosenSame DEF SameBut
<1>5. ui.sel # {} => FieldEdited(todos[n], v, x.remark, ui.odd)
  BY <1>2, FieldsEdited
<1> HIDE DEF x
<1>6. ui.sel = {} => Return(x)
  BY <1>2, <1>3
<1>7. ui.sel # {} => Return(Dumped(x, Replace(todos, n, v)))
  BY <1>2, <1>3, <1>4 DEF WithRemark, Replace
<1> HIDE DEF v
<1> QED
  BY <1>1, <1>2, <1>5, <1>6, <1>7, EditGestured

LEMMA PickDeadlineGestured ==
  ASSUME AppInv, NEW t \in Times, PickDeadline(t)
  PROVE  Gestured
<1> DEFINE x == [Work EXCEPT !.deadline = t]
           n == At(todos, Chosen(Work))
<1>1. Ready
  BY DEF PickDeadline
<1>2. /\ x \in WorkType /\ SameBut(Work, x) /\ x.tick = tick /\ x.dumps = <<>>
      /\ x.boot = ui.boot /\ x.remark = ui.remark /\ x.sel = ui.sel /\ x.list = todos
  <2>1. Work \in WorkType
    BY WorkGood
  <2>2. x \in WorkType
    BY <2>1 DEF WorkType
  <2> QED
    BY <2>2 DEF Work, SameBut
<1>3. PICK stamp \in Timestamps(t) :
        Return(IF x.sel = {} THEN x ELSE Dumped(x, WithDeadline(x.list, Chosen(x), stamp)))
  BY DEF PickDeadline
<1>4. Chosen(x) = Chosen(Work)
  BY <1>2, ChosenSame DEF SameBut
<1> DEFINE v == [todos[n] EXCEPT !.deadline = stamp]
<1>5. ui.sel # {} => FieldEdited(todos[n], v, x.remark, ui.odd)
  BY <1>2, <1>3, FieldsEdited DEF Timestamps
<1> HIDE DEF x
<1>6. ui.sel = {} => Return(x)
  BY <1>2, <1>3
<1>7. ui.sel # {} => Return(Dumped(x, Replace(todos, n, v)))
  BY <1>2, <1>3, <1>4 DEF WithDeadline, Replace
<1> HIDE DEF v
<1> QED
  BY <1>1, <1>2, <1>5, <1>6, <1>7, EditGestured

LEMMA PickRemindGestured ==
  ASSUME AppInv, NEW t \in Times, PickRemind(t)
  PROVE  Gestured
<1> DEFINE x == [Work EXCEPT !.remind = t]
           n == At(todos, Chosen(Work))
<1>1. Ready
  BY DEF PickRemind
<1>2. /\ x \in WorkType /\ SameBut(Work, x) /\ x.tick = tick /\ x.dumps = <<>>
      /\ x.boot = ui.boot /\ x.remark = ui.remark /\ x.sel = ui.sel /\ x.list = todos
  <2>1. Work \in WorkType
    BY WorkGood
  <2>2. x \in WorkType
    BY <2>1 DEF WorkType
  <2> QED
    BY <2>2 DEF Work, SameBut
<1>3. PICK stamp \in Timestamps(t) :
        Return(IF x.sel = {} THEN x ELSE Dumped(x, WithRemind(x.list, Chosen(x), stamp)))
  BY DEF PickRemind
<1>4. Chosen(x) = Chosen(Work)
  BY <1>2, ChosenSame DEF SameBut
<1> DEFINE v == [todos[n] EXCEPT !.remind = stamp]
<1>5. ui.sel # {} => FieldEdited(todos[n], v, x.remark, ui.odd)
  BY <1>2, <1>3, FieldsEdited DEF Timestamps
<1> HIDE DEF x
<1>6. ui.sel = {} => Return(x)
  BY <1>2, <1>3
<1>7. ui.sel # {} => Return(Dumped(x, Replace(todos, n, v)))
  BY <1>2, <1>3, <1>4 DEF WithRemind, Replace
<1> HIDE DEF v
<1> QED
  BY <1>1, <1>2, <1>5, <1>6, <1>7, EditGestured

LEMMA ArrowKeeps ==
  ASSUME AppInv, NEW id \in RowIds, ArrowTo(id)
  PROVE  AppInv'
<1>1. /\ ~ui.boot /\ ui' = [ui EXCEPT !.sel = {id}, !.odd = TRUE]
      /\ todos' = todos /\ tick' = tick /\ file' = file /\ mode' = mode
  BY DEF ArrowTo, Ready, storeVars
<1>2. ui \in UiType /\ id \in Nat
  <2>1. ui \in UiType /\ ui.rows \in Seq(Row)
    BY DEF AppInv, AppTypeOK, UiType
  <2>2. \A i \in DOMAIN ui.rows : ui.rows[i] \in Row
    BY <2>1, ElementTyped
  <2>3. \A i \in DOMAIN ui.rows : ui.rows[i].id \in Nat
    BY <2>2 DEF Row
  <2> QED
    BY <2>1, <2>3 DEF RowIds
<1>3. /\ ui'.rows = ui.rows /\ ui'.sel = {id} /\ ui'.odd = TRUE /\ ui'.boot = ui.boot
      /\ ui' \in UiType
  BY <1>1, <1>2 DEF UiType
<1>4. AppTypeOK' /\ IdsOrdered'
  BY <1>1, <1>3 DEF AppInv, AppTypeOK, StoreTypeOK, IdsOrdered, RowIds
<1>5. FormShowsSelection'
  BY <1>3 DEF FormShowsSelection
<1> QED
  BY <1>1, <1>3, <1>4, <1>5 DEF AppInv, FileClipped, FileInv, Encoded,
     SavedIsCurrent, WholeFile, Image

LEMMA StartLoopKeeps ==
  ASSUME AppInv, StartLoop
  PROVE  AppInv'
<1>1. /\ ui.boot /\ Len(ui.rows) = Len(todos) /\ ui' = [ui EXCEPT !.boot = FALSE]
      /\ todos' = todos /\ tick' = tick /\ file' = file /\ mode' = mode
  BY DEF StartLoop, storeVars
<1>2. ui \in UiType /\ ui.sel = {}
  BY <1>1 DEF AppInv, AppTypeOK
<1>3. ui'.rows = ui.rows /\ ui'.sel = {} /\ ui' \in UiType
  BY <1>1, <1>2 DEF UiType
<1>4. AppTypeOK' /\ IdsOrdered'
  BY <1>1, <1>3 DEF AppInv, AppTypeOK, StoreTypeOK, IdsOrdered, RowIds
<1>5. FormShowsSelection'
  BY <1>3 DEF FormShowsSelection
<1> QED
  BY <1>1, <1>3, <1>4, <1>5 DEF AppInv, FileClipped, FileInv, Encoded,
     SavedIsCurrent, WholeFile, Image

LEMMA ExitKeeps ==
  ASSUME AppInv, Exit
  PROVE  AppInv'
<1>1. todos' = <<>> /\ tick' = 0 /\ mode' = "off" /\ file' = file /\ ui' = FreshUi
  BY DEF Exit, Quit
<1>2. StoreInv'
  BY <1>1 DEF AppInv, AppTypeOK, StoreInv, StoreTypeOK, IdsOrdered
<1>3. Clipped(todos)' /\ FileClipped'
  BY <1>1 DEF Clipped, FileClipped, AppInv
<1>4. FileInv'
  BY <1>1 DEF FileInv, SavedIsCurrent, Encoded, AppInv
<1> QED
  BY <1>1, <1>2, <1>3, <1>4, FreshTyped, FreshKeeps

LEMMA LaunchKeeps ==
  ASSUME AppInv, Launch
  PROVE  AppInv'
<1>1. Load /\ ui' = FreshUi /\ file' = file
  BY DEF Launch, Load
<1>2. StoreInv'
  BY <1>1, LoadKeeps DEF AppInv, AppTypeOK, StoreInv
<1>3. FileClipped'
  BY <1>1 DEF FileClipped, AppInv
<1>4. Clipped(todos)'
  <2>1. CASE todos' = Loaded(file.items)
    <3>1. /\ DOMAIN Loaded(file.items) = DOMAIN file.items
          /\ \A i \in DOMAIN file.items : Loaded(file.items)[i].remark = file.items[i].remark
      BY DEF Loaded, Restored
    <3> QED
      BY <2>1, <3>1 DEF Clipped, FileClipped, AppInv
  <2>2. CASE todos' = <<>>
    BY <2>2 DEF Clipped
  <2> QED
    BY <1>1, <2>1, <2>2 DEF Load
<1>5. Encoded(file.items)' /\ (file.state = "absent" => file = NoFile)'
  BY <1>1 DEF AppInv, FileInv, Encoded
<1>6. ASSUME "unopened" \notin Faults
      PROVE  SavedIsCurrent'
  <2>1. CASE file.state = "whole" /\ todos' = Loaded(file.items)
    <3>1. file.items \in Seq(SavedItem) /\ file = [state |-> "whole", items |-> file.items]
      BY <2>1 DEF AppInv, AppTypeOK, StoreTypeOK, FileType
    <3>2. Image(todos') = file.items
      BY <2>1, <3>1, ReloadedImage DEF AppInv, FileInv
    <3>3. WholeFile(todos') = file
      BY <3>1, <3>2 DEF WholeFile
    <3> QED
      BY <1>1, <3>3 DEF SavedIsCurrent, WholeFile, Image
  <2>2. CASE file.state = "absent" /\ todos' = <<>>
    BY <1>1, <2>2 DEF AppInv, FileInv, SavedIsCurrent
  <2>3. CASE mode' = "dead"
    BY <2>3 DEF SavedIsCurrent
  <2> QED
    BY <1>1, <1>6, <2>1, <2>2, <2>3 DEF Load
<1>7. FileInv'
  BY <1>5, <1>6 DEF FileInv
<1> QED
  BY <1>1, <1>2, <1>3, <1>4, <1>7, FreshTyped, FreshKeeps

(* A click on a row, with or without Ctrl, or on its second column. *)
LEMMA ClickGestured ==
  ASSUME AppInv, NEW id \in RowIds, ClickRow(id) \/ ClickColumn1(id) \/ CtrlClickRow(id)
  PROVE  Gestured
<1>1. mode = "run" /\ ~ui.boot
  BY DEF ClickRow, ClickColumn1, CtrlClickRow, Ready
<1>2. Sound(Work) /\ id \in IdsOf(Work.rows) /\ ~Work.boot /\ Work.sel \subseteq IdsOf(Work.rows)
  BY <1>1, WorkGood, WorkFields DEF Good, RowIds, IdsOf, Sound
<1>3. CASE ClickRow(id)
  <2> DEFINE m == Moved(Work, {id}, FALSE)
             x == FillToMore(m, id)
             n == At(todos, id)
             t == SetTitle(m, todos[n].text)
  <2>1. Good(x)
    BY <1>2, ClickGood
  <2>2. /\ n \in DOMAIN todos /\ todos[n] \in Item /\ todos[n].id = id
        /\ todos[n].text \in Titles
    BY RowOfTodos DEF Item
  <2>3. /\ Sound(m) /\ m.sel = {id} /\ m.rows = Work.rows /\ m.list = todos
        /\ m.dumps = <<>>
    <3>1. PICK s, odd : s = {id} /\ odd = FALSE
      OBVIOUS
    <3>2. s \subseteq IdsOf(Work.rows) /\ odd \in BOOLEAN
      BY <1>2, <3>1
    <3>3. /\ Sound(Moved(Work, s, odd)) /\ Moved(Work, s, odd).sel = s
          /\ Moved(Work, s, odd).rows = Work.rows /\ Moved(Work, s, odd).list = Work.list
          /\ Moved(Work, s, odd).dumps = Work.dumps
      BY <1>2, <3>2, MovedSound
    <3> QED
      BY <3>1, <3>3, WorkFields
  <2>4. Chosen(m) = id
    BY <2>3, SelectionFound
  <2> HIDE DEF m
  <2>5. Sound(t) /\ ItemEdited(m, t, n, [todos[n] EXCEPT !.text = ClipEdit[todos[n].text]])
    BY <2>2, <2>3, <2>4, SetTitleSound
  <2>6. x.list = t.list /\ x.dumps = t.dumps /\ x.shown = id
    <3>1. id \in IdsOf(m.rows) /\ m.list[At(m.list, id)] = todos[n]
      BY <1>2, <2>3
    <3> DEFINE todo == m.list[At(m.list, id)]
    <3>2. FilledFrom(SetTitle(m, todo.text), x, todo.remark, FALSE, id)
      BY <2>3, <3>1, FillToMoreSound
    <3>3. FilledFrom(t, x, todo.remark, FALSE, id)
      BY <3>1, <3>2
    <3> HIDE DEF todo, t, x
    <3> QED
      BY <3>3 DEF FilledFrom
  <2> HIDE DEF t, x, n
  <2>7. /\ x.list[n] = [todos[n] EXCEPT !.text = ClipEdit[todos[n].text]]
    BY <2>2, <2>3, <2>5, <2>6 DEF ItemEdited
  <2>8. [todos[n] EXCEPT !.text = ClipEdit[todos[n].text]].id = todos[n].id
    BY <2>2 DEF Item
  <2>9. Touches(todos, x, n)
    BY <2>2, <2>3, <2>5, <2>6, <2>8, WorkTouches, EditTouches, TouchesSame
  <2>10. Harmless(todos[n], x.list[n], x.shown)
    BY <2>2, <2>6, <2>7 DEF Harmless, Item
  <2>11. OneItem(x)
    BY <2>2, <2>9, <2>10 DEF OneItem
  <2>12. Return(x)
    BY <1>3 DEF ClickRow, Moved, x, m
  <2> QED
    BY <1>1, <2>1, <2>11, <2>12 DEF Gestured
<1>4. CASE ClickColumn1(id) \/ CtrlClickRow(id)
  <2>1. PICK s, odd :
          /\ s \subseteq IdsOf(Work.rows) /\ odd \in BOOLEAN /\ (s = {} \/ odd)
          /\ Return(FillToMore(Moved(Work, s, odd), id))
    <3>1. CASE ClickColumn1(id)
      <4>1. /\ {} \subseteq IdsOf(Work.rows) /\ FALSE \in BOOLEAN
            /\ Return(FillToMore(Moved(Work, {}, FALSE), id))
        BY <3>1 DEF ClickColumn1, DeselectAll, Moved
      <4> QED
        BY <4>1
    <3>2. CASE CtrlClickRow(id)
      <4> DEFINE toggled == IF id \in ui.sel THEN ui.sel \ {id} ELSE ui.sel \cup {id}
      <4>1. toggled \subseteq IdsOf(Work.rows)
        BY <1>2, WorkFields
      <4>2. Return(FillToMore(Moved(Work, toggled, toggled # {}), id))
        BY <3>2 DEF CtrlClickRow, Moved
      <4> HIDE DEF toggled
      <4>3. PICK odd : odd = (toggled # {})
        OBVIOUS
      <4>4. odd \in BOOLEAN /\ (toggled = {} \/ odd)
        BY <4>3
      <4> QED
        BY <4>1, <4>2, <4>3, <4>4
    <3> QED
      BY <1>4, <3>1, <3>2
  <2> DEFINE m == Moved(Work, s, odd)
  <2>2. /\ Sound(m) /\ m.sel = s /\ m.odd = odd /\ m.rows = Work.rows
        /\ m.list = todos /\ m.dumps = <<>>
    BY <1>2, <2>1, WorkFields, MovedSound
  <2> HIDE DEF m
  <2>3. Good(FillToMore(m, id))
    BY <1>2, <2>1, <2>2, FillGood
  <2>4. FillToMore(m, id).odd \/ OneItem(FillToMore(m, id))
    <3>1. CASE s = {}
      BY <1>2, <2>2, <3>1, FormWritesNothing DEF OneItem
    <3>2. CASE odd
      BY <1>2, <2>2, <3>2, FillToMoreSound
    <3> QED
      BY <2>1, <3>1, <3>2
  <2> QED
    BY <1>1, <2>1, <2>3, <2>4 DEF m, Gestured
<1> QED
  BY <1>3, <1>4

(* A click below the rows, or collapsing the form. *)
LEMMA BlankGestured ==
  ASSUME AppInv, ClickBlank \/ CtrlClickBlank \/ ToggleExpand
  PROVE  Gestured
<1>1. mode = "run" /\ ~ui.boot
  BY DEF ClickBlank, CtrlClickBlank, ToggleExpand, Ready
<1>2. Good(Work) /\ Sound(Work) /\ Work \in WorkType
  BY WorkGood DEF Good
<1>3. CASE ClickBlank
  <2>1. Return(Cleared(Work))
    BY <1>2, <1>3, ClearedAfterDeselect DEF ClickBlank
  <2>2. Sound(Cleared(Work)) /\ Cleared(Work).sel = {}
    BY <1>2, ClearedSound
  <2>3. Good(Cleared(Work))
    BY <2>2, NothingSelected DEF Good
  <2>4. OneItem(Cleared(Work))
    BY <1>2, WorkFields, ClearedSound DEF OneItem
  <2> QED
    BY <1>1, <2>1, <2>3, <2>4 DEF Gestured
<1>4. CASE CtrlClickBlank
  <2>1. PICK odd : odd = (ui.sel # {})
    OBVIOUS
  <2> DEFINE m == Moved(Work, Work.sel, odd)
  <2>2. Return(ClearMore([Work EXCEPT !.odd = odd]))
    BY <1>4, <2>1 DEF CtrlClickBlank
  <2>3. m = [Work EXCEPT !.odd = odd]
    BY DEF Moved, Work
  <2>4. Work.sel \subseteq IdsOf(Work.rows) /\ ~Work.boot /\ odd \in BOOLEAN
    BY <1>1, <1>2, <2>1, WorkFields DEF Sound
  <2>5. /\ Sound(m) /\ m.sel = ui.sel /\ m.odd = odd
        /\ m.list = todos /\ m.dumps = <<>>
    BY <1>2, <2>4, WorkFields, MovedSound
  <2> HIDE DEF m
  <2>6. Good(ClearMore(m))
    BY <2>1, <2>5, ClearGood
  <2>7. ClearMore(m).odd \/ OneItem(ClearMore(m))
    <3>1. CASE ui.sel = {}
      BY <2>5, <3>1, FormWritesNothing DEF OneItem
    <3>2. CASE ui.sel # {}
      BY <2>1, <2>5, <3>2, ClearMoreSound
    <3> QED
      BY <3>1, <3>2
  <2> QED
    BY <1>1, <2>2, <2>3, <2>6, <2>7 DEF Gestured
<1>5. CASE ToggleExpand
  <2> DEFINE w == [Work EXCEPT !.expanded = ~@]
  <2>1. Return(IF w.expanded THEN w ELSE ClearMore(DeselectAll(w)))
    BY <1>5 DEF ToggleExpand
  <2>2. w \in WorkType
    BY <1>2 DEF WorkType
  <2>3. /\ w.rows = Work.rows /\ w.list = Work.list /\ w.sel = Work.sel /\ w.tick = Work.tick
        /\ w.dumps = Work.dumps /\ w.boot = Work.boot /\ w.odd = Work.odd
        /\ w.shown = Work.shown /\ w.add = Work.add /\ w.title = Work.title
        /\ w.remark = Work.remark
    BY DEF Work
  <2> HIDE DEF w
  <2>4. Sound(w)
    BY <1>2, <2>2, <2>3, FormAside
  <2>5. FormOf(w)
    <3>1. Chosen(w) = Chosen(Work)
      BY <2>3, ChosenSame
    <3> QED
      BY <1>2, <2>3, <3>1 DEF Good, FormOf
  <2>6. CASE w.expanded
    <3>1. OneItem(w)
      BY <2>3, WorkFields DEF OneItem
    <3> QED
      BY <1>1, <2>1, <2>4, <2>5, <2>6, <3>1 DEF Good, Gestured
  <2>7. CASE ~w.expanded
    <3>1. Return(Cleared(w))
      BY <2>1, <2>2, <2>7, ClearedAfterDeselect
    <3>2. Sound(Cleared(w)) /\ Cleared(w).sel = {}
      BY <2>2, <2>4, ClearedSound
    <3>3. Good(Cleared(w))
      BY <3>2, NothingSelected DEF Good
    <3>4. OneItem(Cleared(w))
      BY <2>2, <2>3, WorkFields, ClearedSound DEF OneItem
    <3> QED
      BY <1>1, <3>1, <3>3, <3>4 DEF Gestured
  <2> QED
    BY <2>6, <2>7
<1> QED
  BY <1>3, <1>4, <1>5

LEMMA DeleteItemGestured ==
  ASSUME AppInv, DeleteItem
  PROVE  Gestured
<1> DEFINE d == Dumped(Work, RemoveAt(todos, At(todos, Chosen(Work))))
<1>1. mode = "run" /\ ~ui.boot /\ ui.sel # {}
  BY DEF DeleteItem, Ready
<1>2. Return([d EXCEPT !.rows = RemoveAt(@, ChosenRow(Work)), !.sel = @ \ {Chosen(Work)}])
  BY DEF DeleteItem
<1>3. d = Dumped(Work, RemoveAt(Work.list, At(Work.list, Chosen(Work))))
  BY WorkFields
<1> HIDE DEF d
<1>4. Good([d EXCEPT !.rows = RemoveAt(@, ChosenRow(Work)), !.sel = @ \ {Chosen(Work)}])
  BY <1>1, <1>3, WorkGood, WorkFields, DeleteGood
<1> DEFINE x == [d EXCEPT !.rows = RemoveAt(@, ChosenRow(Work)), !.sel = @ \ {Chosen(Work)}]
           list == RemoveAt(todos, At(todos, Chosen(Work)))
<1>5. x.list = list /\ x.dumps = <<list>>
  <2>1. Append(<<>>, list) = <<list>>
    OBVIOUS
  <2>2. d.list = list /\ d.dumps = Append(<<>>, list)
    BY WorkFields DEF d, Dumped, Work
  <2>3. x.list = d.list /\ x.dumps = d.dumps
    BY DEF d, Dumped, Work
  <2> HIDE DEF x, list
  <2> QED
    BY <2>1, <2>2, <2>3
<1>6. At(todos, Chosen(Work)) \in DOMAIN todos
  BY <1>1, WorkGood, WorkFields, SelectionFound DEF Good
<1> HIDE DEF x, list
<1>7. OneItem(x)
  BY <1>5, <1>6 DEF OneItem, list
<1> QED
  BY <1>1, <1>2, <1>4, <1>7 DEF x, Gestured

LEMMA TypeTitleGestured ==
  ASSUME AppInv, NEW str \in Titles, TypeTitle(str)
  PROVE  Gestured
<1> DEFINE x == SetTitle(Work, str)
           n == At(todos, Chosen(Work))
           v == [todos[n] EXCEPT !.text = ClipEdit[str]]
<1>1. mode = "run" /\ Return(x)
  BY DEF TypeTitle, Ready
<1>2. Good(x) /\ Sound(x) /\ Sound(Work)
  BY WorkGood, TypeTitleGood DEF Good
<1>3. x.odd = ui.odd /\ x.shown = ui.shown
  <2>1. SameForm(Titled(Work, str), x)
    BY <1>2, SetTitleSound
  <2>2. Titled(Work, str).odd = ui.odd /\ Titled(Work, str).shown = ui.shown
    BY WorkFields, WorkGood DEF Titled, WorkType
  <2> QED
    BY <2>1, <2>2 DEF SameForm
<1>4. CASE ui.sel = {}
  <2>1. x = Titled(Work, str)
    BY <1>2, <1>4, WorkFields, SetTitleSound
  <2>2. x.list = todos /\ x.dumps = <<>>
    BY <1>2, <2>1, WorkFields, TitledSound
  <2> HIDE DEF x
  <2> QED
    BY <1>1, <1>2, <2>2 DEF OneItem, Gestured
<1>5. CASE ui.sel # {}
  <2>1. /\ n \in DOMAIN todos /\ todos[n] \in Item /\ todos[n].id = Chosen(Work)
        /\ Chosen(Work) \in ui.sel
    BY <1>2, <1>5, WorkFields, SelectionFound
  <2>2. ItemEdited(Work, x, n, v)
    BY <1>2, <1>5, WorkFields, SetTitleSound
  <2>3. v.id = todos[n].id
    BY <2>1 DEF Item
  <2> HIDE DEF x, v, n
  <2>4. Touches(todos, x, n)
    BY <1>2, <2>1, <2>2, <2>3, WorkFields, WorkTouches, EditTouches
  <2>5. ASSUME ~ui.odd
        PROVE  ui.shown = todos[n].id
    BY <1>5, <2>1, <2>5 DEF AppInv, FormShowsSelection
  <2>6. x.odd \/ OneItem(x)
    BY <1>3, <2>1, <2>4, <2>5 DEF OneItem, Harmless
  <2> QED
    BY <1>1, <1>2, <2>6 DEF Gestured
<1> QED
  BY <1>4, <1>5

(* Every step is a gesture, or one of those that come between them.         *)
LEMMA AppSteps ==
  ASSUME AppInv, [AppNext]_appVars
  PROVE  \/ Gestured \/ Launch \/ StartLoop \/ Exit \/ UNCHANGED appVars
         \/ \E id \in RowIds : ArrowTo(id)
<1>1. CASE ShowNextItem
  BY <1>1, ShowNextItemGestured
<1>2. CASE ClickBlank \/ CtrlClickBlank \/ ToggleExpand
  BY <1>2, BlankGestured
<1>3. CASE DeleteItem
  BY <1>3, DeleteItemGestured
<1>4. CASE \E now \in Stamps : AddTodoItem(now)
  BY <1>4, AddTodoItemGestured
<1>5. CASE \E str \in Titles : TypeTitle(str)
  BY <1>5, TypeTitleGestured
<1>6. CASE \E str \in Remarks : TypeRemark(str)
  BY <1>6, TypeRemarkGestured
<1>7. CASE \E t \in Times : PickDeadline(t) \/ PickRemind(t)
  BY <1>7, PickDeadlineGestured, PickRemindGestured
<1>8. ASSUME NEW id \in RowIds,
             \/ ClickRow(id) \/ ClickColumn1(id) \/ CtrlClickRow(id)
             \/ \E now \in Stamps : CheckRow(id, now)
      PROVE  Gestured
  BY <1>8, ClickGestured, CheckRowGestured
<1> QED
  BY <1>1, <1>2, <1>3, <1>4, <1>5, <1>6, <1>7, <1>8 DEF AppNext

LEMMA AppStepKeeps == AppInv /\ [AppNext]_appVars => AppInv'
<1> SUFFICES ASSUME AppInv, [AppNext]_appVars
             PROVE  AppInv'
  OBVIOUS
<1>1. CASE UNCHANGED appVars
  <2>1. todos' = todos /\ tick' = tick /\ file' = file /\ mode' = mode /\ ui' = ui
    BY <1>1 DEF appVars, storeVars
  <2>2. AppTypeOK' /\ IdsOrdered'
    BY <2>1 DEF AppInv, AppTypeOK, StoreTypeOK, IdsOrdered, RowIds
  <2>3. Mirror(ui.rows, todos)' /\ Clipped(todos)' /\ FileClipped'
    BY <2>1 DEF AppInv, Mirror, RowOf, Clipped, FileClipped
  <2>4. FormShowsSelection'
    BY <2>1 DEF AppInv, FormShowsSelection, Chosen, ChosenRow, Work
  <2>5. FileInv'
    BY <2>1 DEF AppInv, FileInv, Encoded, SavedIsCurrent, WholeFile, Image
  <2> QED
    BY <2>1, <2>2, <2>3, <2>4, <2>5 DEF AppInv
<1> QED
  BY <1>1, AppSteps, GestureKeeps, LaunchKeeps, StartLoopKeeps, ExitKeeps, ArrowKeeps

THEOREM AppInvariant == AppSpec => []AppInv
<1>1. AppInit => AppInv
  <2> SUFFICES ASSUME AppInit
               PROVE  AppInv
    OBVIOUS
  <2>1. todos = <<>> /\ tick = 0 /\ file = NoFile /\ mode = "off" /\ ui = FreshUi
    BY DEF AppInit, StoreInit
  <2>2. /\ ui \in UiType /\ ui.rows = <<>> /\ ui.sel = {} /\ ui.boot = TRUE
    BY <2>1, FreshTyped
  <2>3. AppTypeOK /\ IdsOrdered
    BY <2>1, <2>2 DEF AppTypeOK, StoreTypeOK, NoFile, FileType, IdsOrdered
  <2>4. Mirror(ui.rows, todos) /\ Clipped(todos)
    BY <2>1, <2>2 DEF Mirror, Clipped
  <2>5. FileClipped /\ FileInv
    BY <2>1 DEF NoFile, FileClipped, FileInv, Encoded, SavedIsCurrent
  <2> QED
    BY <2>2, <2>3, <2>4, <2>5 DEF AppInv, FormShowsSelection
<1> QED
  BY <1>1, AppStepKeeps, PTL DEF AppSpec

(* Whatever the user does and however the callbacks nest, the window and    *)
(* the list stay well-typed, and what is selected is a row.                 *)
THEOREM AppTypeCorrect == AppSpec => []AppTypeOK
<1>1. AppInv => AppTypeOK
  BY DEF AppInv
<1> QED
  BY <1>1, AppInvariant, PTL

(* The list view is the list, newest item first, and while FreshListView    *)
(* runs it is the part shown so far: no lookup of a row's item misses.      *)
THEOREM RowsAlwaysMirrorList == AppSpec => []RowsMirrorList
<1>1. AppInv => RowsMirrorList
  <2> SUFFICES ASSUME AppInv
               PROVE  RowsMirrorList
    OBVIOUS
  <2> DEFINE shown == [i \in 1..Len(ui.rows) |-> RowOf(todos[i])]
  <2>1. ui.rows \in Seq(Row) /\ todos \in Seq(Item) /\ Mirror(ui.rows, todos)
    BY DEF AppInv, AppTypeOK, StoreTypeOK, UiType
  <2>2. Len(ui.rows) \in Nat /\ DOMAIN ui.rows = 1..Len(ui.rows)
    BY <2>1, ElementTyped
  <2>3. Len(shown) = Len(ui.rows) /\ \A i \in 1..Len(ui.rows) : shown[i] = RowOf(todos[i])
    BY <2>2
  <2> HIDE DEF shown
  <2>4. \A i \in 1..Len(ui.rows) : ui.rows[i] = shown[(Len(ui.rows) - i) + 1]
    <3> SUFFICES ASSUME NEW i \in 1..Len(ui.rows)
                 PROVE  ui.rows[i] = shown[(Len(ui.rows) - i) + 1]
      OBVIOUS
    <3>1. (Len(ui.rows) - i) + 1 \in 1..Len(ui.rows)
      BY <2>2, SMT
    <3> QED
      BY <2>1, <2>2, <2>3, <3>1 DEF Mirror
  <2>5. ui.rows = [i \in 1..Len(ui.rows) |-> ui.rows[i]]
    BY <2>1, <2>2
  <2>6. ui.rows = Reverse(shown)
    BY <2>3, <2>4, <2>5 DEF Reverse
  <2> QED
    BY <2>6 DEF AppInv, RowsMirrorList, shown
<1> QED
  BY <1>1, AppInvariant, PTL

(* While an item is selected the form holds that item, and "+" is hidden,   *)
(* until a Ctrl-click or an arrow key parts the form from the selection.    *)
THEOREM FormAlwaysShowsSelection == AppSpec => []FormShowsSelection
<1>1. AppInv => FormShowsSelection
  BY DEF AppInv
<1> QED
  BY <1>1, AppInvariant, PTL

(* Every handler leaves the list it holds in the file, whatever callbacks   *)
(* it went through, and a kill between or inside its dumps does not part    *)
(* them either, when every dump and every start can open todos.json.  Where *)
(* the disk may be full a torn file is what the handler leaves instead,     *)
(* until its next dump.                                                     *)
THEOREM ListAlwaysSaved ==
  ASSUME "unopened" \notin Faults PROVE AppSpec => []SavedIsCurrent
<1>1. AppInv => SavedIsCurrent
  BY DEF AppInv, FileInv
<1> QED
  BY <1>1, AppInvariant, PTL

(* Filling the list view changes no item but for the time of its change.    *)
THEOREM DisplayingNeverChanges == AppSpec => DisplayingChangesNothing
<1>1. AppInv /\ [AppNext]_appVars =>
        [ui.boot /\ mode = "run" /\ mode' = "run" =>
          /\ Len(todos') = Len(todos)
          /\ \A i \in DOMAIN todos :
               [todos'[i] EXCEPT !.lastmodified = 0] = [todos[i] EXCEPT !.lastmodified = 0]]_appVars
  <2> SUFFICES ASSUME AppInv, [AppNext]_appVars, ui.boot, mode = "run", mode' = "run"
               PROVE  /\ Len(todos') = Len(todos)
                      /\ \A i \in DOMAIN todos :
                           [todos'[i] EXCEPT !.lastmodified = 0]
                             = [todos[i] EXCEPT !.lastmodified = 0]
    OBVIOUS
  <2>1. CASE UNCHANGED appVars \/ StartLoop
    BY <2>1 DEF appVars, storeVars, StartLoop
  <2>2. CASE ShowNextItem
    <3> DEFINE todo == todos[Len(ui.rows) + 1]
               plain == WithRow(Work, RowOf(todo))
    <3>1. Len(ui.rows) < Len(todos)
      BY <2>2 DEF ShowNextItem
    <3>2. PICK reports \in Reports(todo.status), now \in Stamps :
            Return(InsertRow(Work, todo.id, todo.text, todo.status, reports, now))
      BY <2>2 DEF ShowNextItem
    <3> DEFINE x == InsertRow(Work, todo.id, todo.text, todo.status, reports, now)
    <3>3. /\ todo.status \in BOOLEAN /\ Sound(plain) /\ plain.list = todos
          /\ RowOf(todo) = [id |-> todo.id, text |-> todo.text, checked |-> todo.status]
          /\ todo.id \in IdsOf(plain.rows) /\ todo \in Item
          /\ At(plain.list, todo.id) = Len(ui.rows) + 1
      BY <3>1, ShowNextItemSound
    <3>4. plain = [Work EXCEPT !.rows = <<[id |-> todo.id, text |-> todo.text,
                                           checked |-> todo.status]>> \o Work.rows]
      BY <3>3 DEF WithRow
    <3> HIDE DEF plain, todo
    <3>5. Sound(x) /\ (x = plain \/ Inserted(plain, x, todo.id, todo.status, now))
      BY <3>2, <3>3, <3>4, InsertSound
    <3> HIDE DEF x
    <3>6. todos' = x.list
      BY <3>2 DEF Return, x
    <3>7. x.list \in Seq(Item) /\ todos \in Seq(Item)
      BY <3>5 DEF Sound, WorkType, AppInv, AppTypeOK, StoreTypeOK
    <3>8. CASE x = plain
      BY <3>3, <3>6, <3>8
    <3>9. CASE Inserted(plain, x, todo.id, todo.status, now)
      <4>1. /\ DOMAIN x.list = DOMAIN todos
            /\ \A j \in DOMAIN todos :
                 x.list[j] = IF j = Len(ui.rows) + 1
                             THEN [todo EXCEPT !.status = todo.status, !.lastmodified = now]
                             ELSE todos[j]
        BY <3>3, <3>9 DEF Inserted, Stamped, todo
      <4>2. Len(x.list) = Len(todos)
        BY <3>7, <4>1, ElementTyped, SMT
      <4>3. [[todo EXCEPT !.status = todo.status, !.lastmodified = now] EXCEPT !.lastmodified = 0]
              = [todo EXCEPT !.lastmodified = 0]
        BY <3>3 DEF Item
      <4> QED
        BY <3>6, <4>1, <4>2, <4>3 DEF todo
    <3> QED
      BY <3>5, <3>8, <3>9
  <2> QED
    BY <2>1, <2>2 DEF AppNext, Launch, Load, Exit, Ready, ClickBlank, CtrlClickBlank, DeleteItem,
       ToggleExpand, AddTodoItem, TypeTitle, TypeRemark, PickDeadline, PickRemind, ClickRow,
       ClickColumn1, CtrlClickRow, ArrowTo, CheckRow
<1> QED
  BY <1>1, AppInvariant, PTL DEF AppSpec, DisplayingChangesNothing

-----------------------------------------------------------------------------
(* What one gesture changes *)

(* No two items of an ordered list have the same id. *)
LEMMA SameItem ==
  ASSUME NEW list \in Seq(Item), NEW k, Ordered(list, k),
         NEW i \in DOMAIN list, NEW j \in DOMAIN list, list[i].id = list[j].id
  PROVE  i = j
<1>1. LowerBound(list, list[i].id) = i /\ LowerBound(list, list[j].id) = j
  BY SearchHits
<1> QED
  BY <1>1

LEMMA OneItemHarmless ==
  ASSUME AppInv, NEW x, OneItem(x), x.list \in Seq(Item),
         NEW i \in DOMAIN todos, NEW j \in DOMAIN x.list, todos[i].id = x.list[j].id
  PROVE  Harmless(todos[i], x.list[j], x.shown)
<1>1. todos \in Seq(Item) /\ Ordered(todos, tick) /\ todos[i].id < tick
  BY DEF AppInv, AppTypeOK, StoreTypeOK, IdsOrdered, Ordered
<1>2. Len(todos) \in Nat /\ DOMAIN todos = 1..Len(todos) /\ todos[i].id \in Nat
  BY <1>1, IdTyped
<1>3. ASSUME NEW m \in DOMAIN todos, x.list[j] = todos[m]
      PROVE  Harmless(todos[i], x.list[j], x.shown)
  <2>1. i = m
    BY <1>1, <1>3, SameItem
  <2> QED
    BY <1>3, <2>1 DEF Harmless
<1>4. CASE x.list = todos
  BY <1>3, <1>4
<1>5. ASSUME NEW n \in DOMAIN todos, Alike(todos, x.list, n),
             Harmless(todos[n], x.list[n], x.shown)
      PROVE  Harmless(todos[i], x.list[j], x.shown)
  <2>1. CASE j # n
    BY <1>3, <1>5, <2>1 DEF Alike
  <2>2. CASE j = n
    <3>1. i = n
      BY <1>1, <1>5, <2>2, SameItem DEF Alike
    <3> QED
      BY <1>5, <2>2, <3>1
  <2> QED
    BY <2>1, <2>2
<1>6. ASSUME NEW item \in Item, item.id = tick,
             Alike(Append(todos, item), x.list, Len(todos) + 1)
      PROVE  Harmless(todos[i], x.list[j], x.shown)
  <2>1. /\ DOMAIN Append(todos, item) = 1..(Len(todos) + 1)
        /\ \A m \in 1..Len(todos) : Append(todos, item)[m] = todos[m]
        /\ Append(todos, item)[Len(todos) + 1] = item
    BY <1>1, AppendProperties
  <2>2. CASE j = Len(todos) + 1
    <3>1. x.list[j].id = tick
      BY <1>6, <2>1, <2>2 DEF Alike
    <3>2. todos[i].id # tick
      BY <1>1, <1>2, SMT DEF AppInv, AppTypeOK, StoreTypeOK
    <3> QED
      BY <3>1, <3>2
  <2>3. CASE j # Len(todos) + 1
    <3>1. j \in 1..(Len(todos) + 1)
      BY <1>6, <2>1 DEF Alike
    <3>2. j \in 1..Len(todos)
      BY <1>2, <2>3, <3>1, SMT
    <3>3. x.list[j] = todos[j]
      BY <1>6, <2>1, <2>3, <3>1, <3>2 DEF Alike
    <3> QED
      BY <1>2, <1>3, <3>2, <3>3
  <2> QED
    BY <2>2, <2>3
<1>7. ASSUME NEW n \in DOMAIN todos, x.list = RemoveAt(todos, n)
      PROVE  Harmless(todos[i], x.list[j], x.shown)
  <2>1. /\ DOMAIN x.list = 1..(Len(todos) - 1)
        /\ x.list[j] = IF j < n THEN todos[j] ELSE todos[j + 1]
    <3>1. /\ Len(RemoveAt(todos, n)) = Len(todos) - 1
          /\ \A m \in 1..(Len(todos) - 1) :
               RemoveAt(todos, n)[m] = IF m < n THEN todos[m] ELSE todos[m + 1]
      BY <1>1, ErasedList
    <3>2. DOMAIN x.list = 1..Len(x.list)
      BY ElementTyped
    <3> QED
      BY <1>7, <3>1, <3>2
  <2>2. j \in 1..Len(todos) /\ j + 1 \in 1..Len(todos)
    BY <1>2, <2>1, SMT
  <2> QED
    BY <1>2, <1>3, <2>1, <2>2
<1> QED
  BY <1>4, <1>5, <1>6, <1>7 DEF OneItem, Touches

(* A gesture changes texts and dates of one item only, the one in the form; *)
(* opening an item changes nothing of it but a title too long for the edit. *)
(* Odd gestures apart, which write the form to the item still selected.     *)
THEOREM OnlyTheShownItemChanges == AppSpec => OnlyShownItemChanges
<1> DEFINE Kept ==
      mode = "run" /\ mode' = "run" /\ ~ui'.odd =>
        \A i \in DOMAIN todos, j \in DOMAIN todos' :
          LET old == todos[i]
              new == todos'[j]
              edited == ui.shown = old.id /\ ui'.shown = old.id
          IN  old.id = new.id /\ ~edited =>
                /\ new.remark = old.remark
                /\ new.deadline = old.deadline /\ new.remind = old.remind
                /\ \/ new.text = old.text
                   \/ ui'.shown = old.id /\ new.text = ClipEdit[old.text]
<1>1. AppInv /\ [AppNext]_appVars => [Kept]_appVars
  <2> SUFFICES ASSUME AppInv, [AppNext]_appVars, mode = "run", mode' = "run", ~ui'.odd,
                      NEW i \in DOMAIN todos, NEW j \in DOMAIN todos',
                      todos[i].id = todos'[j].id
               PROVE  Harmless(todos[i], todos'[j], ui'.shown)
    BY DEF Harmless
  <2>1. CASE todos' = todos
    <3>1. todos \in Seq(Item) /\ Ordered(todos, tick)
      BY DEF AppInv, AppTypeOK, StoreTypeOK, IdsOrdered, Ordered
    <3>2. i = j
      BY <2>1, <3>1, SameItem
    <3> QED
      BY <2>1, <3>2 DEF Harmless
  <2>2. CASE Gestured
    <3>1. PICK x : Good(x) /\ Return(x) /\ (x.odd \/ OneItem(x))
      BY <2>2 DEF Gestured
    <3>2. todos' = x.list /\ ui' = Controls(x)
      BY <3>1 DEF Return
    <3>3. x.odd = ui'.odd /\ x.shown = ui'.shown
      BY <3>2 DEF Controls
    <3>4. x.list \in Seq(Item)
      BY <3>1 DEF Good, Sound, WorkType
    <3> QED
      BY <3>1, <3>2, <3>3, <3>4, OneItemHarmless
  <2>3. ~Launch /\ ~Exit
    BY DEF Launch, Load, Exit, Quit
  <2>4. CASE UNCHANGED appVars \/ StartLoop \/ \E id \in RowIds : ArrowTo(id)
    BY <2>1, <2>4 DEF appVars, storeVars, StartLoop, ArrowTo
  <2> QED
    BY <2>2, <2>3, <2>4, AppSteps
<1> QED
  BY <1>1, AppInvariant, PTL DEF AppSpec, OnlyShownItemChanges

LEMMA ImageRewritten ==
  ASSUME NEW old \in Seq(Item), NEW new \in Seq(Item), NEW n, Alike(old, new, n)
  PROVE  /\ n \in DOMAIN Image(old)
         /\ Image(new) = [Image(old) EXCEPT ![n] = Saved(new[n])]
         /\ Saved(new[n]) \in SavedItem
<1>1. DOMAIN new = DOMAIN old /\ n \in DOMAIN old
  BY DEF Alike
<1>2. \A j \in DOMAIN old : j # n => Saved(new[j]) = Saved(old[j])
  BY DEF Alike
<1>3. Saved(new[n]) \in SavedItem
  BY <1>1, ElementTyped, SavedItemTyped
<1> QED
  BY <1>1, <1>2, <1>3 DEF Image

LEMMA ImageAdded ==
  ASSUME NEW old \in Seq(Item), NEW item \in Item, NEW new \in Seq(Item),
         Alike(Append(old, item), new, Len(old) + 1)
  PROVE  \E rec \in SavedItem : Image(new) = Append(Image(old), rec)
<1> DEFINE rec == Saved(new[Len(old) + 1])
<1>1. /\ DOMAIN Append(old, item) = 1..(Len(old) + 1)
      /\ \A m \in 1..Len(old) : Append(old, item)[m] = old[m]
      /\ Len(old) \in Nat /\ DOMAIN old = 1..Len(old)
  BY AppendProperties, ElementTyped
<1>2. /\ DOMAIN new = 1..(Len(old) + 1)
      /\ \A m \in 1..Len(old) : new[m] = old[m]
  <2>1. \A m \in 1..Len(old) : m \in 1..(Len(old) + 1) /\ m # Len(old) + 1
    BY <1>1, SMT
  <2> QED
    BY <1>1, <2>1 DEF Alike
<1>3. Image(old) \in Seq(SavedItem) /\ Len(Image(old)) = Len(old)
  <2>1. Image(old) \in Seq(SavedItem)
    BY SavedTyped DEF WholeFile, FileType
  <2>2. DOMAIN Image(old) = 1..Len(old)
    BY <1>1 DEF Image
  <2>3. Len(Image(old)) \in Nat /\ DOMAIN Image(old) = 1..Len(Image(old))
    BY <2>1, ElementTyped
  <2> QED
    BY <1>1, <2>1, <2>2, <2>3, SMT
<1>4. rec \in SavedItem
  <2>1. Len(old) + 1 \in DOMAIN new
    BY <1>1, <1>2, SMT
  <2> QED
    BY <2>1, ElementTyped, SavedItemTyped
<1> HIDE DEF rec
<1>5. /\ Append(Image(old), rec) \in Seq(SavedItem)
      /\ DOMAIN Append(Image(old), rec) = 1..(Len(old) + 1)
      /\ \A m \in 1..Len(old) : Append(Image(old), rec)[m] = Image(old)[m]
      /\ Append(Image(old), rec)[Len(old) + 1] = rec
  BY <1>3, <1>4, AppendProperties
<1>6. ASSUME NEW m \in 1..(Len(old) + 1)
      PROVE  Saved(new[m]) = Append(Image(old), rec)[m]
  <2>1. CASE m = Len(old) + 1
    BY <1>5, <2>1 DEF rec
  <2>2. CASE m # Len(old) + 1
    <3>1. m \in 1..Len(old)
      BY <1>1, <2>2, SMT
    <3> QED
      BY <1>1, <1>2, <1>5, <3>1 DEF Image
  <2> QED
    BY <2>1, <2>2
<1>7. Append(Image(old), rec) = [m \in 1..(Len(old) + 1) |-> Append(Image(old), rec)[m]]
  <2> DEFINE more == Append(Image(old), rec)
  <2>1. more \in Seq(SavedItem) /\ DOMAIN more = 1..(Len(old) + 1)
    BY <1>5
  <2> HIDE DEF more
  <2>2. more = [m \in DOMAIN more |-> more[m]]
    BY <2>1
  <2> QED
    BY <2>1, <2>2 DEF more
<1>8. Image(new) = Append(Image(old), rec)
  BY <1>2, <1>6, <1>7 DEF Image
<1> QED
  BY <1>4, <1>8

LEMMA ImageRemoved ==
  ASSUME NEW old \in Seq(Item), NEW n \in DOMAIN old
  PROVE  n \in DOMAIN Image(old) /\ Image(RemoveAt(old, n)) = RemoveAt(Image(old), n)
<1> DEFINE L == Len(old)
<1>1. L \in Nat /\ DOMAIN old = 1..L
  BY ElementTyped
<1>2. Image(old) \in Seq(SavedItem) /\ DOMAIN Image(old) = DOMAIN old /\ Len(Image(old)) = L
  <2>1. Image(old) \in Seq(SavedItem)
    BY SavedTyped DEF WholeFile, FileType
  <2>2. DOMAIN Image(old) = 1..L
    BY <1>1 DEF Image
  <2>3. Len(Image(old)) \in Nat /\ DOMAIN Image(old) = 1..Len(Image(old))
    BY <2>1, ElementTyped
  <2> QED
    BY <1>1, <2>1, <2>2, <2>3, SMT
<1>3. /\ RemoveAt(old, n) \in Seq(Item) /\ Len(RemoveAt(old, n)) = L - 1
      /\ \A j \in 1..(L - 1) : RemoveAt(old, n)[j] = IF j < n THEN old[j] ELSE old[j + 1]
  BY ErasedList
<1>4. /\ RemoveAt(Image(old), n) \in Seq(SavedItem) /\ Len(RemoveAt(Image(old), n)) = L - 1
      /\ \A j \in 1..(L - 1) :
           RemoveAt(Image(old), n)[j] = IF j < n THEN Image(old)[j] ELSE Image(old)[j + 1]
  <2> DEFINE saved == Image(old)
  <2>1. saved \in Seq(SavedItem) /\ n \in DOMAIN saved /\ Len(saved) = L
    BY <1>2
  <2> HIDE DEF saved, L
  <2>2. /\ RemoveAt(saved, n) \in Seq(SavedItem) /\ Len(RemoveAt(saved, n)) = L - 1
        /\ \A j \in 1..(L - 1) :
             RemoveAt(saved, n)[j] = IF j < n THEN saved[j] ELSE saved[j + 1]
    BY <2>1, ErasedList
  <2> QED
    BY <2>2 DEF saved
<1>5. DOMAIN RemoveAt(old, n) = 1..(L - 1) /\ DOMAIN RemoveAt(Image(old), n) = 1..(L - 1)
  BY <1>3, <1>4, ElementTyped
<1>6. ASSUME NEW j \in 1..(L - 1)
      PROVE  Saved(RemoveAt(old, n)[j]) = RemoveAt(Image(old), n)[j]
  <2>1. j \in DOMAIN old /\ j + 1 \in DOMAIN old
    BY <1>1, SMT
  <2>2. Image(old)[j] = Saved(old[j]) /\ Image(old)[j + 1] = Saved(old[j + 1])
    BY <2>1 DEF Image
  <2> QED
    BY <1>3, <1>4, <2>2
<1>7. RemoveAt(Image(old), n) = [j \in 1..(L - 1) |-> RemoveAt(Image(old), n)[j]]
  BY <1>4, <1>5
<1>8. Image(RemoveAt(old, n)) = [j \in 1..(L - 1) |-> Saved(RemoveAt(old, n)[j])]
  BY <1>5 DEF Image
<1> QED
  BY <1>2, <1>6, <1>7, <1>8

(* Every list a handler dumps is one item apart from the list it began with. *)
LEMMA DumpsApart ==
  ASSUME AppInv, NEW x, Good(x), OneItem(x), NEW d \in DOMAIN x.dumps
  PROVE  OneItemApart(Image(todos), Image(x.dumps[d]))
<1> DEFINE new == x.dumps[d]
<1>1. todos \in Seq(Item) /\ new \in Seq(Item) /\ x.dumps \in Seq(Seq(Item))
  <2>1. x.dumps \in Seq(Seq(Item))
    BY DEF Good, Sound, WorkType
  <2> QED
    BY <2>1, ElementTyped DEF AppInv, AppTypeOK, StoreTypeOK
<1>2. CASE x.dumps = <<>>
  BY <1>2
<1>3. ASSUME NEW n \in DOMAIN todos, Touches(todos, x, n)
      PROVE  OneItemApart(Image(todos), Image(new))
  <2>1. Alike(todos, new, n)
    BY <1>3 DEF Touches
  <2> HIDE DEF new
  <2>2. /\ n \in DOMAIN Image(todos) /\ Saved(new[n]) \in SavedItem
        /\ Image(new) = [Image(todos) EXCEPT ![n] = Saved(new[n])]
    BY <1>1, <2>1, ImageRewritten
  <2> QED
    BY <2>2 DEF OneItemApart
<1>4. ASSUME NEW item \in Item, Touches(Append(todos, item), x, Len(todos) + 1)
      PROVE  OneItemApart(Image(todos), Image(new))
  <2>1. Alike(Append(todos, item), new, Len(todos) + 1)
    BY <1>4 DEF Touches
  <2> HIDE DEF new
  <2>2. \E rec \in SavedItem : Image(new) = Append(Image(todos), rec)
    BY <1>1, <2>1, ImageAdded
  <2> QED
    BY <2>2 DEF OneItemApart
<1>5. ASSUME NEW n \in DOMAIN todos, x.list = RemoveAt(todos, n), x.dumps = <<x.list>>
      PROVE  OneItemApart(Image(todos), Image(new))
  <2>1. new = RemoveAt(todos, n)
    BY <1>5
  <2>2. n \in DOMAIN Image(todos) /\ Image(new) = RemoveAt(Image(todos), n)
    BY <1>1, <2>1, ImageRemoved
  <2> HIDE DEF new
  <2> QED
    BY <2>2 DEF OneItemApart
<1> QED
  BY <1>2, <1>3, <1>4, <1>5 DEF OneItem

(* A gesture, or the part of it a kill leaves in the file, changes one item *)
(* of the saved list, however many dumps the handler makes, when every dump *)
(* and every start can open todos.json: a dump that could not would leave   *)
(* its item to the next one.                                                *)
THEOREM GestureAlwaysSavesOneItem ==
  ASSUME "unopened" \notin Faults PROVE AppSpec => GestureSavesOneItem
<1>1. AppInv /\ [AppNext]_appVars =>
        [~ui'.odd /\ file.state = "whole" /\ file'.state = "whole" =>
           OneItemApart(file.items, file'.items)]_appVars
  <2> SUFFICES ASSUME AppInv, [AppNext]_appVars, ~ui'.odd,
                      file.state = "whole", file'.state = "whole"
               PROVE  OneItemApart(file.items, file'.items)
    OBVIOUS
  <2>1. CASE file' = file
    BY <2>1 DEF OneItemApart
  <2>2. CASE Gestured
    <3>1. PICK x : Good(x) /\ Return(x) /\ (x.odd \/ OneItem(x))
      BY <2>2 DEF Gestured
    <3>2. x.odd = ui'.odd
      BY <3>1 DEF Return, Controls, FreshUi
    <3>3. file.items = Image(todos)
      <4>1. SavedIsCurrent /\ mode = "run"
        BY <2>2 DEF Gestured, AppInv, FileInv
      <4> QED
        BY <4>1 DEF SavedIsCurrent, NoFile, TornFile, WholeFile
    <3>4. file' = file \/ \E d \in DOMAIN x.dumps : file' = WholeFile(x.dumps[d])
      <4>1. x.dumps \in Seq(Seq(Item))
        BY <3>1 DEF Good, Sound, WorkType
      <4>2. x.dumps # <<>> => Len(x.dumps) \in DOMAIN x.dumps
        BY <4>1, EmptySeq, ElementTyped, SMT
      <4> QED
        BY <3>1, <4>2 DEF Return, Left, Written, Last, TornFile
    <3>5. CASE \E d \in DOMAIN x.dumps : file' = WholeFile(x.dumps[d])
      <4>1. PICK d \in DOMAIN x.dumps : file' = WholeFile(x.dumps[d])
        BY <3>5
      <4>2. file'.items = Image(x.dumps[d])
        BY <4>1 DEF WholeFile
      <4>3. OneItemApart(Image(todos), Image(x.dumps[d]))
        BY <3>1, <3>2, DumpsApart
      <4> QED
        BY <3>3, <4>2, <4>3
    <3> QED
      BY <2>1, <3>4, <3>5
  <2>3. CASE \/ Launch \/ StartLoop \/ Exit \/ UNCHANGED appVars
             \/ \E id \in RowIds : ArrowTo(id)
    BY <2>1, <2>3 DEF Launch, Load, StartLoop, Exit, Quit, appVars, storeVars, ArrowTo
  <2> QED
    BY <2>2, <2>3, AppSteps
<1> QED
  BY <1>1, AppInvariant, PTL DEF AppSpec, GestureSavesOneItem

-----------------------------------------------------------------------------
(* The reminders.  An item with its reminder is called watched when it has *)
(* run with it since Slack before its time.                                *)
Watched(item) ==
  /\ item.remind # 0 /\ ~item.status
  /\ since[item.id] + Slack <= item.remind

InTime(at, remind) ==
  at \in (remind - Slack)..(remind + global_tick_frequency)

RemindTypeOK ==
  /\ clock \in Nat /\ due \in Nat
  /\ since \in [Live -> Nat] /\ reminded \in [Live -> Int]

(* The next message comes soon, and not later than Slack after it is due.  *)
TimerRuns ==
  mode = "run" => clock <= due + Slack /\ due <= clock + global_tick_frequency

(* Once the timer is set for a time from which a late message could miss   *)
(* an item, the item has had its balloon: at the latest from the message   *)
(* before.                                                                 *)
BalloonsShown ==
  \A h \in Live :
    LET item == todos[At(todos, h)]
    IN  Watched(item) /\ due + Slack > item.remind + global_tick_frequency
        => InTime(reminded[h], item.remind)

RemindInv == StoreInv /\ RemindTypeOK /\ TimerRuns /\ BalloonsShown

(* The search for an id of a list ends on its item.                        *)
LEMMA IdFound ==
  ASSUME NEW list \in Seq(Item), NEW k, Ordered(list, k), NEW h \in IdsOf(list)
  PROVE  /\ At(list, h) \in DOMAIN list /\ list[At(list, h)].id = h
         /\ list[At(list, h)].remind \in Nat
<1>1. PICK i \in DOMAIN list : h = list[i].id
  BY DEF IdsOf
<1>2. At(list, h) = i
  BY <1>1, SearchHits DEF At
<1>3. list[i] \in Item
  BY ElementTyped
<1>4. list[i].remind \in Nat
  BY <1>3, StoreAssumption DEF Item
<1>5. QED BY <1>1, <1>2, <1>4

LEMMA LiveFound ==
  ASSUME StoreInv, NEW h \in Live
  PROVE  todos[At(todos, h)].id = h /\ todos[At(todos, h)].remind \in Nat
<1>1. todos \in Seq(Item) /\ Ordered(todos, tick)
  BY DEF StoreInv, StoreTypeOK, IdsOrdered, Ordered
<1>2. QED BY <1>1, IdFound DEF Live, IdsOf

LEMMA StoppedEmpty ==
  ASSUME StoreInv, mode # "run"
  PROVE  Live = {}
BY DEF StoreInv, StoreTypeOK, Live

LEMMA RemindInitHolds == RemindInit => RemindInv
<1> SUFFICES ASSUME RemindInit
             PROVE  RemindInv
  OBVIOUS
<1>1. StoreInv
  BY DEF RemindInit, StoreInit, StoreInv, StoreTypeOK, IdsOrdered, NoFile, FileType
<1>2. Live = {} /\ mode = "off"
  BY DEF RemindInit, StoreInit, Live
<1>3. RemindTypeOK
  <2>1. <<>> \in [{} -> Nat] /\ <<>> \in [{} -> Int]
    OBVIOUS
  <2>2. QED BY <2>1, <1>2 DEF RemindInit, RemindTypeOK
<1>4. TimerRuns /\ BalloonsShown
  BY <1>2 DEF TimerRuns, BalloonsShown
<1>5. QED BY <1>1, <1>3, <1>4 DEF RemindInv

(* An item followed on keeps its balloon; one followed anew is not watched *)
(* before the timer is set for a time after it.                            *)
LEMMA FollowKeeps ==
  ASSUME RemindInv, StoreInv', Follow, due' \in Nat, TimerRuns', Live = {} \/ due' = due
  PROVE  RemindInv'
<1> USE ReminderAssumption DEF RemindInv
<1>1. /\ since' = [h \in Live' |-> IF Same(h) THEN since[h] ELSE clock]
      /\ reminded' = [h \in Live' |-> IF Same(h) THEN reminded[h] ELSE Never]
      /\ clock' = clock
  BY DEF Follow
<1>2. clock \in Nat /\ since \in [Live -> Nat] /\ reminded \in [Live -> Int]
  BY DEF RemindTypeOK
<1>3. \A h : Same(h) => h \in Live
  BY DEF Same
<1>4. RemindTypeOK'
  <2>1. since' \in [Live' -> Nat]
    BY <1>1, <1>2, <1>3
  <2>2. reminded' \in [Live' -> Int]
    BY <1>1, <1>2, <1>3 DEF Never
  <2>3. QED BY <2>1, <2>2, <1>1, <1>2 DEF RemindTypeOK
<1>5. BalloonsShown'
  <2> SUFFICES ASSUME NEW h \in Live',
                      Watched(todos[At(todos, h)])',
                      (due + Slack > todos[At(todos, h)].remind + global_tick_frequency)'
               PROVE  InTime(reminded[h], todos[At(todos, h)].remind)'
    BY DEF BalloonsShown
  <2> DEFINE old == todos[At(todos, h)]
             new == todos'[At(todos', h)]
  <2>1. new.id = h /\ new.remind \in Nat
    <3>1. todos' \in Seq(Item) /\ Ordered(todos', tick')
      BY DEF StoreInv, StoreTypeOK, IdsOrdered, Ordered
    <3>2. h \in IdsOf(todos')
      BY DEF Live, IdsOf
    <3>3. QED BY <3>1, <3>2, IdFound
  <2>2. /\ new.remind # 0 /\ ~new.status /\ since'[new.id] + Slack <= new.remind
        /\ due' + Slack > new.remind + global_tick_frequency
    BY DEF Watched, At, LowerBound
  <2> SUFFICES InTime(reminded'[h], new.remind)
    BY DEF InTime, At, LowerBound
  <2>3. CASE Same(h)
    <3>1. h \in Live /\ new.remind = old.remind /\ new.status = old.status
      BY <2>3 DEF Same
    <3>2. old.id = h
      BY <3>1, LiveFound
    <3>3. since'[h] = since[h] /\ reminded'[h] = reminded[h]
      BY <2>3, <1>1
    <3>4. due' = due
      BY <3>1
    <3> HIDE DEF old, new
    <3>5. Watched(old) /\ due + Slack > old.remind + global_tick_frequency
      BY <2>1, <2>2, <3>1, <3>2, <3>3, <3>4 DEF Watched
    <3>6. InTime(reminded[h], old.remind)
      BY <3>1, <3>5 DEF BalloonsShown, old
    <3>7. QED BY <3>1, <3>3, <3>6
  <2>4. CASE ~Same(h)
    <3>1. since'[h] = clock
      BY <2>4, <1>1
    <3>2. mode' = "run"
      <4>1. mode' # "run" => todos' = <<>>
        BY DEF StoreInv, StoreTypeOK
      <4>2. QED BY <4>1 DEF Live
    <3>3. due' <= clock + global_tick_frequency
      BY <3>2, <1>1 DEF TimerRuns
    <3> HIDE DEF old, new
    <3>4. clock + Slack <= new.remind
      BY <2>1, <2>2, <3>1
    <3>5. QED BY <3>3, <3>4, <2>1, <2>2, <1>2
  <2>5. QED BY <2>3, <2>4
<1>6. QED BY <1>4, <1>5

LEMMA StartKeeps ==
  ASSUME RemindInv, Start
  PROVE  RemindInv'
<1> USE ReminderAssumption
<1>1. StoreInv /\ mode # "run" /\ Live = {}
  BY StoppedEmpty DEF RemindInv, Start, Load
<1>2. StoreInv'
  BY <1>1, StepKeeps DEF Start, StoreNext
<1>3. due' = clock + global_tick_frequency /\ clock' = clock /\ clock \in Nat
  BY DEF Start, Follow, RemindInv, RemindTypeOK
<1>4. due' \in Nat
  BY <1>3
<1>5. TimerRuns'
  BY <1>3 DEF TimerRuns
<1>6. QED BY <1>1, <1>2, <1>4, <1>5, FollowKeeps DEF Start

LEMMA StopKeeps ==
  ASSUME RemindInv, Stop
  PROVE  RemindInv'
<1>1. StoreInv'
  BY StepKeeps DEF RemindInv, Stop, StoreNext
<1>2. mode' # "run" /\ todos' = <<>>
  BY DEF Stop, Quit
<1>3. Live' = {}
  BY <1>2 DEF Live
<1>4. since' = [h \in {} |-> 0] /\ reminded' = [h \in {} |-> 0]
  BY <1>3 DEF Stop, Follow
<1>5. RemindTypeOK'
  BY <1>3, <1>4 DEF Stop, Follow, RemindInv, RemindTypeOK
<1>6. QED BY <1>1, <1>2, <1>3, <1>5 DEF RemindInv, TimerRuns, BalloonsShown

LEMMA RemindEditGestured ==
  ASSUME RemindInv, Edit
  PROVE  RemindInv'
<1>1. mode = "run" /\ due' = due /\ Follow /\ clock' = clock
  BY DEF Edit, Follow, AddTodo, RemoveTodo, UpdateStatus, UpdateRemaind
<1>2. StoreNext
  BY StoreAssumption DEF Edit, StoreNext
<1>3. StoreInv'
  BY <1>2, StepKeeps DEF RemindInv
<1>4. due' \in Nat /\ TimerRuns'
  BY <1>1 DEF RemindInv, RemindTypeOK, TimerRuns
<1>5. QED BY <1>1, <1>3, <1>4, FollowKeeps

(* The message for the time the timer was set for.  What it shows late it  *)
(* shows in time, unless a message before has shown it.                    *)
LEMMA NotifyKeeps ==
  ASSUME RemindInv, TimeToNotify
  PROVE  RemindInv'
<1> USE ReminderAssumption DEF RemindInv
<1>1. /\ mode = "run" /\ clock >= due /\ due' = due + global_tick_frequency
      /\ reminded' = [h \in Live |-> IF ToBeShown(todos[At(todos, h)]) THEN clock ELSE reminded[h]]
      /\ UNCHANGED <<todos, tick, file, mode, clock, since>>
  BY DEF TimeToNotify, storeVars
<1>2. Live' = Live /\ \A h : At(todos, h)' = At(todos, h)
  BY <1>1 DEF Live, At, LowerBound
<1>3. clock \in Nat /\ due \in Nat /\ reminded \in [Live -> Int]
  BY DEF RemindTypeOK
<1>4. StoreInv'
  BY <1>1, StepKeeps DEF storeVars
<1>5. RemindTypeOK'
  <2>1. reminded' \in [Live -> Int]
    BY <1>1, <1>3
  <2>2. due' \in Nat
    BY <1>1, <1>3
  <2>3. QED BY <2>1, <2>2, <1>1, <1>2 DEF RemindTypeOK
<1>6. TimerRuns'
  BY <1>1, <1>3 DEF TimerRuns
<1>7. BalloonsShown'
  <2> SUFFICES ASSUME NEW h \in Live
               PROVE  LET item == todos[At(todos, h)]
                      IN  Watched(item) /\ due' + Slack > item.remind + global_tick_frequency
                          => InTime(reminded'[h], item.remind)
    BY <1>1, <1>2 DEF BalloonsShown, Watched, InTime, At, LowerBound
  <2> DEFINE item == todos[At(todos, h)]
  <2> SUFFICES ASSUME Watched(item), due' + Slack > item.remind + global_tick_frequency
               PROVE  InTime(reminded'[h], item.remind)
    OBVIOUS
  <2>1. item.remind \in Nat
    BY LiveFound
  <2>2. reminded'[h] = IF ToBeShown(item) THEN clock ELSE reminded[h]
    BY <1>1
  <2>3. due + Slack > item.remind + global_tick_frequency => InTime(reminded[h], item.remind)
    BY DEF BalloonsShown
  <2>4. clock <= due + Slack
    BY <1>1 DEF TimerRuns
  <2>5. ToBeShown(item) <=> clock - item.remind <= global_tick_frequency
    BY DEF ToBeShown, Watched
  <2> HIDE DEF item
  <2>6. due + Slack > item.remind
    BY <1>1, <1>3, <2>1
  <2>7. CASE clock - item.remind <= global_tick_frequency
    <3>1. reminded'[h] = clock
      BY <2>2, <2>5, <2>7
    <3>2. clock \in (item.remind - Slack)..(item.remind + global_tick_frequency)
      BY <1>1, <1>3, <2>1, <2>6, <2>7
    <3>3. QED BY <3>1, <3>2 DEF InTime
  <2>8. CASE ~(clock - item.remind <= global_tick_frequency)
    <3>1. due + Slack > item.remind + global_tick_frequency
      BY <1>3, <2>1, <2>4, <2>8
    <3>2. QED BY <2>2, <2>3, <2>5, <2>8, <3>1
  <2>9. QED BY <2>7, <2>8
<1>8. QED BY <1>4, <1>5, <1>6, <1>7

LEMMA TickKeeps ==
  ASSUME RemindInv, Tick
  PROVE  RemindInv'
<1> USE ReminderAssumption DEF RemindInv
<1>1. /\ mode = "run" => clock < due + Slack
      /\ clock' = clock + 1
      /\ UNCHANGED <<todos, tick, file, mode, due, since, reminded>>
  BY DEF Tick, storeVars
<1>2. Live' = Live
  BY <1>1 DEF Live
<1>3. StoreInv'
  BY <1>1, StepKeeps DEF storeVars
<1>4. RemindTypeOK' /\ TimerRuns'
  BY <1>1, <1>2 DEF RemindTypeOK, TimerRuns
<1>5. BalloonsShown'
  BY <1>1, <1>2 DEF BalloonsShown, Watched, InTime, At, LowerBound
<1>6. QED BY <1>3, <1>4, <1>5

(* The timer and what it has shown, in every reachable state of the list:  *)
(* the balloon of an item that a late message could miss has come before.  *)
THEOREM RemindInvariant == RemindSpec => []RemindInv
<1>1. RemindInv /\ [RemindNext]_remindVars => RemindInv'
  <2> SUFFICES ASSUME RemindInv, [RemindNext]_remindVars
               PROVE  RemindInv'
    OBVIOUS
  <2>1. CASE Start
    BY <2>1, StartKeeps
  <2>2. CASE Stop
    BY <2>2, StopKeeps
  <2>3. CASE Edit
    BY <2>3, RemindEditGestured
  <2>4. CASE TimeToNotify
    BY <2>4, NotifyKeeps
  <2>5. CASE Tick
    BY <2>5, TickKeeps
  <2>6. CASE UNCHANGED remindVars
    <3>1. UNCHANGED <<todos, tick, file, mode, clock, due, since, reminded>>
      BY <2>6 DEF remindVars, storeVars
    <3>2. StoreInv'
      BY <3>1, StepKeeps DEF RemindInv, storeVars
    <3>3. Live' = Live
      BY <3>1 DEF Live
    <3>4. QED BY <3>1, <3>2, <3>3 DEF RemindInv, RemindTypeOK, TimerRuns, BalloonsShown,
                                     Watched, InTime, At, LowerBound
  <2>7. QED BY <2>1, <2>2, <2>3, <2>4, <2>5, <2>6 DEF RemindNext
<1>2. QED BY RemindInitHolds, <1>1, PTL DEF RemindSpec

(* No reminder set in time is missed while the program runs (app.cc:680-   *)
(* 693), for any period, any delay of the timer's message below it, any    *)
(* list and any fault of the file.                                         *)
THEOREM RemindersAlwaysInTime == RemindSpec => []RemindedInTime
<1>1. RemindInv => RemindedInTime
  <2> SUFFICES ASSUME RemindInv, NEW i \in DOMAIN todos,
                      Watched(todos[i]),
                      clock > todos[i].remind + global_tick_frequency
               PROVE  InTime(reminded[todos[i].id], todos[i].remind)
    BY DEF RemindedInTime, Watched, InTime
  <2> DEFINE h == todos[i].id
  <2>1. h \in Live /\ mode = "run"
    BY StoppedEmpty DEF RemindInv, Live
  <2>2. todos \in Seq(Item) /\ Ordered(todos, tick)
    BY DEF RemindInv, StoreInv, StoreTypeOK, IdsOrdered, Ordered
  <2>3. At(todos, h) = i
    BY <2>2, SearchHits DEF At
  <2>4. todos[i].remind \in Nat
    BY <2>1, <2>3, LiveFound DEF RemindInv
  <2>5. clock <= due + Slack /\ clock \in Nat /\ due \in Nat
    BY <2>1 DEF RemindInv, TimerRuns, RemindTypeOK
  <2>6. due + Slack > todos[i].remind + global_tick_frequency
    BY <2>4, <2>5, ReminderAssumption
  <2>7. QED BY <2>1, <2>3, <2>6 DEF RemindInv, BalloonsShown
<1>2. QED BY <1>1, RemindInvariant, PTL

=============================================================================
