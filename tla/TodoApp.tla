------------------------------ MODULE TodoApp ------------------------------
(***************************************************************************)
(* utilities/todolist/app.cc: the window over the to-do list of TodoStore. *)
(* The window procedure is single-threaded but re-entrant: setting the     *)
(* title edit, checking a row or inserting one makes the control call it   *)
(* back before the setter returns, and every such call may change the      *)
(* selected item and dump the list.  A handler is therefore written as a   *)
(* function from the state of the window and the list to the state it      *)
(* leaves, which also collects the lists it dumped on the way; one action  *)
(* is one user gesture with all the callbacks it causes.                   *)
(***************************************************************************)
EXTENDS TodoStore, Integers

CONSTANTS
  Empty,       (* the empty title                                          *)
  NoRemark,    (* the empty remark                                         *)
  ClipEdit,    (* a title read into the 256-character buffer of EN_CHANGE  *)
  ClipAdd,     (* a title read into the 1024-character buffer of add       *)
  ClipRemark   (* a remark read into a 1024-character buffer               *)

ASSUME AppAssumption ==
  /\ Empty \in Titles /\ NoRemark \in Remarks
  /\ ClipEdit \in [Titles -> Titles] /\ ClipAdd \in [Titles -> Titles]
  /\ ClipRemark \in [Remarks -> Remarks]
  /\ \A t \in Titles : /\ ClipEdit[ClipEdit[t]] = ClipEdit[t]
                       /\ ClipEdit[ClipAdd[t]] = ClipEdit[t]
  /\ \A r \in Remarks : /\ ClipRemark[ClipRemark[r]] = ClipRemark[r]
                        /\ ClipRemark[Reencode[ClipRemark[r]]] = Reencode[ClipRemark[r]]

VARIABLES
  ui           (* the controls of the window, see UiType                   *)

appVars == <<storeVars, ui>>

NoItem == -1

Row == [id : Nat, text : Titles, checked : BOOLEAN]

(* rows: the list view, top row first; sel: ids of the selected rows;      *)
(* title, remark, deadline, remind: the form (0: date unset); add: "+" is  *)
(* shown, and not "delete"; boot: FreshListView has not ended; shown       *)
(* (history): the item FillToMore last put in the form; odd (history): a   *)
(* gesture has filled the form over another selection, or changed the      *)
(* selection under the form, and none has brought them together again.     *)
UiType == [rows : Seq(Row), sel : SUBSET Nat, title : Titles, remark : Remarks,
           deadline : Times, remind : Times, add : BOOLEAN, expanded : BOOLEAN,
           boot : BOOLEAN, shown : Nat \cup {NoItem}, odd : BOOLEAN]

FreshUi == [rows |-> <<>>, sel |-> {}, title |-> Empty, remark |-> NoRemark,
            deadline |-> 0, remind |-> 0, add |-> TRUE, expanded |-> FALSE,
            boot |-> TRUE, shown |-> NoItem, odd |-> FALSE]

-----------------------------------------------------------------------------
(* Handlers as functions.  A working state w has the fields of ui, the     *)
(* list, the counter, and the lists dumped so far.                         *)

Work ==
  [rows |-> ui.rows, sel |-> ui.sel, title |-> ui.title, remark |-> ui.remark,
   deadline |-> ui.deadline, remind |-> ui.remind, add |-> ui.add,
   expanded |-> ui.expanded, boot |-> ui.boot, shown |-> ui.shown, odd |-> ui.odd,
   list |-> todos, tick |-> tick, dumps |-> <<>>]

Controls(w) ==
  [rows |-> w.rows, sel |-> w.sel, title |-> w.title, remark |-> w.remark,
   deadline |-> w.deadline, remind |-> w.remind, add |-> w.add,
   expanded |-> w.expanded, boot |-> w.boot, shown |-> w.shown, odd |-> w.odd]

Dumped(w, s) == [w EXCEPT !.list = s, !.dumps = Append(w.dumps, s)]

(* ListView_GetNextItem(-1, LVNI_SELECTED): the topmost selected row. *)
ChosenRow(w) ==
  CHOOSE i \in DOMAIN w.rows :
    /\ w.rows[i].id \in w.sel
    /\ \A j \in 1..(i - 1) : w.rows[j].id \notin w.sel

Chosen(w) == w.rows[ChosenRow(w)].id

SetRow(w, id, f, v) ==
  [w EXCEPT !.rows = [i \in DOMAIN w.rows |->
     IF w.rows[i].id = id THEN [w.rows[i] EXCEPT ![f] = v] ELSE w.rows[i]]]

(* Defect: the title is changed behind the manager's back. *)
OnTitleChangeUnsaved(w) ==
  IF w.sel = {} THEN w
  ELSE LET id == Chosen(w)
       IN  SetRow([w EXCEPT !.list = WithTitle(w.list, id, ClipEdit[w.title])],
                  id, "text", ClipEdit[w.title])

(* EN_CHANGE of the title edit, whoever changed it. *)
OnTitleChange(w) ==
  IF w.sel = {} THEN w
  ELSE LET id  == Chosen(w)
           str == ClipEdit[w.title]
       IN  SetRow(Dumped(w, WithTitle(w.list, id, str)), id, "text", str)

(* SetDlgItemText: a single-line edit reports the change, the multiline    *)
(* remark edit and the date pickers do not.                                *)
SetTitle(w, str) == OnTitleChange([w EXCEPT !.title = str])

DeselectAll(w) == [w EXCEPT !.sel = {}, !.odd = FALSE]

ClearMore(w) ==
  [SetTitle(w, Empty) EXCEPT !.remark = NoRemark, !.deadline = 0, !.remind = 0,
                             !.add = TRUE, !.shown = NoItem]

(* current_todo is a copy: the callback may have changed the item since. *)
FillToMore(w, id) ==
  LET todo == w.list[At(w.list, id)]
  IN  [SetTitle(w, todo.text) EXCEPT !.remark = todo.remark,
         !.deadline = todo.deadline, !.remind = todo.remind,
         !.add = FALSE, !.shown = id]

(* Defects: the form is cleared while its item is still selected; the status *)
(* is not updated.                                                           *)
OnCheckClearingFirst(w, id, checked, now) ==
  LET c == DeselectAll(ClearMore(SetRow(w, id, "checked", checked)))
  IN  Dumped(c, WithStatus(c.list, id, checked, now))

OnCheckShownOnly(w, id, checked, now) ==
  ClearMore(DeselectAll(SetRow(w, id, "checked", checked)))

(* LVN_ITEMCHANGED with another state image: a row was checked or          *)
(* unchecked, by the user or by the program.                               *)
OnCheck(w, id, checked, now) ==
  LET c == ClearMore(DeselectAll(SetRow(w, id, "checked", checked)))
  IN  Dumped(c, WithStatus(c.list, id, checked, now))

(* ListView_InsertItem at row 0 and ListView_SetCheckState(checked): the   *)
(* control reports each change of the row's state image it makes.          *)
InsertRow(w, id, text, checked, reports, now) ==
  LET row    == [id |-> id, text |-> text, checked |-> checked]
      plain  == [w EXCEPT !.rows = <<row>> \o w.rows]
      first  == OnCheck(plain, id, reports[1], now)
      second == OnCheck(first, id, reports[2], now)
  IN  IF reports = <<>> THEN plain ELSE IF Len(reports) = 1 THEN first ELSE second

Reports(checked) ==
  {<<>>, <<checked>>} \cup (IF checked THEN {<<FALSE, TRUE>>} ELSE {})

(* What the dumps of a handler leave of the file, core.cc:220 looking at no *)
(* result: the last list, or what a dump that was not fully written leaves, *)
(* or, behind dumps that could not open the file, what was there before.    *)
Written(w) == {WholeFile(w.dumps[i]) : i \in DOMAIN w.dumps}

Left(w) ==
  IF w.dumps = <<>> THEN {file}
  ELSE {WholeFile(Last(w.dumps))}
       \cup (IF "short" \in Faults THEN {TornFile} ELSE {})
       \cup (IF "unopened" \in Faults THEN {file} \cup Written(w) ELSE {})

(* The handler returns, or the process is killed in it: before its dumps,  *)
(* between two of them, or inside one.                                     *)
Return(w) ==
  \/ /\ todos' = w.list /\ tick' = w.tick /\ mode' = mode
     /\ ui' = Controls(w)
     /\ file' \in Left(w)
  \/ /\ "killed" \in Faults
     /\ todos' = <<>> /\ tick' = 0 /\ mode' = "off"
     /\ ui' = [FreshUi EXCEPT !.odd = w.odd]
     /\ file' \in {file} \cup Written(w) \cup {TornFile : i \in DOMAIN w.dumps}

-----------------------------------------------------------------------------
(* Start and end *)

AppInit == StoreInit /\ ui = FreshUi

(* WinMain up to FreshListView; the manager is constructed on first use. *)
Launch == Load /\ ui' = FreshUi

(* Defect: `todo` refers to the item, which the insertion has set unfinished *)
(* by the time its status is read.                                           *)
ShowNextItemByReference ==
  /\ mode = "run" /\ ui.boot /\ Len(ui.rows) < Len(todos)
  /\ LET todo == todos[Len(ui.rows) + 1]
     IN  \E now \in Stamps : Return(InsertRow(Work, todo.id, todo.text, FALSE, <<FALSE>>, now))

(* FreshListView, one item of its loop; `todo` is a copy of the item. *)
ShowNextItem ==
  /\ mode = "run" /\ ui.boot /\ Len(ui.rows) < Len(todos)
  /\ LET todo == todos[Len(ui.rows) + 1]
     IN  \E reports \in Reports(todo.status), now \in Stamps :
           Return(InsertRow(Work, todo.id, todo.text, todo.status, reports, now))

StartLoop ==
  /\ mode = "run" /\ ui.boot /\ Len(ui.rows) = Len(todos)
  /\ ui' = [ui EXCEPT !.boot = FALSE]
  /\ UNCHANGED storeVars

(* The message loop runs. *)
Ready == mode = "run" /\ ~ui.boot

(* The tray menu's Exit, or the process is killed while idle. *)
Exit == Ready /\ Quit /\ ui' = FreshUi

-----------------------------------------------------------------------------
(* Gestures on the list: the selection moves, then NM_CLICK is handled *)

RowIds == {ui.rows[i].id : i \in DOMAIN ui.rows}

ClickRow(id) ==
  Ready /\ Return(FillToMore([Work EXCEPT !.sel = {id}, !.odd = FALSE], id))

ClickBlank ==
  Ready /\ Return(ClearMore(DeselectAll(Work)))

(* A click on the second column selects nothing, yet hits the row. *)
ClickColumn1(id) ==
  Ready /\ Return(FillToMore(DeselectAll(Work), id))

CtrlClickRow(id) ==
  /\ Ready
  /\ LET toggled == IF id \in ui.sel THEN ui.sel \ {id} ELSE ui.sel \cup {id}
     IN  Return(FillToMore([Work EXCEPT !.sel = toggled, !.odd = toggled # {}], id))

CtrlClickBlank == Ready /\ Return(ClearMore([Work EXCEPT !.odd = ui.sel # {}]))

(* The arrow keys move the selection and send no NM_CLICK. *)
ArrowTo(id) ==
  /\ Ready
  /\ ui' = [ui EXCEPT !.sel = {id}, !.odd = TRUE]
  /\ UNCHANGED storeVars

(* The list view reports a click on a check box as a change of the box and *)
(* as a click; in which order is not in the source.                        *)
CheckRow(id, now) ==
  LET checked == ~todos[At(todos, id)].status
  IN  /\ Ready
      /\ \/ Return(FillToMore(OnCheck(Work, id, checked, now), id))
         \/ Return([OnCheck(FillToMore(Work, id), id, checked, now)
                       EXCEPT !.odd = ui.sel # {}])

-----------------------------------------------------------------------------
(* The form and the buttons; what show_more hides is not within reach *)

TypeTitle(str) == Ready /\ Return(SetTitle(Work, str))

TypeRemark(str) ==
  /\ Ready /\ ui.expanded
  /\ LET w == [Work EXCEPT !.remark = str]
     IN  Return(IF w.sel = {} THEN w
                ELSE Dumped(w, WithRemark(w.list, Chosen(w), ClipRemark[str])))

(* DTN_DATETIMECHANGE: clearing a date reports no time, and the handler    *)
(* stores whatever timestamp the structure converts to, never 0.           *)
Timestamps(t) == IF t = 0 THEN Times \ {0} ELSE {t}

PickDeadline(t) ==
  /\ Ready /\ ui.expanded
  /\ \E stamp \in Timestamps(t) :
       LET w == [Work EXCEPT !.deadline = t]
       IN  Return(IF w.sel = {} THEN w
                  ELSE Dumped(w, WithDeadline(w.list, Chosen(w), stamp)))

PickRemind(t) ==
  /\ Ready /\ ui.expanded
  /\ \E stamp \in Timestamps(t) :
       LET w == [Work EXCEPT !.remind = t]
       IN  Return(IF w.sel = {} THEN w
                  ELSE Dumped(w, WithRemind(w.list, Chosen(w), stamp)))

(* The "+" button, and the Enter key while "+" is shown: add() comes       *)
(* before the row, the form is cleared last.                               *)
AddTodoItem(now) ==
  LET text == ClipAdd[ui.title]
      item == [id |-> tick, text |-> text, remark |-> ClipRemark[ui.remark],
               status |-> FALSE, lastmodified |-> now, deadline |-> ui.deadline,
               remind |-> ui.remind, everyday |-> FALSE]
      w    == [Dumped(Work, Append(todos, item)) EXCEPT !.tick = tick + 1]
  IN  /\ Ready /\ ui.add /\ text # Empty /\ tick < MaxTick
      /\ \E reports \in Reports(FALSE) :
           Return(ClearMore(InsertRow(w, tick, text, FALSE, reports, now)))

(* Defect: the deleted row stays selected. *)
DeleteItemSelected ==
  /\ Ready /\ ui.expanded /\ ~ui.add /\ ui.sel # {}
  /\ LET id == Chosen(Work)
     IN  Return([Dumped(Work, RemoveAt(todos, At(todos, id)))
                   EXCEPT !.rows = RemoveAt(@, ChosenRow(Work))])

(* The delete button: the form keeps the deleted item. *)
DeleteItem ==
  /\ Ready /\ ui.expanded /\ ~ui.add /\ ui.sel # {}
  /\ LET id == Chosen(Work)
         w  == Dumped(Work, RemoveAt(todos, At(todos, id)))
     IN  Return([w EXCEPT !.rows = RemoveAt(@, ChosenRow(Work)), !.sel = @ \ {id}])

(* Defect: collapsing leaves the row selected. *)
ToggleExpandSelected ==
  /\ Ready
  /\ LET w == [Work EXCEPT !.expanded = ~@]
     IN  Return(IF w.expanded THEN w ELSE ClearMore([w EXCEPT !.odd = FALSE]))

ToggleExpand ==
  /\ Ready
  /\ LET w == [Work EXCEPT !.expanded = ~@]
     IN  Return(IF w.expanded THEN w ELSE ClearMore(DeselectAll(w)))

AppNext ==
  \/ Launch \/ ShowNextItem \/ StartLoop \/ Exit
  \/ ClickBlank \/ CtrlClickBlank \/ DeleteItem \/ ToggleExpand
  \/ \E now \in Stamps : AddTodoItem(now)
  \/ \E str \in Titles : TypeTitle(str)
  \/ \E str \in Remarks : TypeRemark(str)
  \/ \E t \in Times : PickDeadline(t) \/ PickRemind(t)
  \/ \E id \in RowIds :
       \/ ClickRow(id) \/ ClickColumn1(id) \/ CtrlClickRow(id) \/ ArrowTo(id)
       \/ \E now \in Stamps : CheckRow(id, now)

AppSpec == AppInit /\ [][AppNext]_appVars

-----------------------------------------------------------------------------
(* Properties *)

(* Type invariant of the window. *)
AppTypeOK == StoreTypeOK /\ ui \in UiType /\ ui.sel \subseteq RowIds

(* The list view is the list, newest item first, row by row with its id,   *)
(* its text and its check mark, however the handlers nested; while         *)
(* FreshListView runs it is the part shown so far.  Every id a handler     *)
(* looks up is the id of a row, so no lookup misses (core.cc:154).         *)
RowOf(item) == [id |-> item.id, text |-> item.text, checked |-> item.status]

RowsMirrorList ==
  mode = "run" =>
    /\ ui.rows = Reverse([i \in 1..Len(ui.rows) |-> RowOf(todos[i])])
    /\ ~ui.boot => Len(ui.rows) = Len(todos)

(* A new item cannot be added, nor the form cleared, over a selected one:  *)
(* while an item is selected the form holds that item, and "+" is hidden.  *)
(* Ctrl-clicks and arrow keys part the two until the next plain click:     *)
(* ~odd.                                                                   *)
FormShowsSelection ==
  ~ui.odd /\ ui.sel # {} =>
    LET item == todos[At(todos, Chosen(Work))]
    IN  /\ ui.sel = {ui.shown} /\ ~ui.add
        /\ ClipEdit[ui.title] = item.text
        /\ ClipRemark[ui.remark] = item.remark

(* A gesture changes texts and dates of one item only, the one it leaves   *)
(* in the form; a click that opens an item changes nothing of it but a     *)
(* title longer than the edit's buffer, which it clips (app.cc:368).       *)
(* While the form is parted from the selection it writes to the selected   *)
(* item, and a check box that reports its click first writes the title of  *)
(* its row over the selected item: both are odd.                           *)
OnlyShownItemChanges ==
  [][mode = "run" /\ mode' = "run" /\ ~ui'.odd =>
       \A i \in DOMAIN todos, j \in DOMAIN todos' :
         LET old == todos[i]
             new == todos'[j]
             edited == ui.shown = old.id /\ ui'.shown = old.id
         IN  old.id = new.id /\ ~edited =>
               /\ new.remark = old.remark
               /\ new.deadline = old.deadline /\ new.remind = old.remind
               /\ \/ new.text = old.text
                  \/ ui'.shown = old.id /\ new.text = ClipEdit[old.text]]_appVars

(* Filling the list view at start changes no item: the check notifications *)
(* it causes (app.cc:674) leave every status as it was loaded.             *)
DisplayingChangesNothing ==
  [][ui.boot /\ mode = "run" /\ mode' = "run" =>
       /\ Len(todos') = Len(todos)
       /\ \A i \in DOMAIN todos :
            [todos'[i] EXCEPT !.lastmodified = 0] = [todos[i] EXCEPT !.lastmodified = 0]]_appVars

(* A gesture, or the part of it a kill leaves in the file, changes one item *)
(* of the saved list, however many dumps the handler makes (app.cc:674),    *)
(* short of the gestures that write the form over another item.             *)
GestureSavesOneItem ==
  [][~ui'.odd /\ file.state = "whole" /\ file'.state = "whole" =>
       OneItemApart(file.items, file'.items)]_appVars

=============================================================================
