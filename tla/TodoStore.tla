----------------------------- MODULE TodoStore -----------------------------
(***************************************************************************)
(* utilities/todolist/core.cc: the to-do list kept by core::TodoMgr, a     *)
(* vector of items searched by id with std::equal_range, dumped as JSON to *)
(* todos.json after every change and loaded once, when the singleton is    *)
(* constructed.  One action is one public member function, its dump()      *)
(* included.  Faults names what the environment may do to a dump or to a   *)
(* load; core.cc checks none of it.                                        *)
(***************************************************************************)
EXTENDS Naturals, Sequences, FiniteSets, SequencesExt

CONSTANTS
  Titles,      (* values of TodoItem::text                                  *)
  Remarks,     (* values of TodoItem::remark                                *)
  Times,       (* values of deadline and remind; 0 is "not set"             *)
  Stamps,      (* what timestamp() may return: the system clock             *)
  Reencode,    (* a text after wstrToUTF8 and utf8Towstr: half a surrogate  *)
               (* pair, which a clipped title may end with, comes back as   *)
               (* U+FFFD                                                    *)
  Faults,      (* subset of FaultKinds                                      *)
  MaxTick      (* bound: items pushed in one run of the program             *)

Texts == Titles \cup Remarks

(* "unopened": the ofstream or the ifstream cannot open the file (another   *)
(* program holds it); "short": the file is truncated and not fully written  *)
(* (disk full); "killed": the process dies inside dump().                   *)
FaultKinds == {"unopened", "short", "killed"}

ASSUME StoreAssumption ==
  /\ Times \subseteq Nat /\ 0 \in Times
  /\ Stamps \subseteq Nat
  /\ Reencode \in [Texts -> Texts]
  /\ \A t \in Titles : Reencode[t] \in Titles
  /\ \A r \in Remarks : Reencode[r] \in Remarks
  /\ \A t \in Texts : Reencode[Reencode[t]] = Reencode[t]
  /\ Faults \subseteq FaultKinds
  /\ MaxTick \in Nat

VARIABLES
  todos,       (* TodoMgr::Impl::todos                                      *)
  tick,        (* TodoMgr::Impl::tick                                       *)
  file,        (* todos.json                                                *)
  mode         (* "off", "run", or "dead": terminated by an uncaught        *)
               (* exception while loading                                   *)

storeVars == <<todos, tick, file, mode>>

Item == [id : Nat, text : Titles, remark : Remarks, status : BOOLEAN,
         lastmodified : Stamps, deadline : Times, remind : Times,
         everyday : BOOLEAN]

SavedItem == [text : Titles, remark : Remarks, status : BOOLEAN,
              lastmodified : Stamps, deadline : Times, remind : Times]

FileType == [state : {"absent", "torn", "whole"}, items : Seq(SavedItem)]

NoFile   == [state |-> "absent", items |-> <<>>]
TornFile == [state |-> "torn", items |-> <<>>]

-----------------------------------------------------------------------------
(* Looking an item up *)

(* Defect: the search ends past the item. *)
LowerBoundPast(s, id) == Cardinality({i \in DOMAIN s : s[i].id <= id}) + 1

(* std::equal_range over the vector, by id: the number of smaller ids and   *)
(* the number of ids not greater, which is what the binary search returns   *)
(* when the vector is ordered by id, and only then.                         *)
LowerBound(s, id) == Cardinality({i \in DOMAIN s : s[i].id < id}) + 1
UpperBound(s, id) == Cardinality({i \in DOMAIN s : s[i].id <= id}) + 1

At(s, id) == LowerBound(s, id)

Live == {todos[i].id : i \in DOMAIN todos}

-----------------------------------------------------------------------------
(* The file *)

(* Defect: the title is written under both keys. *)
SavedTitleTwice(item) ==
  [text |-> Reencode[item.text], remark |-> Reencode[item.text],
   status |-> item.status, lastmodified |-> item.lastmodified,
   deadline |-> item.deadline, remind |-> item.remind]

(* What dump() writes of an item: neither the id nor everyday. *)
Saved(item) ==
  [text |-> Reencode[item.text], remark |-> Reencode[item.remark],
   status |-> item.status, lastmodified |-> item.lastmodified,
   deadline |-> item.deadline, remind |-> item.remind]

Image(s) == [i \in DOMAIN s |-> Saved(s[i])]

WholeFile(s) == [state |-> "whole", items |-> Image(s)]

(* What load() makes of a written item: push() numbers it. *)
Restored(rec, id) ==
  [id |-> id, text |-> rec.text, remark |-> rec.remark,
   status |-> rec.status, lastmodified |-> rec.lastmodified,
   deadline |-> rec.deadline, remind |-> rec.remind, everyday |-> FALSE]

Loaded(recs) == [i \in DOMAIN recs |-> Restored(recs[i], i - 1)]

(* The change made in memory, then dump(): the list is now s, the counter k. *)
Commit(s, k) ==
  \/ /\ todos' = s /\ tick' = k /\ mode' = mode
     /\ \/ file' = WholeFile(s)
        \/ "unopened" \in Faults /\ file' = file
        \/ "short" \in Faults /\ file' = TornFile
  \/ /\ "killed" \in Faults
     /\ todos' = <<>> /\ tick' = 0 /\ mode' = "off"
     /\ file' = TornFile

-----------------------------------------------------------------------------
(* The operations *)

StoreInit == todos = <<>> /\ tick = 0 /\ file = NoFile /\ mode = "off"

(* TodoMgr::TodoMgr and load(): a file that cannot be opened is taken for   *)
(* an empty list, a torn one throws parse_error and nobody catches it.      *)
Load ==
  /\ mode # "run"
  /\ UNCHANGED file
  /\ \/ /\ file.state = "whole"
        /\ todos' = Loaded(file.items) /\ tick' = Len(file.items) /\ mode' = "run"
     \/ /\ file.state = "absent" \/ "unopened" \in Faults
        /\ todos' = <<>> /\ tick' = 0 /\ mode' = "run"
     \/ /\ file.state = "torn"
        /\ todos' = <<>> /\ tick' = 0 /\ mode' = "dead"

(* The program ends, or is killed outside dump(): nothing is written. *)
Quit ==
  /\ mode = "run"
  /\ todos' = <<>> /\ tick' = 0 /\ mode' = "off"
  /\ UNCHANGED file

AddTodo(text, remark, deadline, remind, now) ==
  /\ mode = "run" /\ tick < MaxTick
  /\ LET item == [id |-> tick, text |-> text, remark |-> remark, status |-> FALSE,
                  lastmodified |-> now, deadline |-> deadline, remind |-> remind,
                  everyday |-> FALSE]
     IN  Commit(Append(todos, item), tick + 1)

(* Defect: erase(lower, end()) instead of erase(lower, upper). *)
RemoveTodoToEnd(id) ==
  mode = "run" /\ Commit(SubSeq(todos, 1, At(todos, id) - 1), tick)

RemoveTodo(id) ==
  /\ mode = "run"
  /\ Commit(RemoveAt(todos, At(todos, id)), tick)

WithStatus(s, id, finished, now) ==
  [s EXCEPT ![At(s, id)].status = finished, ![At(s, id)].lastmodified = now]

UpdateStatus(id, finished, now) ==
  mode = "run" /\ Commit(WithStatus(todos, id, finished, now), tick)

WithTitle(s, id, str) == [s EXCEPT ![At(s, id)].text = str]

UpdateTitle(id, str) ==
  mode = "run" /\ Commit(WithTitle(todos, id, str), tick)

WithRemark(s, id, str) == [s EXCEPT ![At(s, id)].remark = str]

UpdateRemark(id, str) ==
  mode = "run" /\ Commit(WithRemark(todos, id, str), tick)

WithDeadline(s, id, t) == [s EXCEPT ![At(s, id)].deadline = t]

UpdateDeadline(id, t) ==
  mode = "run" /\ Commit(WithDeadline(todos, id, t), tick)

WithRemind(s, id, t) == [s EXCEPT ![At(s, id)].remind = t]

UpdateRemaind(id, t) ==
  mode = "run" /\ Commit(WithRemind(todos, id, t), tick)

WithEveryday(s, id, everyday) == [s EXCEPT ![At(s, id)].everyday = everyday]

UpdateEveryday(id, everyday) ==
  mode = "run" /\ Commit(WithEveryday(todos, id, everyday), tick)

(* The caller names live items only: TodoApp shows that app.cc does. *)
StoreNext ==
  \/ Load
  \/ Quit
  \/ \E t \in Titles, r \in Remarks, d, m \in Times, now \in Stamps :
       AddTodo(t, r, d, m, now)
  \/ \E id \in Live :
       \/ RemoveTodo(id)
       \/ \E b \in BOOLEAN, now \in Stamps : UpdateStatus(id, b, now)
       \/ \E t \in Titles : UpdateTitle(id, t)
       \/ \E r \in Remarks : UpdateRemark(id, r)
       \/ \E t \in Times : UpdateDeadline(id, t)
       \/ \E t \in Times : UpdateRemaind(id, t)
       \/ \E b \in BOOLEAN : UpdateEveryday(id, b)

StoreSpec == StoreInit /\ [][StoreNext]_storeVars

-----------------------------------------------------------------------------
(* Properties *)

(* Type invariant: every field, in the vector and under its key of the      *)
(* file, holds what belongs there; a process that does not run holds no     *)
(* list.                                                                    *)
StoreTypeOK ==
  /\ todos \in Seq(Item)
  /\ tick \in Nat
  /\ file \in FileType
  /\ mode \in {"off", "run", "dead"}
  /\ mode # "run" => todos = <<>> /\ tick = 0

(* The precondition of equal_range in Impl::at (core.cc:151): the vector is *)
(* ordered by id, and push() appends an id above every id in it.            *)
IdsOrdered ==
  /\ \A i, j \in DOMAIN todos : i < j => todos[i].id < todos[j].id
  /\ \A i \in DOMAIN todos : todos[i].id < tick

(* The assertion of Impl::at (core.cc:154) holds for every id the list      *)
(* holds, and the search ends on the one item with that id: an update never *)
(* reaches a neighbour.                                                     *)
LookupHits ==
  \A i \in DOMAIN todos :
    /\ LowerBound(todos, todos[i].id) = i
    /\ UpperBound(todos, todos[i].id) = i + 1

(* Every member function that changes the list also saves it: while the     *)
(* program runs, the file is the list, and a crash between two operations   *)
(* loses nothing.  Where the disk may be full the file may be torn instead; *)
(* never is it an older list, unless a file could not be opened.            *)
SavedIsCurrent ==
  mode = "run" =>
    \/ file = WholeFile(todos)
    \/ file = NoFile /\ todos = <<>>
    \/ "short" \in Faults /\ file = TornFile

(* After a kill inside dump() or on a full disk the program cannot be       *)
(* started again by any number of attempts: load() has no way past a torn   *)
(* file it can open (core.cc:228), and only a running program rewrites it.  *)
Unstartable == mode # "run" /\ file.state = "torn"
TornIsForever == [](Unstartable => []Unstartable)

(* The new list differs from the old one in one item, added at the end,     *)
(* removed or rewritten in place.                                           *)
OneItemApart(old, new) ==
  \/ new = old
  \/ \E item \in SavedItem : new = Append(old, item)
  \/ \E i \in DOMAIN old :
       \/ new = RemoveAt(old, i)
       \/ \E item \in SavedItem : new = [old EXCEPT ![i] = item]

(* Whatever happens to a dump, a file that can be parsed holds one list the *)
(* program held when it wrote it, complete and in order: there is no        *)
(* mixture of an old list and a new one.                                    *)
NoMixedFile ==
  [][file' # file /\ file'.state = "whole" => file' = WholeFile(todos')]_storeVars

-----------------------------------------------------------------------------
(* The store implements TodoMap *)

Content(item) ==
  [f \in {"text", "remark", "status", "lastmodified", "deadline", "remind", "everyday"} |->
    item[f]]

AbsMap ==
  [h \in Live |-> Content(todos[CHOOSE i \in DOMAIN todos : todos[i].id = h])]

KeptContent(c) ==
  [c EXCEPT !.text = Reencode[c.text], !.remark = Reencode[c.remark], !.everyday = FALSE]

AddedContents ==
  [text : Titles, remark : Remarks, status : {FALSE}, lastmodified : Stamps,
   deadline : Times, remind : Times, everyday : {FALSE}]

Abs == INSTANCE TodoMap WITH
         NewContents <- AddedContents,
         Kept <- KeptContent,
         Failures <- Faults,
         map <- AbsMap,
         kept <- [i \in DOMAIN file.items |-> Content(Restored(file.items[i], 0))],
         broken <- file.state = "torn",
         on <- mode = "run"

(* The vector, the search and the file together behave as the map of        *)
(* handles: stable handles, one item touched by an operation, insertion     *)
(* order kept, everything but everyday restored by a restart.  Of a failed  *)
(* dump the next start finds the list before it, or nothing it can read; a  *)
(* start that cannot open the file begins with an empty list, which the     *)
(* next dump writes over the kept one (core.cc:226).                        *)
ImplementsTodoMap == Abs!MapSpec

=============================================================================
