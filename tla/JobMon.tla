------------------------------- MODULE JobMon -------------------------------
(***************************************************************************)
(* process/JobMon/MainDlg.cpp: a dialog that holds one job handle and one  *)
(* completion port, and a monitor thread for every port it ever bound.  A  *)
(* monitor never ends: it reads m_hCompletionPort anew in every turn, and  *)
(* writes what it got to the dialog's log list with one SendMessage for    *)
(* each step.  A command of the dialog is one action (messages sent by     *)
(* other threads wait until the UI thread is back in its message loop),    *)
(* unless it opens a message box, whose loop lets them through.            *)
(***************************************************************************)
EXTENDS Naturals, Sequences, FiniteSets, SequencesExt

CONSTANTS
  Monitors,    (* the threads OnBindToIoCompletion can start: a bound, also *)
               (* of the binds                                             *)
  MaxEvents,   (* bound: notifications the system posts                    *)
  MaxLines,    (* bound: lines of the dialog's own in the log              *)
  Fits         (* processes whose ids fit in UpdateJob's 2048 bytes        *)

ASSUME JobMonAssumption ==
  /\ IsFiniteSet(Monitors)
  /\ MaxEvents \in Nat /\ MaxLines \in Nat /\ Fits \in Nat

VARIABLES
  job,         (* m_hJob holds a handle                                    *)
  port,        (* m_hCompletionPort: 0, or the number of the bind that     *)
               (* made it                                                  *)
  binds,       (* how many ports were bound                                *)
  enabled,     (* the groups of buttons that are enabled                   *)
  box,         (* the dialog box over the dialog: "none", "error" (a       *)
               (* message that is logged when it is closed) or "plain"     *)
  list,        (* size of m_ProcessList                                    *)
  count,       (* item count of the owner-data list view over it           *)
  log,         (* rows of m_Log                                            *)
  queue,       (* notifications in the port's queue                        *)
  posted,      (* how many were posted                                     *)
  closes,      (* history: whether OnCloseHandle ran                       *)
  mpc,         (* where each monitor is                                    *)
  mport,       (* the handle it read                                       *)
  mmsg,        (* the notification it took                                 *)
  mrow         (* its n: the item count, then the row                      *)

vars == <<job, port, binds, enabled, box, list, count, log, queue, posted, closes,
          mpc, mport, mmsg, mrow>>

handles  == <<job, port, binds, enabled, closes>>
procs    == <<list, count>>
events   == <<queue, posted>>
monitors == <<mpc, mport, mmsg, mrow>>

(* Notifications are numbered from 1; 0 is a message of the dialog itself.  *)
(* A row has the message it was inserted for and the text it shows.         *)
Dialog == 0
Blank == MaxEvents + 1
LogRow == [by : 0..MaxEvents, text : 0..Blank]

(* "new": Create and Open; "use": everything that needs a job; "bind". *)
Buttons == {"new", "use", "bind"}

Started == {m \in Monitors : mpc[m] # "none"}

(* Type invariant.  The owner-data list view asks OnGetDisplayInfo for      *)
(* indices below its count only, and each is one of m_ProcessList           *)
(* (MainDlg.cpp:90), also after a query that failed.                        *)
JobMonTypeOK ==
  /\ job \in BOOLEAN /\ binds \in 0..Cardinality(Monitors) /\ port \in 0..binds
  /\ enabled \subseteq Buttons /\ box \in {"none", "error", "plain"} /\ closes \in BOOLEAN
  /\ list \in 0..Fits /\ count \in 0..list
  /\ log \in Seq(LogRow)
  /\ queue \in Seq(1..MaxEvents) /\ posted \in 0..MaxEvents
  /\ mpc \in [Monitors -> {"none", "loop", "wait", "count", "insert", "text"}]
  /\ mport \in [Monitors -> 0..Cardinality(Monitors)]
  /\ mmsg \in [Monitors -> 0..MaxEvents]
  /\ mrow \in [Monitors -> Nat]

Init ==
  /\ job = FALSE /\ port = 0 /\ binds = 0 /\ enabled = {"new"} /\ box = "none"
  /\ list = 0 /\ count = 0 /\ log = <<>> /\ closes = FALSE
  /\ queue = <<>> /\ posted = 0
  /\ mpc = [m \in Monitors |-> "none"]
  /\ mport = [m \in Monitors |-> 0]
  /\ mmsg = [m \in Monitors |-> 0]
  /\ mrow = [m \in Monitors |-> 0]

-----------------------------------------------------------------------------
(* The dialog *)

(* AddLog on the UI thread: nothing comes between its steps. *)
AddLog ==
  /\ Cardinality({i \in DOMAIN log : log[i].by = Dialog}) < MaxLines
  /\ log' = Append(log, [by |-> Dialog, text |-> Dialog])

(* Defect: ids that did not fit are counted. *)
UpdateJobOneMore == \E k \in 0..Fits : list' = k /\ count' = k + 1

(* UpdateJob with a job: the list is renewed, or left when the ids do not fit. *)
UpdateJob ==
  \/ \E k \in 0..Fits : list' = k /\ count' = k
  \/ UNCHANGED procs

Idle == box = "none"

Opens(kind) ==
  /\ box' = kind
  /\ UNCHANGED <<handles, procs, log, events, monitors>>

(* DisplayError: the line is added when the user closes the box. *)
Fail == Opens("error")

DismissBox ==
  /\ box # "none" /\ box' = "none"
  /\ IF box = "error" THEN AddLog ELSE UNCHANGED log
  /\ UNCHANGED <<handles, procs, events, monitors>>

OnCreateJob ==
  /\ Idle /\ "new" \in enabled
  /\ \/ /\ job' = TRUE /\ enabled' = {"use", "bind"}
        /\ AddLog /\ UpdateJob
        /\ UNCHANGED <<port, binds, closes, box, events, monitors>>
     \/ Fail

(* Without a name it only says so. *)
OnOpenJob ==
  /\ Idle /\ "new" \in enabled
  /\ \/ /\ job' = TRUE /\ enabled' = {"use", "bind"}
        /\ UpdateJob
        /\ UNCHANGED <<port, binds, closes, box, log, events, monitors>>
     \/ Fail
     \/ Opens("plain")

(* The port is assigned before the thread that reads it is made.  That the  *)
(* thread could be made is asserted and no more (MainDlg.cpp:790): without  *)
(* it the port stays bound all the same.                                    *)
OnBindToIoCompletion(m) ==
  /\ Idle /\ "bind" \in enabled
  /\ \/ /\ binds < Cardinality(Monitors)
        /\ binds' = binds + 1 /\ port' = binds + 1
        /\ \/ mpc[m] = "none" /\ mpc' = [mpc EXCEPT ![m] = "loop"]
           \/ UNCHANGED mpc
        /\ enabled' = enabled \ {"bind"}
        /\ AddLog
        /\ UNCHANGED <<job, closes, box, procs, events, mport, mmsg, mrow>>
     \/ Fail

(* A line either way. *)
LineOrError == (AddLog /\ UNCHANGED <<handles, box, procs, events, monitors>>) \/ Fail

UsesJob == Idle /\ "use" \in enabled

OnAddExistingProcess == UsesJob /\ LineOrError

OnTerminateJob == UsesJob /\ LineOrError

OnChangeLimit == UsesJob /\ LineOrError

(* Without a path it only says so. *)
OnCreateProcess == UsesJob /\ (LineOrError \/ Opens("plain"))

OnBrowse == Idle /\ Opens("plain")

(* Defect: the port stays open. *)
OnCloseHandleJobOnly ==
  /\ Idle /\ "use" \in enabled
  /\ job' = FALSE /\ log' = <<>> /\ enabled' = {"new"} /\ closes' = TRUE
  /\ count' = 0 /\ list' = list
  /\ UNCHANGED <<box, port, binds, events, monitors>>

(* A closed port gives up what is queued. *)
OnCloseHandle ==
  /\ Idle /\ "use" \in enabled
  /\ job' = FALSE /\ port' = 0 /\ queue' = <<>> /\ log' = <<>>
  /\ enabled' = {"new"} /\ closes' = TRUE
  /\ count' = 0 /\ list' = list
  /\ UNCHANGED <<box, binds, posted, monitors>>

(* The timer also runs in the loop of a box. *)
OnTimer ==
  /\ job /\ UpdateJob
  /\ UNCHANGED <<handles, box, log, events, monitors>>

-----------------------------------------------------------------------------
(* The system posts a notification to the port of the job *)

Post ==
  /\ port # 0 /\ posted < MaxEvents
  /\ posted' = posted + 1 /\ queue' = Append(queue, posted + 1)
  /\ UNCHANGED <<handles, box, procs, log, monitors>>

-----------------------------------------------------------------------------
(* DoMonitorJob *)

Goto(m, pc) == mpc' = [mpc EXCEPT ![m] = pc]

(* Defect: the handle is read in the first turn only. *)
MonReadOnce(m) ==
  /\ mpc[m] = "loop" /\ Goto(m, "wait")
  /\ mport' = [mport EXCEPT ![m] = IF @ = 0 THEN port ELSE @]
  /\ UNCHANGED <<handles, box, procs, log, events, mmsg, mrow>>

MonRead(m) ==
  /\ mpc[m] = "loop" /\ Goto(m, "wait")
  /\ mport' = [mport EXCEPT ![m] = port]
  /\ UNCHANGED <<handles, box, procs, log, events, mmsg, mrow>>

(* Defect: everything queued is taken, and the first of it logged. *)
MonGetBatch(m) ==
  /\ mpc[m] = "wait"
  /\ \/ /\ mport[m] = port /\ port # 0 /\ queue # <<>>
        /\ mmsg' = [mmsg EXCEPT ![m] = Head(queue)] /\ queue' = <<>>
        /\ Goto(m, "count")
     \/ /\ mport[m] # port \/ port = 0
        /\ Goto(m, "loop") /\ UNCHANGED <<mmsg, queue>>
  /\ UNCHANGED <<handles, box, procs, log, posted, mport, mrow>>

(* GetQueuedCompletionStatus fails on a handle that is null or was closed. *)
MonGet(m) ==
  /\ mpc[m] = "wait"
  /\ \/ /\ mport[m] = port /\ port # 0 /\ queue # <<>>
        /\ mmsg' = [mmsg EXCEPT ![m] = Head(queue)] /\ queue' = Tail(queue)
        /\ Goto(m, "count")
     \/ /\ mport[m] # port \/ port = 0
        /\ Goto(m, "loop") /\ UNCHANGED <<mmsg, queue>>
  /\ UNCHANGED <<handles, box, procs, log, posted, mport, mrow>>

(* AddLog on a monitor: GetItemCount, InsertItem and SetItemText are three  *)
(* messages.  An index beyond the end inserts at the end.                   *)
MonCount(m) ==
  /\ mpc[m] = "count" /\ Goto(m, "insert")
  /\ mrow' = [mrow EXCEPT ![m] = Len(log) + 1]
  /\ UNCHANGED <<handles, box, procs, log, events, mport, mmsg>>

(* Defect: every row is inserted at the top. *)
MonInsertFirst(m) ==
  /\ mpc[m] = "insert" /\ Goto(m, "text")
  /\ log' = InsertAt(log, 1, [by |-> mmsg[m], text |-> Blank])
  /\ mrow' = [mrow EXCEPT ![m] = 1]
  /\ UNCHANGED <<handles, box, procs, events, mport, mmsg>>

MonInsert(m) ==
  LET n == IF mrow[m] > Len(log) THEN Len(log) + 1 ELSE mrow[m]
  IN  /\ mpc[m] = "insert" /\ Goto(m, "text")
      /\ log' = InsertAt(log, n, [by |-> mmsg[m], text |-> Blank])
      /\ mrow' = [mrow EXCEPT ![m] = n]
      /\ UNCHANGED <<handles, box, procs, events, mport, mmsg>>

(* Defect: the text goes to the last row instead of the inserted one. *)
MonTextLast(m) ==
  /\ mpc[m] = "text" /\ Goto(m, "loop") /\ log # <<>>
  /\ log' = [log EXCEPT ![Len(log)].text = mmsg[m]]
  /\ mrow' = [mrow EXCEPT ![m] = 0] /\ mmsg' = [mmsg EXCEPT ![m] = 0]
  /\ UNCHANGED <<handles, box, procs, events, mport>>

(* The row may be gone, or another one by now. *)
MonText(m) ==
  /\ mpc[m] = "text" /\ Goto(m, "loop")
  /\ log' = IF mrow[m] \in DOMAIN log
            THEN [log EXCEPT ![mrow[m]].text = mmsg[m]] ELSE log
  /\ mrow' = [mrow EXCEPT ![m] = 0] /\ mmsg' = [mmsg EXCEPT ![m] = 0]
  /\ UNCHANGED <<handles, box, procs, events, mport>>

Monitor(m) == MonRead(m) \/ MonGet(m) \/ MonCount(m) \/ MonInsert(m) \/ MonText(m)

-----------------------------------------------------------------------------

Next ==
  \/ DismissBox \/ OnCreateJob \/ OnOpenJob \/ OnAddExistingProcess
  \/ OnTerminateJob \/ OnChangeLimit \/ OnCreateProcess \/ OnBrowse
  \/ OnCloseHandle \/ OnTimer \/ Post
  \/ \E m \in Monitors : OnBindToIoCompletion(m) \/ Monitor(m)

Spec == Init /\ [][Next]_vars

(* The scheduler runs every monitor; the user and the system owe nothing. *)
FairSpec == Spec /\ \A m \in Monitors : WF_vars(Monitor(m))

-----------------------------------------------------------------------------
(* Properties *)

(* The assertions at the head of the handlers (MainDlg.cpp:505, 525, 568,   *)
(* 692, 767, 768): the buttons offer what the two handles allow.            *)
HandlersMayRun ==
  /\ "new" \in enabled => ~job
  /\ "use" \in enabled => job
  /\ "bind" \in enabled => job /\ port = 0

(* Until the first Close Handle a row shows the message it was made for, or *)
(* nothing yet, although the row number is older than the row.              *)
(* Afterwards it need not: two monitors can insert at the same place, and a *)
(* row number can outlive the log it was taken from.                        *)
RowsShowTheirMessage ==
  ~closes => \A i \in DOMAIN log : log[i].text \in {log[i].by, Blank}

(* Until then the log has the notifications in the order of the events,     *)
(* although the dialog's own lines may move in between.                     *)
LoggedInOrder ==
  ~closes =>
    \A i, j \in DOMAIN log : i < j /\ log[i].by > 0 /\ log[j].by > 0 => log[i].by < log[j].by

(* A notification reaches the log, unless the handle is closed before, also *)
(* of a port whose own thread could not be made if an earlier port's was:   *)
(* that monitor finds the handle.  What a port receives while the program   *)
(* has no monitor at all stays in its queue: there is no other try to make  *)
(* one (MainDlg.cpp:787-790), only Close Handle and another bind.           *)
NothingMissed ==
  \A e \in 1..MaxEvents :
    (\E i \in DOMAIN queue : queue[i] = e)
      ~> (port = 0 \/ Started = {} \/ \E i \in DOMAIN log : log[i].by = e)

(* A port that stays bound ends up being served by every monitor that was   *)
(* ever started, those of closed ports included.  Where its own thread      *)
(* could not be made there may be none of them.                             *)
AllServe ==
  \A p \in 1..Cardinality(Monitors) :
    <>[](port = p) => <>[](\A m \in Started : mport[m] = p)

=============================================================================
