---------------------------- MODULE JobMon_proofs ----------------------------
(***************************************************************************)
(* Theorems about JobMon, for any number of monitors, notifications and    *)
(* lines.  The handlers' assertions rest on the buttons and the two        *)
(* handles; the log rests on there being one monitor until the first Close *)
(* Handle, and on what that monitor knows while it is between two of its   *)
(* messages.                                                               *)
(***************************************************************************)
EXTENDS JobMon, FiniteSetTheorems, SequenceTheorems, TLAPS

(* A port is bound only while a job is open. *)
HandlesInv == HandlersMayRun /\ (~job => port = 0)

(* Binding is offered once for each job, and jobs come one after the other *)
(* only by Close Handle.                                                   *)
OneMonitor ==
  ~closes =>
    /\ enabled \cap {"new", "bind"} # {} => Started = {}
    /\ \A m, n \in Started : m = n

(* What was posted and is not taken comes after everything in the log.     *)
QueueInv ==
  ~closes =>
    /\ \A k \in DOMAIN queue : queue[k] <= posted
    /\ \A k, l \in DOMAIN queue : k < l => queue[k] < queue[l]
    /\ \A i \in DOMAIN log : log[i].by <= posted
    /\ \A i \in DOMAIN log, k \in DOMAIN queue : log[i].by < queue[k]

(* The notification a monitor has taken comes between the two; the row it  *)
(* is about to insert at is behind every notification of the log, and the  *)
(* row it has inserted is still where it was.                              *)
TakenInv ==
  ~closes =>
    \A m \in Monitors :
      /\ mpc[m] \in {"count", "insert"} =>
           /\ mmsg[m] \in 1..posted
           /\ \A i \in DOMAIN log : log[i].by < mmsg[m]
           /\ \A k \in DOMAIN queue : mmsg[m] < queue[k]
      /\ mpc[m] = "insert" =>
           /\ mrow[m] \in 1..(Len(log) + 1)
           /\ \A i \in DOMAIN log : i >= mrow[m] => log[i].by = Dialog
      /\ mpc[m] = "text" =>
           mrow[m] \in DOMAIN log /\ log[mrow[m]].by = mmsg[m]

LogInv == OneMonitor /\ QueueInv /\ TakenInv /\ RowsShowTheirMessage /\ LoggedInOrder

(* What the type of the log rests on, before and after the first Close      *)
(* Handle: whoever is about to insert has asked for the item count.         *)
RowAsked == \A m \in Monitors : mpc[m] = "insert" => mrow[m] # 0

MonInv == JobMonTypeOK /\ RowAsked /\ HandlesInv /\ LogInv

-----------------------------------------------------------------------------
(* Sequences *)

LEMMA ConcatAround ==
  ASSUME NEW S, NEW f \in Seq(S), NEW e \in S, NEW b \in Seq(S)
  PROVE  /\ (f \o <<e>>) \o b \in Seq(S)
         /\ Len((f \o <<e>>) \o b) = Len(f) + 1 + Len(b)
         /\ \A i \in 1..(Len(f) + 1 + Len(b)) :
              ((f \o <<e>>) \o b)[i] = IF i <= Len(f) THEN f[i]
                                       ELSE IF i = Len(f) + 1 THEN e ELSE b[i - Len(f) - 1]
<1> DEFINE g == f \o <<e>>
<1>1. Len(f) \in Nat /\ Len(b) \in Nat
  BY LenProperties
<1>2. <<e>> \in Seq(S) /\ Len(<<e>>) = 1 /\ <<e>>[1] = e
  OBVIOUS
<1>3. /\ g \in Seq(S) /\ Len(g) = Len(f) + 1
      /\ \A i \in 1..(Len(f) + 1) : g[i] = IF i <= Len(f) THEN f[i] ELSE <<e>>[i - Len(f)]
  BY <1>2, ConcatProperties
<1>4. \A i \in 1..(Len(f) + 1) : g[i] = IF i <= Len(f) THEN f[i] ELSE e
  <2> SUFFICES ASSUME NEW i \in 1..(Len(f) + 1)
               PROVE  g[i] = IF i <= Len(f) THEN f[i] ELSE e
    OBVIOUS
  <2>1. CASE i <= Len(f)
    BY <1>3, <2>1
  <2>2. CASE ~(i <= Len(f))
    <3>1. i - Len(f) = 1
      BY <1>1, <2>2, SMT
    <3>2. g[i] = <<e>>[1]
      BY <1>3, <2>2, <3>1
    <3> QED
      BY <1>2, <2>2, <3>2
  <2> QED
    BY <2>1, <2>2
<1> HIDE DEF g
<1>5. /\ g \o b \in Seq(S) /\ Len(g \o b) = Len(g) + Len(b)
      /\ \A i \in 1..(Len(g) + Len(b)) : (g \o b)[i] = IF i <= Len(g) THEN g[i] ELSE b[i - Len(g)]
  <2>1. g \in Seq(S) /\ b \in Seq(S)
    BY <1>3
  <2> QED
    BY ONLY <2>1, ConcatProperties
<1>6. /\ g \o b \in Seq(S) /\ Len(g \o b) = Len(f) + 1 + Len(b)
      /\ \A i \in 1..(Len(f) + 1 + Len(b)) :
           (g \o b)[i] = IF i <= Len(f) THEN f[i]
                        ELSE IF i = Len(f) + 1 THEN e ELSE b[i - Len(f) - 1]
  BY <1>1, <1>3, <1>4, <1>5, SMT
<1> QED
  BY <1>6 DEF g

LEMMA InsertAtProperties ==
  ASSUME NEW S, NEW s \in Seq(S), NEW n \in 1..(Len(s) + 1), NEW e \in S
  PROVE  /\ InsertAt(s, n, e) \in Seq(S)
         /\ Len(InsertAt(s, n, e)) = Len(s) + 1
         /\ \A i \in 1..(Len(s) + 1) :
              InsertAt(s, n, e)[i] = IF i < n THEN s[i] ELSE IF i = n THEN e ELSE s[i - 1]
<1> DEFINE front == SubSeq(s, 1, n - 1)
           back  == SubSeq(s, n, Len(s))
<1>0. Len(s) \in Nat /\ \A i \in 1..Len(s) : s[i] \in S
  BY LenProperties, ElementOfSeq
<1>1. /\ front \in Seq(S) /\ Len(front) = n - 1
      /\ \A i \in 1..(n - 1) : front[i] = s[i]
  <2>1. \A i \in 1..(n - 1) : s[i] \in S
    BY <1>0, SMT
  <2>2. 1 \in Int /\ n - 1 \in Int
    BY <1>0, SMT
  <2> QED
    BY <1>0, <2>1, <2>2, SubSeqProperties, SMT
<1>2. /\ back \in Seq(S) /\ Len(back) = Len(s) - n + 1
      /\ \A i \in 1..(Len(s) - n + 1) : back[i] = s[n + i - 1]
  <2>1. \A i \in n..Len(s) : s[i] \in S
    BY <1>0, SMT
  <2>2. n \in Int /\ Len(s) \in Int
    BY <1>0, SMT
  <2> QED
    BY <1>0, <2>1, <2>2, SubSeqProperties, SMT
<1> DEFINE t == (front \o <<e>>) \o back
<1>3. InsertAt(s, n, e) = t
  BY DEF InsertAt
<1> HIDE DEF front, back
<1>4. /\ t \in Seq(S) /\ Len(t) = Len(front) + 1 + Len(back)
      /\ \A i \in 1..(Len(front) + 1 + Len(back)) :
           t[i] = IF i <= Len(front) THEN front[i]
                  ELSE IF i = Len(front) + 1 THEN e ELSE back[i - Len(front) - 1]
  <2>1. front \in Seq(S) /\ back \in Seq(S)
    BY <1>1, <1>2
  <2>2. t \in Seq(S)
    BY <2>1, ConcatAround, Zenon
  <2>3. Len(t) = Len(front) + 1 + Len(back)
    BY <2>1, ConcatAround, SMTT(30)
  <2>4. ASSUME NEW i \in 1..(Len(front) + 1 + Len(back))
        PROVE  t[i] = IF i <= Len(front) THEN front[i]
                      ELSE IF i = Len(front) + 1 THEN e ELSE back[i - Len(front) - 1]
    BY <2>1, ConcatAround, SMTT(30)
  <2> QED
    BY <2>2, <2>3, <2>4, Zenon
<1> HIDE DEF t
<1>5. Len(t) = Len(s) + 1
  BY <1>0, <1>1, <1>2, <1>4, SMT
<1>6. ASSUME NEW i \in 1..(Len(s) + 1)
      PROVE  t[i] = IF i < n THEN s[i] ELSE IF i = n THEN e ELSE s[i - 1]
  <2>1. i \in 1..(Len(front) + 1 + Len(back))
    BY <1>0, <1>1, <1>2, SMT
  <2>2. CASE i < n
    BY <1>0, <1>1, <1>4, <2>1, <2>2, SMT
  <2>3. CASE i = n
    BY <1>0, <1>1, <1>4, <2>1, <2>3, SMT
  <2>4. CASE i > n
    <3>1. t[i] = back[i - n]
      BY <1>0, <1>1, <1>4, <2>1, <2>4, SMT
    <3>2. i - n \in 1..(Len(s) - n + 1) /\ n + (i - n) - 1 = i - 1
      BY <1>0, <2>4, SMT
    <3> QED
      BY <1>0, <1>2, <2>4, <3>1, <3>2, SMT
  <2> QED
    BY <1>0, <2>2, <2>3, <2>4, SMT
<1> QED
  BY <1>3, <1>4, <1>5, <1>6

-----------------------------------------------------------------------------
(* Types *)

LEMMA RowTypes ==
  ASSUME JobMonTypeOK
  PROVE  /\ [by |-> Dialog, text |-> Dialog] \in LogRow
         /\ \A m \in Monitors : [by |-> mmsg[m], text |-> Blank] \in LogRow
         /\ \A i \in DOMAIN log : log[i] \in LogRow /\ log[i].by \in Nat
         /\ DOMAIN log = 1..Len(log) /\ Len(log) \in Nat
<1>1. MaxEvents \in Nat /\ \A m \in Monitors : mmsg[m] \in 0..MaxEvents
  BY JobMonAssumption DEF JobMonTypeOK
<1>2. 0 \in 0..MaxEvents /\ 0 \in 0..Blank /\ Blank \in 0..Blank
  BY <1>1, SMT DEF Blank
<1>3. log \in Seq(LogRow)
  BY DEF JobMonTypeOK
<1>4. /\ \A i \in DOMAIN log : log[i] \in LogRow
      /\ DOMAIN log = 1..Len(log) /\ Len(log) \in Nat
  BY <1>3, LenProperties, ElementOfSeq
<1>5. \A r \in LogRow : r.by \in Nat
  BY <1>1, SMT DEF LogRow
<1> QED
  BY <1>1, <1>2, <1>4, <1>5 DEF LogRow, Dialog

LEMMA AddLogType == ASSUME JobMonTypeOK, AddLog  PROVE log' \in Seq(LogRow)
BY RowTypes DEF AddLog, JobMonTypeOK


LEMMA LogTypes ==
  ASSUME JobMonTypeOK
  PROVE  /\ \A m \in Monitors, n \in 1..(Len(log) + 1) :
              InsertAt(log, n, [by |-> mmsg[m], text |-> Blank]) \in Seq(LogRow)
         /\ \A m \in Monitors, i \in DOMAIN log :
              [log EXCEPT ![i].text = mmsg[m]] \in Seq(LogRow)
<1>1. log \in Seq(LogRow)
  BY DEF JobMonTypeOK
<1>2. ASSUME NEW m \in Monitors, NEW n \in 1..(Len(log) + 1)
      PROVE  InsertAt(log, n, [by |-> mmsg[m], text |-> Blank]) \in Seq(LogRow)
  <2>1. [by |-> mmsg[m], text |-> Blank] \in LogRow
    BY RowTypes
  <2> QED
    BY <1>1, <2>1, InsertAtProperties
<1>3. ASSUME NEW m \in Monitors, NEW i \in DOMAIN log
      PROVE  [log EXCEPT ![i].text = mmsg[m]] \in Seq(LogRow)
  <2>1. mmsg[m] \in 0..Blank
    BY JobMonAssumption, SMT DEF JobMonTypeOK, Blank
  <2>2. log[i] \in LogRow
    BY RowTypes
  <2>3. [log[i] EXCEPT !.text = mmsg[m]] \in LogRow
    BY <2>1, <2>2 DEF LogRow
  <2>4. [log EXCEPT ![i] = [log[i] EXCEPT !.text = mmsg[m]]] \in Seq(LogRow)
    BY <1>1, <2>3, ExceptSeq
  <2>5. [log EXCEPT ![i].text = mmsg[m]] = [log EXCEPT ![i] = [log[i] EXCEPT !.text = mmsg[m]]]
    OBVIOUS
  <2> QED
    BY <2>4, <2>5
<1> QED
  BY <1>2, <1>3

(* The type invariant in groups, one for each group of variables that a     *)
(* handler leaves alone as a whole.                                         *)
HandleTypes ==
  /\ job \in BOOLEAN /\ binds \in 0..Cardinality(Monitors) /\ port \in 0..binds
  /\ enabled \subseteq Buttons /\ closes \in BOOLEAN
BoxType == box \in {"none", "error", "plain"}
ProcTypes == list \in 0..Fits /\ count \in 0..list
LogType == log \in Seq(LogRow)
EventTypes == queue \in Seq(1..MaxEvents) /\ posted \in 0..MaxEvents
MonitorTypes ==
  /\ mpc \in [Monitors -> {"none", "loop", "wait", "count", "insert", "text"}]
  /\ mport \in [Monitors -> 0..Cardinality(Monitors)]
  /\ mmsg \in [Monitors -> 0..MaxEvents]
  /\ mrow \in [Monitors -> Nat]

LEMMA TypeGroups ==
  JobMonTypeOK <=> HandleTypes /\ BoxType /\ ProcTypes /\ LogType /\ EventTypes /\ MonitorTypes
BY DEF JobMonTypeOK, HandleTypes, BoxType, ProcTypes, LogType, EventTypes, MonitorTypes

LEMMA TypeKept == ASSUME JobMonTypeOK, RowAsked, [Next]_vars  PROVE JobMonTypeOK' /\ RowAsked'
<1> USE DEF Opens, Fail, LineOrError, UsesJob, Idle
<1> DEFINE Types == HandleTypes /\ BoxType /\ ProcTypes /\ LogType /\ EventTypes /\ MonitorTypes
           Kept == Types' /\ RowAsked'
<1> SUFFICES Kept
  BY DEF JobMonTypeOK, HandleTypes, BoxType, ProcTypes, LogType, EventTypes, MonitorTypes
<1>0. Cardinality(Monitors) \in Nat /\ MaxEvents \in Nat /\ Fits \in Nat
  BY FS_CardinalityType, JobMonAssumption
<1>1. Types
  BY TypeGroups
<1>2. UNCHANGED handles => HandleTypes'
  BY <1>1 DEF handles, HandleTypes
<1>3. /\ UNCHANGED box => BoxType'
      /\ \A kind \in {"none", "error", "plain"} : box' = kind => BoxType'
  BY <1>1 DEF BoxType
<1>4. UNCHANGED procs => ProcTypes'
  BY <1>1 DEF procs, ProcTypes
<1>5. (UNCHANGED log => LogType') /\ (AddLog => LogType')
  BY <1>1, AddLogType DEF LogType
<1>6. UNCHANGED events => EventTypes'
  BY <1>1 DEF events, EventTypes
<1>7. UNCHANGED monitors => MonitorTypes' /\ RowAsked'
  BY <1>1 DEF monitors, MonitorTypes, RowAsked
<1>8. UpdateJob => ProcTypes'
  BY <1>0, <1>4, SMT DEF UpdateJob, ProcTypes
<1> USE <1>1, <1>2, <1>3, <1>4, <1>5, <1>6, <1>7, <1>8
<1>11. CASE DismissBox
  BY <1>11 DEF DismissBox
<1>12. CASE OnCreateJob
  <2>1. {"use", "bind"} \subseteq Buttons
    BY DEF Buttons
  <2>2. CASE UNCHANGED handles
    BY <1>12, <2>2 DEF OnCreateJob, handles
  <2>3. CASE job' = TRUE /\ enabled' = {"use", "bind"} /\ UNCHANGED <<port, binds, closes>>
    BY <1>12, <2>1, <2>3 DEF OnCreateJob, handles, HandleTypes
  <2> QED
    BY <1>12, <2>2, <2>3 DEF OnCreateJob
<1>13. CASE OnOpenJob
  BY <1>13 DEF OnOpenJob, HandleTypes, Buttons
<1>14. CASE OnAddExistingProcess
  BY <1>14 DEF OnAddExistingProcess
<1>15. CASE OnTerminateJob
  BY <1>15 DEF OnTerminateJob
<1>16. CASE OnChangeLimit
  BY <1>16 DEF OnChangeLimit
<1>17. CASE OnCreateProcess
  BY <1>17 DEF OnCreateProcess
<1>18. CASE OnBrowse
  BY <1>18 DEF OnBrowse
<1>19. CASE OnCloseHandle
  <2>1. ProcTypes'
    BY <1>0, <1>19, SMT DEF OnCloseHandle, ProcTypes
  <2>0. HandleTypes'
    <3>1. 0 \in 0..binds /\ {"new"} \subseteq Buttons
      BY <1>0, <1>1, SMT DEF Buttons, HandleTypes
    <3> QED
      BY ONLY <1>1, <1>19, <3>1 DEF OnCloseHandle, HandleTypes
  <2>2. LogType' /\ EventTypes'
    BY <1>19 DEF OnCloseHandle, LogType, EventTypes
  <2> QED
    BY <1>19, <2>0, <2>1, <2>2 DEF OnCloseHandle
<1>20. CASE OnTimer
  BY <1>20 DEF OnTimer
<1>21. CASE Post
  <2>1. posted + 1 \in 1..MaxEvents
    BY <1>0, <1>21, SMT DEF Post, EventTypes
  <2>2. EventTypes'
    BY <1>0, <1>21, <2>1, SMT DEF Post, EventTypes
  <2> QED
    BY <1>21, <2>2 DEF Post
<1>22. ASSUME NEW m \in Monitors, OnBindToIoCompletion(m)  PROVE Kept
  <2>1. CASE Fail
    BY <2>1
  <2>2. CASE ~Fail
    <3>0. /\ binds < Cardinality(Monitors) /\ binds' = binds + 1 /\ port' = binds + 1
          /\ enabled' = enabled \ {"bind"} /\ UNCHANGED <<job, closes>>
      BY <1>22, <2>2 DEF OnBindToIoCompletion
    <3>4. binds' \in 0..Cardinality(Monitors) /\ port' \in 0..binds'
      BY <1>0, <3>0, SMT DEF HandleTypes
    <3>1. HandleTypes'
      BY ONLY <1>1, <3>0, <3>4 DEF HandleTypes
    <3>2. MonitorTypes' /\ RowAsked'
      BY <1>22, <2>2 DEF OnBindToIoCompletion, MonitorTypes, RowAsked
    <3> QED
      BY <1>22, <2>2, <3>1, <3>2 DEF OnBindToIoCompletion
  <2> QED
    BY <2>1, <2>2
<1> USE DEF Goto
<1>23. ASSUME NEW m \in Monitors, MonRead(m)  PROVE Kept
  <2>2. port \in 0..Cardinality(Monitors)
    BY <1>0, SMT DEF HandleTypes
  <2>1. MonitorTypes' /\ RowAsked'
    BY <1>23, <2>2 DEF MonRead, MonitorTypes, RowAsked
  <2> QED
    BY <1>23, <2>1 DEF MonRead
<1>24. ASSUME NEW m \in Monitors, MonGet(m)  PROVE Kept
  <2>1. queue # <<>> => Head(queue) \in 1..MaxEvents /\ Tail(queue) \in Seq(1..MaxEvents)
    BY HeadTailProperties DEF EventTypes
  <2>2. queue # <<>> => Head(queue) \in 0..MaxEvents
    BY <1>0, <2>1, SMT
  <2>3. MonitorTypes' /\ RowAsked'
    BY <1>24, <2>2 DEF MonGet, MonitorTypes, RowAsked
  <2>4. EventTypes'
    BY <1>24, <2>1 DEF MonGet, EventTypes
  <2> QED
    BY <1>24, <2>3, <2>4 DEF MonGet
<1>25. ASSUME NEW m \in Monitors, MonCount(m)  PROVE Kept
  <2>1. Len(log) + 1 \in Nat /\ Len(log) + 1 # 0
    BY RowTypes, SMT
  <2>2. MonitorTypes' /\ RowAsked'
    BY <1>25, <2>1 DEF MonCount, MonitorTypes, RowAsked
  <2> QED
    BY <1>25, <2>2 DEF MonCount
<1>26. ASSUME NEW m \in Monitors, MonInsert(m)  PROVE Kept
  <2> DEFINE n == IF mrow[m] > Len(log) THEN Len(log) + 1 ELSE mrow[m]
  <2>1. n \in 1..(Len(log) + 1) /\ n \in Nat
    BY <1>26, RowTypes, SMT DEF MonInsert, MonitorTypes, RowAsked
  <2>2. LogType'
    BY <1>26, <2>1, LogTypes DEF MonInsert, LogType
  <2>3. MonitorTypes' /\ RowAsked'
    BY <1>26, <2>1 DEF MonInsert, MonitorTypes, RowAsked
  <2> QED
    BY <1>26, <2>2, <2>3 DEF MonInsert
<1>27. ASSUME NEW m \in Monitors, MonText(m)  PROVE Kept
  <2>1. LogType'
    BY <1>27, LogTypes DEF MonText, LogType
  <2>2. MonitorTypes' /\ RowAsked'
    BY <1>0, <1>27, SMT DEF MonText, MonitorTypes, RowAsked
  <2> QED
    BY <1>27, <2>1, <2>2 DEF MonText
<1>28. CASE UNCHANGED vars
  BY <1>28 DEF vars, handles, procs, events, monitors
<1> QED
  BY <1>11, <1>12, <1>13, <1>14, <1>15, <1>16, <1>17, <1>18, <1>19, <1>20, <1>21, <1>22,
     <1>23, <1>24, <1>25, <1>26, <1>27, <1>28, Zenon DEF Next, Monitor

-----------------------------------------------------------------------------
(* The handles *)

LEMMA HandlesKept == ASSUME JobMonTypeOK, HandlesInv, [Next]_vars  PROVE HandlesInv'
<1> USE DEF HandlesInv, HandlersMayRun, Opens, Fail, LineOrError, UsesJob, Idle
<1>1. UNCHANGED handles => HandlesInv'
  BY DEF handles
<1> USE <1>1
<1>2. CASE DismissBox
  BY <1>2 DEF DismissBox
<1>3. CASE OnCreateJob
  BY <1>3 DEF OnCreateJob
<1>4. CASE OnOpenJob
  BY <1>4 DEF OnOpenJob
<1>5. CASE OnAddExistingProcess \/ OnTerminateJob \/ OnChangeLimit \/ OnCreateProcess \/ OnBrowse
  BY <1>5 DEF OnAddExistingProcess, OnTerminateJob, OnChangeLimit, OnCreateProcess, OnBrowse
<1>6. CASE OnCloseHandle
  BY <1>6 DEF OnCloseHandle
<1>7. CASE OnTimer \/ Post
  BY <1>7 DEF OnTimer, Post
<1>8. ASSUME NEW m \in Monitors, OnBindToIoCompletion(m)  PROVE HandlesInv'
  <2>1. CASE Fail
    BY <2>1
  <2>2. CASE ~Fail
    <3>1. job /\ enabled' = enabled \ {"bind"} /\ UNCHANGED job
      BY <1>8, <2>2 DEF OnBindToIoCompletion
    <3> QED
      BY ONLY <3>1, HandlesInv DEF HandlesInv, HandlersMayRun
  <2> QED
    BY <2>1, <2>2
<1>9. ASSUME NEW m \in Monitors, Monitor(m)  PROVE HandlesInv'
  BY <1>9 DEF Monitor, MonRead, MonGet, MonCount, MonInsert, MonText
<1>10. CASE UNCHANGED vars
  BY <1>10 DEF vars
<1> QED
  BY <1>2, <1>3, <1>4, <1>5, <1>6, <1>7, <1>8, <1>9, <1>10, Zenon DEF Next

-----------------------------------------------------------------------------
(* The log *)

(* While nothing was closed a monitor that runs is the only one.            *)
LEMMA Alone ==
  ASSUME OneMonitor, ~closes, NEW m \in Monitors, mpc[m] # "none",
         NEW n \in Monitors, n # m
  PROVE  mpc[n] = "none"
BY DEF OneMonitor, Started

(* What a line of the dialog's own does to the log.                         *)
LEMMA LineAdded ==
  ASSUME JobMonTypeOK, AddLog
  PROVE  /\ DOMAIN log' = 1..(Len(log) + 1) /\ Len(log') = Len(log) + 1
         /\ \A i \in DOMAIN log : log'[i] = log[i]
         /\ log'[Len(log) + 1] = [by |-> Dialog, text |-> Dialog]
<1> DEFINE r == [by |-> Dialog, text |-> Dialog]
<1>1. log' = Append(log, r) /\ log \in Seq(LogRow) /\ r \in LogRow
  BY RowTypes DEF AddLog, JobMonTypeOK
<1> HIDE DEF r
<1>2. /\ log' \in Seq(LogRow) /\ Len(log') = Len(log) + 1
      /\ \A i \in 1..Len(log) : log'[i] = log[i]
      /\ log'[Len(log) + 1] = r
  BY <1>1, AppendProperties
<1>3. DOMAIN log' = 1..(Len(log) + 1) /\ DOMAIN log = 1..Len(log)
  BY <1>1, <1>2, LenProperties
<1> QED
  BY <1>2, <1>3 DEF r

LEMMA OneMonitorKept ==
  ASSUME JobMonTypeOK, HandlesInv, OneMonitor, [Next]_vars  PROVE OneMonitor'
<1> USE DEF Opens, Fail, LineOrError, UsesJob, Idle, Goto
<1> DEFINE Same == enabled' = enabled /\ closes' = closes /\ Started' = Started
<1>0. UNCHANGED <<handles, monitors>> => Same
  BY DEF handles, monitors, Started
<1>1. Same => OneMonitor'
  BY DEF OneMonitor
<1>2. CASE DismissBox
  BY <1>0, <1>1, <1>2 DEF DismissBox
<1>3. CASE OnCreateJob
  BY <1>0, <1>1, <1>3 DEF OnCreateJob, OneMonitor, monitors, Started
<1>4. CASE OnOpenJob
  BY <1>0, <1>1, <1>4 DEF OnOpenJob, OneMonitor, monitors, Started
<1>5. CASE OnAddExistingProcess \/ OnTerminateJob \/ OnChangeLimit \/ OnCreateProcess \/ OnBrowse
  BY <1>0, <1>1, <1>5
  DEF OnAddExistingProcess, OnTerminateJob, OnChangeLimit, OnCreateProcess, OnBrowse
<1>6. CASE OnCloseHandle
  BY <1>6 DEF OnCloseHandle, OneMonitor
<1>7. CASE OnTimer \/ Post
  BY <1>0, <1>1, <1>7 DEF OnTimer, Post
<1>8. ASSUME NEW m \in Monitors, OnBindToIoCompletion(m)  PROVE OneMonitor'
  <2>1. CASE Fail
    BY <1>0, <1>1, <2>1
  <2>2. CASE ~Fail
    <3>1. /\ "bind" \in enabled /\ enabled' = enabled \ {"bind"} /\ closes' = closes
          /\ mpc' = mpc \/ mpc' = [mpc EXCEPT ![m] = "loop"]
      BY <1>8, <2>2 DEF OnBindToIoCompletion
    <3>2. CASE ~closes
      <4>1. Started = {}
        BY <3>2 , <3>1 DEF OneMonitor
      <4>2. Started' \in {{}, {m}}
        BY <3>1, <4>1 DEF Started, JobMonTypeOK
      <4>3. "new" \notin enabled
        BY <3>1 DEF HandlesInv, HandlersMayRun
      <4> QED
        BY <3>1, <4>2, <4>3 DEF OneMonitor
    <3> QED
      BY <3>1, <3>2 DEF OneMonitor
  <2> QED
    BY <2>1, <2>2
<1>9. ASSUME NEW m \in Monitors, Monitor(m)  PROVE OneMonitor'
  <2>1. mpc[m] # "none" /\ \E pc \in {"loop", "wait", "count", "insert", "text"} :
          mpc' = [mpc EXCEPT ![m] = pc]
    BY <1>9 DEF Monitor, MonRead, MonGet, MonCount, MonInsert, MonText
  <2>2. UNCHANGED handles
    BY <1>9 DEF Monitor, MonRead, MonGet, MonCount, MonInsert, MonText
  <2>3. Started' = Started
    BY <2>1 DEF Started, JobMonTypeOK
  <2> QED
    BY <1>1, <2>2, <2>3 DEF handles
<1>10. CASE UNCHANGED vars
  BY <1>0, <1>1, <1>10 DEF vars, handles, monitors
<1> QED
  BY <1>2, <1>3, <1>4, <1>5, <1>6, <1>7, <1>8, <1>9, <1>10, Zenon DEF Next

(* The part of LogInv that speaks of rows.                                  *)
RowsInv == QueueInv /\ TakenInv /\ RowsShowTheirMessage /\ LoggedInOrder

(* The types the steps below rest on. *)
LEMMA LogFacts ==
  ASSUME JobMonTypeOK
  PROVE  /\ log \in Seq(LogRow) /\ Len(log) \in Nat /\ DOMAIN log = 1..Len(log)
         /\ \A i \in DOMAIN log : log[i].by \in Nat
         /\ queue \in Seq(1..MaxEvents) /\ Len(queue) \in Nat /\ DOMAIN queue = 1..Len(queue)
         /\ \A k \in DOMAIN queue : queue[k] \in Nat /\ queue[k] > 0
         /\ posted \in Nat
         /\ \A m \in Monitors : mmsg[m] \in Nat /\ mrow[m] \in Nat
<1>1. queue \in Seq(1..MaxEvents)
  BY DEF JobMonTypeOK
<1>2. Len(queue) \in Nat /\ DOMAIN queue = 1..Len(queue)
  BY <1>1, LenProperties
<1>3. \A k \in DOMAIN queue : queue[k] \in 1..MaxEvents
  BY <1>1, <1>2, ElementOfSeq
<1>4. \A k \in DOMAIN queue : queue[k] \in Nat /\ queue[k] > 0
  BY <1>3, JobMonAssumption, SMT
<1>5. posted \in Nat /\ \A m \in Monitors : mmsg[m] \in Nat /\ mrow[m] \in Nat
  BY JobMonAssumption, SMT DEF JobMonTypeOK
<1> QED
  BY <1>1, <1>2, <1>4, <1>5, RowTypes DEF JobMonTypeOK

(* A line of the dialog's own, or nothing, while the monitors stand still   *)
(* or go where nothing is claimed of them.                                  *)
LEMMA LineKeeps ==
  ASSUME JobMonTypeOK, RowsInv, AddLog \/ UNCHANGED log,
         UNCHANGED <<closes, events, mmsg, mrow>>,
         \A m \in Monitors : mpc'[m] \in {"count", "insert", "text"} => mpc'[m] = mpc[m]
  PROVE  RowsInv'
<1> USE LogFacts DEF events
<1>0. CASE closes
  BY <1>0 DEF RowsInv, QueueInv, TakenInv, RowsShowTheirMessage, LoggedInOrder
<1>1. CASE ~closes /\ UNCHANGED log
  BY <1>1, Zenon DEF RowsInv, QueueInv, TakenInv, RowsShowTheirMessage, LoggedInOrder
<1>2. CASE ~closes /\ AddLog
  <2>1. /\ DOMAIN log' = 1..(Len(log) + 1) /\ Len(log') = Len(log) + 1
        /\ \A i \in DOMAIN log : log'[i] = log[i]
        /\ log'[Len(log) + 1].by = 0 /\ log'[Len(log) + 1].text = 0
    BY <1>2, LineAdded DEF Dialog
  <2>2. \A i \in DOMAIN log' :
          \/ i \in DOMAIN log /\ log'[i].by = log[i].by
          \/ i = Len(log) + 1 /\ log'[i].by = 0
    <3>1. Len(log) \in Nat /\ DOMAIN log = 1..Len(log)
      BY LogFacts
    <3>2. \A i \in 1..(Len(log) + 1) : i \in 1..Len(log) \/ i = Len(log) + 1
      BY <3>1, SMT
    <3> SUFFICES ASSUME NEW i \in 1..(Len(log) + 1)
                 PROVE  \/ i \in DOMAIN log /\ log'[i].by = log[i].by
                        \/ i = Len(log) + 1 /\ log'[i].by = 0
      BY <2>1, Zenon
    <3>3. CASE i \in 1..Len(log)
      BY <2>1, <3>1, <3>3
    <3>4. CASE i = Len(log) + 1
      BY <2>1, <3>4
    <3> QED
      BY <3>2, <3>3, <3>4, Zenon
  <2>3. QueueInv'
    <3>1. /\ \A k \in DOMAIN queue : queue[k] <= posted
          /\ \A k, l \in DOMAIN queue : k < l => queue[k] < queue[l]
          /\ \A i \in DOMAIN log : log[i].by <= posted
          /\ \A i \in DOMAIN log, k \in DOMAIN queue : log[i].by < queue[k]
      BY <1>2 DEF RowsInv, QueueInv
    <3>2. \A i \in DOMAIN log' : log'[i].by <= posted
      BY <2>2, <3>1, SMT
    <3>3. \A i \in DOMAIN log', k \in DOMAIN queue : log'[i].by < queue[k]
      BY <2>2, <3>1, SMT
    <3> QED
      BY <3>1, <3>2, <3>3, Zenon DEF QueueInv
  <2>4. TakenInv'
    <3> SUFFICES ASSUME NEW m \in Monitors, mpc'[m] = mpc[m]
                 PROVE  /\ mpc[m] \in {"count", "insert"} =>
                             /\ mmsg[m] \in 1..posted
                             /\ \A i \in DOMAIN log' : log'[i].by < mmsg[m]
                             /\ \A k \in DOMAIN queue : mmsg[m] < queue[k]
                        /\ mpc[m] = "insert" =>
                             /\ mrow[m] \in 1..(Len(log') + 1)
                             /\ \A i \in DOMAIN log' : i >= mrow[m] => log'[i].by = Dialog
                        /\ mpc[m] = "text" =>
                             mrow[m] \in DOMAIN log' /\ log'[mrow[m]].by = mmsg[m]
      BY Zenon DEF TakenInv
    <3>1. /\ mpc[m] \in {"count", "insert"} =>
               /\ mmsg[m] \in 1..posted
               /\ \A i \in DOMAIN log : log[i].by < mmsg[m]
               /\ \A k \in DOMAIN queue : mmsg[m] < queue[k]
          /\ mpc[m] = "insert" =>
               /\ mrow[m] \in 1..(Len(log) + 1)
               /\ \A i \in DOMAIN log : i >= mrow[m] => log[i].by = Dialog
          /\ mpc[m] = "text" =>
               mrow[m] \in DOMAIN log /\ log[mrow[m]].by = mmsg[m]
      BY <1>2 DEF RowsInv, TakenInv
    <3>2. mpc[m] \in {"count", "insert"} => \A i \in DOMAIN log' : log'[i].by < mmsg[m]
      BY <2>2, <3>1, SMT
    <3>3. mpc[m] = "insert" =>
            /\ mrow[m] \in 1..(Len(log') + 1)
            /\ \A i \in DOMAIN log' : i >= mrow[m] => log'[i].by = Dialog
      BY <2>1, <2>2, <3>1, SMT DEF Dialog
    <3>4. mpc[m] = "text" => mrow[m] \in DOMAIN log' /\ log'[mrow[m]].by = mmsg[m]
      BY <2>1, <3>1, SMT
    <3> QED
      BY <3>1, <3>2, <3>3, <3>4, Zenon
  <2>5. RowsShowTheirMessage'
    BY <1>2, <2>1, SMT DEF RowsInv, RowsShowTheirMessage
  <2>6. LoggedInOrder'
    <3> SUFFICES ASSUME NEW i \in DOMAIN log', NEW j \in DOMAIN log', i < j,
                        log'[i].by > 0, log'[j].by > 0
                 PROVE  log'[i].by < log'[j].by
      BY DEF LoggedInOrder
    <3>1. /\ i \in DOMAIN log /\ log'[i].by = log[i].by
          /\ j \in DOMAIN log /\ log'[j].by = log[j].by
      BY <2>2, ~(0 > 0)
    <3> QED
      BY <1>2, <3>1 DEF RowsInv, LoggedInOrder
  <2> QED
    BY <2>3, <2>4, <2>5, <2>6 DEF RowsInv
<1> QED
  BY <1>0, <1>1, <1>2

LEMMA PostKeeps == ASSUME JobMonTypeOK, RowsInv, Post  PROVE RowsInv'
<1>1. /\ posted' = posted + 1 /\ queue' = Append(queue, posted + 1)
      /\ UNCHANGED <<closes, log, mpc, mmsg, mrow>>
  BY DEF Post, handles, monitors
<1>2. posted + 1 \in 1..MaxEvents
  BY LogFacts, JobMonAssumption, SMT DEF Post
<1>3. /\ DOMAIN queue' = 1..(Len(queue) + 1)
      /\ \A k \in 1..Len(queue) : queue'[k] = queue[k]
      /\ queue'[Len(queue) + 1] = posted + 1
  BY <1>1, <1>2, LogFacts, AppendProperties, LenProperties
<1>4. CASE closes
  BY <1>1, <1>4 DEF RowsInv, QueueInv, TakenInv, RowsShowTheirMessage, LoggedInOrder
<1>5. CASE ~closes
  <2>1. QueueInv'
    BY <1>1, <1>3, <1>5, LogFacts, SMT DEF RowsInv, QueueInv
  <2>2. TakenInv'
    BY <1>1, <1>3, <1>5, LogFacts, SMT DEF RowsInv, TakenInv
  <2> QED
    BY <1>1, <2>1, <2>2, Zenon DEF RowsInv, RowsShowTheirMessage, LoggedInOrder
<1> QED
  BY <1>4, <1>5

LEMMA TailFacts ==
  ASSUME JobMonTypeOK, queue # <<>>
  PROVE  /\ Len(queue) \in Nat /\ Len(queue) > 0 /\ Len(Tail(queue)) = Len(queue) - 1
         /\ Head(queue) = queue[1]
         /\ DOMAIN Tail(queue) = 1..(Len(queue) - 1)
         /\ \A k \in 1..(Len(queue) - 1) : Tail(queue)[k] = queue[k + 1]
<1> DEFINE S == 1..MaxEvents
<1>1. queue \in Seq(S) /\ Len(queue) \in Nat
  BY LogFacts
<1> HIDE DEF S
<1>2. /\ Tail(queue) \in Seq(S) /\ Len(Tail(queue)) = Len(queue) - 1
      /\ \A k \in 1..Len(Tail(queue)) : Tail(queue)[k] = queue[k + 1]
  BY <1>1, HeadTailProperties
<1>3. Len(queue) # 0
  BY <1>1, EmptySeq
<1>4. DOMAIN Tail(queue) = 1..Len(Tail(queue))
  BY <1>2, LenProperties
<1>5. Head(queue) = queue[1]
  BY <1>1, SMT
<1> QED
  BY <1>1, <1>2, <1>3, <1>4, <1>5, SMT

(* Until the first Close Handle the others have taken nothing, so what      *)
(* TakenInv says of m is all it says.                                       *)
LEMMA GetKeeps ==
  ASSUME JobMonTypeOK, OneMonitor, RowsInv, NEW m \in Monitors, MonGet(m)
  PROVE  RowsInv'
<1>1. UNCHANGED <<closes, log, posted, mrow>> /\ mpc[m] = "wait"
  BY DEF MonGet, handles
<1>2. CASE closes
  BY <1>1, <1>2 DEF RowsInv, QueueInv, TakenInv, RowsShowTheirMessage, LoggedInOrder
<1>3. CASE ~closes /\ queue' = queue
  <2>1. mmsg' = mmsg /\ mpc' = [mpc EXCEPT ![m] = "loop"]
    <3>1. queue # <<>> => Tail(queue) # queue
      BY TailFacts, SMT
    <3> QED
      BY <1>3, <3>1 DEF MonGet, Goto
  <2> QED
    BY <1>1, <1>3, <2>1
    DEF RowsInv, QueueInv, TakenInv, RowsShowTheirMessage, LoggedInOrder, JobMonTypeOK
<1>4. CASE ~closes /\ queue' # queue
  <2>1. /\ queue # <<>> /\ queue' = Tail(queue)
        /\ mmsg' = [mmsg EXCEPT ![m] = Head(queue)] /\ mpc' = [mpc EXCEPT ![m] = "count"]
    BY <1>4 DEF MonGet, Goto
  <2>2. /\ DOMAIN queue' = 1..(Len(queue) - 1) /\ Len(queue) > 0 /\ Head(queue) = queue[1]
        /\ \A k \in 1..(Len(queue) - 1) : queue'[k] = queue[k + 1]
    BY <2>1, TailFacts
  <2>3. QueueInv'
    <3>1. /\ \A k \in DOMAIN queue : queue[k] <= posted
          /\ \A k, l \in DOMAIN queue : k < l => queue[k] < queue[l]
          /\ \A i \in DOMAIN log : log[i].by <= posted
          /\ \A i \in DOMAIN log, k \in DOMAIN queue : log[i].by < queue[k]
      BY <1>4 DEF RowsInv, QueueInv
    <3>2. \A k \in DOMAIN queue' : k \in Nat /\ k + 1 \in DOMAIN queue /\ queue'[k] = queue[k + 1]
      BY <2>2, LogFacts, SMT
    <3>3. \A k \in DOMAIN queue' : queue'[k] <= posted
      BY <3>1, <3>2, Zenon
    <3>4. \A k, l \in DOMAIN queue' : k < l => queue'[k] < queue'[l]
      BY <3>1, <3>2, SMT
    <3>5. \A i \in DOMAIN log, k \in DOMAIN queue' : log[i].by < queue'[k]
      BY <3>1, <3>2, Zenon
    <3> QED
      BY <1>1, <3>1, <3>3, <3>4, <3>5, Zenon DEF QueueInv
  <2>4. TakenInv'
    <3> SUFFICES ASSUME NEW n \in Monitors, mpc'[n] \notin {"none", "loop"}
                 PROVE  /\ mpc'[n] = "count"
                        /\ mmsg'[n] \in 1..posted
                        /\ \A i \in DOMAIN log : log[i].by < mmsg'[n]
                        /\ \A k \in DOMAIN queue' : mmsg'[n] < queue'[k]
      BY <1>1, <2>1, Zenon DEF TakenInv
    <3>1. n = m
      BY <1>1, <1>4, <2>1, Alone DEF JobMonTypeOK
    <3>2. mpc'[n] = "count" /\ mmsg'[n] = queue[1]
      BY <2>1, <2>2, <3>1 DEF JobMonTypeOK
    <3>0. 1 \in DOMAIN queue
      BY <2>2, LogFacts, SMT
    <3>3. /\ queue[1] \in 1..posted
          /\ \A i \in DOMAIN log : log[i].by < queue[1]
          /\ \A k, l \in DOMAIN queue : k < l => queue[k] < queue[l]
      BY <1>4, <3>0, LogFacts, SMT DEF RowsInv, QueueInv
    <3>4. \A k \in DOMAIN queue' : queue[1] < queue'[k]
      <4>1. \A k \in DOMAIN queue' : /\ k + 1 \in DOMAIN queue /\ 1 < k + 1
                                     /\ queue'[k] = queue[k + 1]
        BY <2>2, LogFacts, SMT
      <4> QED
        BY <3>0, <3>3, <4>1, Zenon
    <3> QED
      BY <3>2, <3>3, <3>4, Zenon
  <2> QED
    BY <1>1, <2>3, <2>4, Zenon DEF RowsInv, RowsShowTheirMessage, LoggedInOrder
<1> QED
  BY <1>2, <1>3, <1>4

LEMMA CountKeeps ==
  ASSUME JobMonTypeOK, OneMonitor, RowsInv, NEW m \in Monitors, MonCount(m)
  PROVE  RowsInv'
<1>1. /\ mpc[m] = "count" /\ mpc' = [mpc EXCEPT ![m] = "insert"]
      /\ mrow' = [mrow EXCEPT ![m] = Len(log) + 1]
      /\ UNCHANGED <<closes, log, queue, posted, mmsg>>
  BY DEF MonCount, Goto, handles, events
<1>2. TakenInv'
  <2>1. /\ Len(log) + 1 \in 1..(Len(log) + 1)
        /\ \A i \in DOMAIN log : ~(i >= Len(log) + 1)
    BY LogFacts, SMT
  <2> SUFFICES ASSUME ~closes, NEW n \in Monitors, mpc'[n] \in {"count", "insert", "text"}
               PROVE  /\ mpc'[n] = "insert" /\ mrow'[n] = Len(log) + 1
                      /\ mmsg[n] \in 1..posted
                      /\ \A i \in DOMAIN log : log[i].by < mmsg[n]
                      /\ \A k \in DOMAIN queue : mmsg[n] < queue[k]
    BY <1>1, <2>1, Zenon DEF TakenInv
  <2>2. n = m
    BY <1>1, Alone DEF JobMonTypeOK
  <2> QED
    BY <1>1, <2>2 DEF JobMonTypeOK, RowsInv, TakenInv
<1> QED
  BY <1>1, <1>2, Zenon DEF RowsInv, QueueInv, RowsShowTheirMessage, LoggedInOrder

(* The row goes behind every notification of the log, and in front of lines *)
(* of the dialog only.                                                      *)
LEMMA InsertKeeps ==
  ASSUME JobMonTypeOK, RowAsked, OneMonitor, RowsInv, NEW m \in Monitors, MonInsert(m)
  PROVE  RowsInv'
<1> DEFINE n == IF mrow[m] > Len(log) THEN Len(log) + 1 ELSE mrow[m]
           e == [by |-> mmsg[m], text |-> Blank]
<1>1. /\ mpc[m] = "insert" /\ mpc' = [mpc EXCEPT ![m] = "text"]
      /\ log' = InsertAt(log, n, e)
      /\ mrow' = [mrow EXCEPT ![m] = n]
      /\ UNCHANGED <<closes, queue, posted, mmsg>>
  BY DEF MonInsert, Goto, handles, events
<1>2. n \in 1..(Len(log) + 1)
  BY <1>1, LogFacts, SMT DEF RowAsked
<1>3. e \in LogRow /\ e.by = mmsg[m] /\ e.text = Blank
  BY RowTypes
<1> HIDE DEF e
<1>4. /\ InsertAt(log, n, e) \in Seq(LogRow) /\ Len(InsertAt(log, n, e)) = Len(log) + 1
      /\ \A i \in 1..(Len(log) + 1) :
           InsertAt(log, n, e)[i] = IF i < n THEN log[i] ELSE IF i = n THEN e ELSE log[i - 1]
  <2> HIDE DEF n
  <2>1. log \in Seq(LogRow)
    BY LogFacts
  <2> DEFINE P(k, x) ==
        /\ InsertAt(log, k, x) \in Seq(LogRow) /\ Len(InsertAt(log, k, x)) = Len(log) + 1
        /\ \A i \in 1..(Len(log) + 1) :
             InsertAt(log, k, x)[i] = IF i < k THEN log[i] ELSE IF i = k THEN x ELSE log[i - 1]
  <2>2. ASSUME NEW k \in 1..(Len(log) + 1), NEW x \in LogRow  PROVE P(k, x)
    BY <2>1, InsertAtProperties
  <2> HIDE DEF P
  <2>3. P(n, e)
    BY ONLY <1>2, <1>3, <2>2
  <2> QED
    BY ONLY <2>3 DEF P
<1>5. DOMAIN log' = 1..(Len(log) + 1)
  BY <1>1, <1>4, LenProperties
<1>6. CASE closes
  BY <1>1, <1>6 DEF RowsInv, QueueInv, TakenInv, RowsShowTheirMessage, LoggedInOrder
<1>7. CASE ~closes
  <2>1. /\ mmsg[m] \in 1..posted
        /\ \A i \in DOMAIN log : log[i].by < mmsg[m]
        /\ \A k \in DOMAIN queue : mmsg[m] < queue[k]
        /\ mrow[m] \in 1..(Len(log) + 1)
        /\ \A i \in DOMAIN log : i >= mrow[m] => log[i].by = 0
    BY <1>1, <1>7 DEF RowsInv, TakenInv, Dialog
  <2>2. n = mrow[m]
    BY <2>1, LogFacts, SMT
  <2> HIDE DEF n
  <2>3. ASSUME NEW i \in DOMAIN log'
        PROVE  \/ i < n /\ i \in DOMAIN log /\ log'[i] = log[i]
               \/ i = n /\ log'[i] = e
               \/ i > n /\ i - 1 \in DOMAIN log /\ log'[i] = log[i - 1] /\ log'[i].by = 0
    <3>1. CASE i < n
      BY <1>1, <1>2, <1>4, <1>5, <2>3, <3>1, LogFacts, SMT
    <3>2. CASE i = n
      BY <1>1, <1>4, <1>5, <2>3, <3>2, LogFacts, SMT
    <3>3. CASE i > n
      <4>1. i - 1 \in DOMAIN log /\ i - 1 >= n
        BY <1>2, <1>5, <2>3, <3>3, LogFacts, SMT
      <4>2. log'[i] = log[i - 1]
        BY <1>1, <1>2, <1>4, <1>5, <2>3, <3>3, LogFacts, SMT
      <4> QED
        BY <2>1, <2>2, <3>3, <4>1, <4>2
    <3> QED
      BY <1>2, <1>5, <2>3, <3>1, <3>2, <3>3, LogFacts, SMT
  <2>4. QueueInv'
    <3>1. /\ \A k \in DOMAIN queue : queue[k] <= posted
          /\ \A k, l \in DOMAIN queue : k < l => queue[k] < queue[l]
          /\ \A i \in DOMAIN log : log[i].by <= posted
          /\ \A i \in DOMAIN log, k \in DOMAIN queue : log[i].by < queue[k]
      BY <1>7 DEF RowsInv, QueueInv
    <3>2. \A i \in DOMAIN log' : log'[i].by <= posted
      BY <1>3, <2>1, <2>3, <3>1, LogFacts, SMT
    <3>3. \A i \in DOMAIN log', k \in DOMAIN queue : log'[i].by < queue[k]
      BY <1>3, <2>1, <2>3, <3>1, LogFacts, SMT
    <3> QED
      BY <1>1, <3>1, <3>2, <3>3, Zenon DEF QueueInv
  <2>5. TakenInv'
    <3>1. n \in DOMAIN log' /\ log'[n].by = mmsg[m]
      BY <1>2, <1>3, <1>5, <2>3, SMT
    <3> SUFFICES ASSUME NEW k \in Monitors, mpc'[k] \in {"count", "insert", "text"}
                 PROVE  mpc'[k] = "text" /\ mrow'[k] = n /\ mmsg[k] = mmsg[m]
      BY <1>1, <3>1, Zenon DEF TakenInv
    <3>2. k = m
      BY <1>1, <1>7, Alone DEF JobMonTypeOK
    <3> QED
      BY <1>1, <3>2 DEF JobMonTypeOK
  <2>6. RowsShowTheirMessage'
    <3>1. \A i \in DOMAIN log : log[i].text \in {log[i].by, Blank}
      BY <1>7 DEF RowsInv, RowsShowTheirMessage
    <3>2. \A i \in DOMAIN log' : log'[i].text \in {log'[i].by, Blank}
      BY <1>3, <2>3, <3>1, Zenon
    <3> QED
      BY <3>2 DEF RowsShowTheirMessage
  <2>7. LoggedInOrder'
    <3>1. \A i, j \in DOMAIN log :
            i < j /\ log[i].by > 0 /\ log[j].by > 0 => log[i].by < log[j].by
      BY <1>7 DEF RowsInv, LoggedInOrder
    <3> SUFFICES ASSUME NEW i \in DOMAIN log', NEW j \in DOMAIN log',
                        i < j, log'[i].by > 0, log'[j].by > 0
                 PROVE  log'[i].by < log'[j].by
      BY DEF LoggedInOrder
    <3>2. j <= n
      BY <1>2, <1>5, <2>3, SMT
    <3>3. i < n /\ i \in DOMAIN log /\ log'[i] = log[i]
      BY <1>2, <1>5, <2>3, <3>2, SMT
    <3>4. CASE j = n
      <4>1. log'[j] = e
        BY <1>2, <2>3, <3>4, SMT
      <4> QED
        BY <1>3, <2>1, <3>3, <4>1, Zenon
    <3>5. CASE j < n
      <4>1. j \in DOMAIN log /\ log'[j] = log[j]
        BY <1>2, <1>5, <2>3, <3>5, SMT
      <4> QED
        BY <3>1, <3>3, <4>1
    <3> QED
      BY <1>2, <1>5, <3>2, <3>4, <3>5, SMT
  <2> QED
    BY <2>4, <2>5, <2>6, <2>7 DEF RowsInv
<1> QED
  BY <1>6, <1>7

(* The row is still the monitor's own. *)
LEMMA TextKeeps ==
  ASSUME JobMonTypeOK, OneMonitor, RowsInv, NEW m \in Monitors, MonText(m)
  PROVE  RowsInv'
<1>1. /\ mpc[m] = "text" /\ mpc' = [mpc EXCEPT ![m] = "loop"]
      /\ log' = IF mrow[m] \in DOMAIN log THEN [log EXCEPT ![mrow[m]].text = mmsg[m]] ELSE log
      /\ UNCHANGED <<closes, queue, posted>>
  BY DEF MonText, Goto, handles, events
<1>2. CASE closes
  BY <1>1, <1>2 DEF RowsInv, QueueInv, TakenInv, RowsShowTheirMessage, LoggedInOrder
<1>3. CASE ~closes
  <2>1. mrow[m] \in DOMAIN log /\ log[mrow[m]].by = mmsg[m]
    BY <1>1, <1>3 DEF RowsInv, TakenInv
  <2>2. \A i \in DOMAIN log : log[i] \in LogRow
    BY RowTypes
  <2>3. /\ DOMAIN log' = DOMAIN log
        /\ \A i \in DOMAIN log : /\ log'[i].by = log[i].by
                                 /\ log'[i].text \in {log[i].text, log[i].by}
    BY <1>1, <2>1, <2>2 DEF LogRow
  <2>4. QueueInv'
    BY <1>1, <1>3, <2>3 DEF RowsInv, QueueInv
  <2>5. TakenInv'
    <3> SUFFICES ASSUME NEW n \in Monitors  PROVE mpc'[n] \in {"none", "loop"}
      BY Zenon DEF TakenInv
    <3> QED
      BY <1>1, <1>3, Alone DEF JobMonTypeOK
  <2>6. RowsShowTheirMessage' /\ LoggedInOrder'
    BY <1>1, <1>3, <2>3 DEF RowsInv, RowsShowTheirMessage, LoggedInOrder
  <2> QED
    BY <2>4, <2>5, <2>6 DEF RowsInv
<1> QED
  BY <1>2, <1>3

LEMMA RowsKept ==
  ASSUME JobMonTypeOK, RowAsked, OneMonitor, RowsInv, [Next]_vars  PROVE RowsInv'
<1> USE DEF Opens, Fail, LineOrError, UsesJob, Idle
<1>0. (AddLog \/ UNCHANGED log) /\ UNCHANGED <<closes, events, monitors>> => RowsInv'
  BY LineKeeps DEF monitors
<1>1. CASE DismissBox
  BY <1>0, <1>1 DEF DismissBox, handles
<1>2. CASE OnCreateJob
  BY <1>0, <1>2 DEF OnCreateJob, handles
<1>3. CASE OnOpenJob
  BY <1>0, <1>3 DEF OnOpenJob, handles
<1>4. CASE OnAddExistingProcess \/ OnTerminateJob \/ OnChangeLimit \/ OnCreateProcess \/ OnBrowse
  BY <1>0, <1>4
  DEF OnAddExistingProcess, OnTerminateJob, OnChangeLimit, OnCreateProcess, OnBrowse, handles
<1>5. CASE OnCloseHandle
  BY <1>5
  DEF OnCloseHandle, RowsInv, QueueInv, TakenInv, RowsShowTheirMessage, LoggedInOrder
<1>6. CASE OnTimer
  BY <1>0, <1>6 DEF OnTimer, handles
<1>7. CASE Post
  BY <1>7, PostKeeps
<1>8. ASSUME NEW m \in Monitors, OnBindToIoCompletion(m)  PROVE RowsInv'
  <2>1. CASE Fail
    BY <1>0, <2>1 DEF handles
  <2>2. CASE ~Fail
    <3>1. /\ mpc' = mpc \/ mpc' = [mpc EXCEPT ![m] = "loop"]
          /\ AddLog
          /\ UNCHANGED <<closes, events, mmsg, mrow>>
      BY <1>8, <2>2 DEF OnBindToIoCompletion
    <3>2. \A n \in Monitors : mpc'[n] \in {"count", "insert", "text"} => mpc'[n] = mpc[n]
      BY <3>1 DEF JobMonTypeOK
    <3> QED
      BY <3>1, <3>2, LineKeeps
  <2> QED
    BY <2>1, <2>2
<1>9. ASSUME NEW m \in Monitors, MonRead(m)  PROVE RowsInv'
  <2>1. mpc' = [mpc EXCEPT ![m] = "wait"] /\ UNCHANGED <<log, closes, events, mmsg, mrow>>
    BY <1>9 DEF MonRead, Goto, handles
  <2>2. \A n \in Monitors : mpc'[n] \in {"count", "insert", "text"} => mpc'[n] = mpc[n]
    BY <2>1 DEF JobMonTypeOK
  <2> QED
    BY <2>1, <2>2, LineKeeps
<1>10. ASSUME NEW m \in Monitors, MonGet(m) \/ MonCount(m) \/ MonInsert(m) \/ MonText(m)
       PROVE  RowsInv'
  BY <1>10, GetKeeps, CountKeeps, InsertKeeps, TextKeeps
<1>11. CASE UNCHANGED vars
  BY <1>0, <1>11 DEF vars, events, monitors
<1> QED
  BY <1>1, <1>2, <1>3, <1>4, <1>5, <1>6, <1>7, <1>8, <1>9, <1>10, <1>11, Zenon
  DEF Next, Monitor

-----------------------------------------------------------------------------
(* Theorems *)

LEMMA InitHolds == Init => MonInv
<1> SUFFICES ASSUME Init  PROVE MonInv
  OBVIOUS
<1>1. Cardinality(Monitors) \in Nat
  BY JobMonAssumption, FS_CardinalityType
<1>2. 0 \in 0..Cardinality(Monitors) /\ 0 \in 0..Fits /\ 0 \in 0..MaxEvents /\ 0 \in 0..0
  BY <1>1, JobMonAssumption, SMT
<1>3. <<>> \in Seq(LogRow) /\ <<>> \in Seq(1..MaxEvents)
  BY EmptySeq
<1>4. JobMonTypeOK
  BY <1>2, <1>3 DEF Init, JobMonTypeOK, Buttons
<1>5. RowAsked /\ HandlesInv /\ OneMonitor
  BY DEF Init, RowAsked, HandlesInv, HandlersMayRun, OneMonitor, Started
<1>6. DOMAIN log = {} /\ DOMAIN queue = {}
  BY SMT DEF Init
<1>7. QueueInv /\ TakenInv /\ RowsShowTheirMessage /\ LoggedInOrder
  BY <1>6 DEF Init, QueueInv, TakenInv, RowsShowTheirMessage, LoggedInOrder
<1> QED
  BY <1>4, <1>5, <1>7 DEF MonInv, LogInv

LEMMA StepKeeps == MonInv /\ [Next]_vars => MonInv'
BY TypeKept, HandlesKept, OneMonitorKept, RowsKept DEF MonInv, LogInv, RowsInv

(* What holds between any two steps of the dialog, the system and the       *)
(* monitors: the types, the handles the buttons stand for, and where the    *)
(* notifications are.                                                       *)
THEOREM MonInvariant == Spec => []MonInv
BY InitHolds, StepKeeps, PTL DEF Spec

(* Every variable keeps its type whatever is closed and bound again; in     *)
(* particular the list view never asks for a process beyond m_ProcessList,  *)
(* also after a query that failed.                                          *)
THEOREM JobMonTypeCorrect == Spec => []JobMonTypeOK
BY MonInvariant, PTL DEF MonInv

(* The assertions at the head of the handlers hold: the buttons offer what  *)
(* the job handle and the completion port allow.                            *)
THEOREM HandlersAlwaysMayRun == Spec => []HandlersMayRun
BY MonInvariant, PTL DEF MonInv, HandlesInv

(* Until the first Close Handle a row of the log shows the message it was   *)
(* inserted for, or nothing yet, although the monitor writes the text to a  *)
(* row number it took two messages earlier.                                 *)
THEOREM RowsAlwaysShowTheirMessage == Spec => []RowsShowTheirMessage
BY MonInvariant, PTL DEF MonInv, LogInv

(* Until then the notifications are logged in the order they were posted    *)
(* in, although lines of the dialog are added between the item count and    *)
(* the insertion.                                                           *)
THEOREM LogAlwaysInOrder == Spec => []LoggedInOrder
BY MonInvariant, PTL DEF MonInv, LogInv

=============================================================================
