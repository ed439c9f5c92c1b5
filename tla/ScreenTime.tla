----------------------------- MODULE ScreenTime -----------------------------
(***************************************************************************)
(* hook/screen_use_time/app.cc and hook/libscreenusetime/lib.cc: a shell   *)
(* hook in every process sends each window that is activated to the main   *)
(* window, which credits the time since the last change of title to the    *)
(* title before it.  The sender waits until its message is handled; the    *)
(* title is read then, and the clock twice, before and after the list view *)
(* is drawn anew.                                                          *)
(***************************************************************************)
EXTENDS Naturals, Sequences, FiniteSets, Functions

CONSTANTS
  Wnds,        (* the windows a user can activate                          *)
  Unhooked,    (* those of processes the hook is not loaded into           *)
  Titles,      (* what GetWindowTextA may return in a buffer of its size   *)
  Untitled,    (* the empty title                                          *)
  MaxClock,    (* bound: ticks                                             *)
  MaxSenders   (* bound: hooks waiting for their message at one time       *)

ASSUME ScreenAssumption ==
  /\ Unhooked \subseteq Wnds /\ Untitled \in Titles
  /\ IsFiniteSet(Titles)
  /\ MaxClock \in Nat /\ MaxSenders \in Nat

VARIABLES
  usageData, lastWindowTitle, lastTimePoint,
  drawing,     (* the title whose arrival is being drawn, or Untitled      *)
  senders,     (* the windows of the messages not yet handled, in order    *)
  hooked,      (* hMainWindow is set and the shell hook installed          *)
  clock, front, title,
  real,        (* history: time each title was in front, from the first    *)
               (* title on                                                 *)
  drawn,       (* history: time spent drawing before each title            *)
  began,       (* history: when the first title came                       *)
  plain        (* history: each window that came to the front has sent its *)
               (* title before the next tick and has kept it               *)

program == <<usageData, lastWindowTitle, lastTimePoint, drawing, hooked>>
desktop == <<clock, front, title>>
history == <<real, drawn, began, plain>>
vars == <<program, senders, desktop, history>>

Nobody == [t \in Titles |-> 0]

ScreenInit ==
  /\ usageData = Nobody /\ lastWindowTitle = Untitled /\ lastTimePoint = 0
  /\ drawing = Untitled /\ senders = <<>> /\ hooked = TRUE
  /\ clock = 0 /\ front \in Wnds /\ title \in [Wnds -> Titles]
  /\ real = Nobody /\ drawn = Nobody /\ began = 0 /\ plain = TRUE

-----------------------------------------------------------------------------
(* The desktop *)

(* ShellProc, HSHELL_WINDOWACTIVATED. *)
Activate(w) ==
  /\ w # front /\ front' = w
  /\ IF hooked /\ w \notin Unhooked
     THEN Len(senders) < MaxSenders /\ senders' = Append(senders, w)
     ELSE UNCHANGED senders
  /\ plain' = (plain /\ w \notin Unhooked /\ title[w] # Untitled)
  /\ UNCHANGED <<program, clock, title, real, drawn, began>>

(* No shell event tells that a title has changed. *)
Retitle(w, t) ==
  /\ t # title[w] /\ title' = [title EXCEPT ![w] = t]
  /\ plain' = (plain /\ w # front)
  /\ UNCHANGED <<program, senders, clock, front, real, drawn, began>>

Tick ==
  /\ clock < MaxClock /\ clock' = clock + 1
  /\ real' = IF lastWindowTitle = Untitled THEN real ELSE [real EXCEPT ![title[front]] = @ + 1]
  /\ drawn' = IF drawing = Untitled THEN drawn ELSE [drawn EXCEPT ![drawing] = @ + 1]
  /\ plain' = (plain /\ senders = <<>>)
  /\ UNCHANGED <<program, senders, front, title, began>>

-----------------------------------------------------------------------------
(* WndProc, WM_COPYDATA *)

(* Defect: the time goes to the window that came, not to the one that went. *)
CreditNew(t) == usageData' = [usageData EXCEPT ![t] = @ + (clock - lastTimePoint)]

Credit(t) ==
  usageData' = [usageData EXCEPT ![lastWindowTitle] = @ + (clock - lastTimePoint)]

(* Defect: a second window of the same title counts as a change. *)
IgnoredUntitled(t) == t = Untitled

Ignored(t) == t \in {Untitled, lastWindowTitle}

(* The message is taken; the first reading of the clock. *)
Receive ==
  /\ hooked /\ senders # <<>> /\ drawing = Untitled
  /\ LET t == title[Head(senders)]
     IN  IF Ignored(t)
         THEN UNCHANGED <<usageData, lastWindowTitle, lastTimePoint, drawing, began>>
         ELSE IF lastWindowTitle = Untitled
         THEN /\ lastWindowTitle' = t /\ lastTimePoint' = clock /\ began' = clock
              /\ UNCHANGED <<usageData, drawing>>
         ELSE /\ Credit(t) /\ drawing' = t
              /\ UNCHANGED <<lastWindowTitle, lastTimePoint, began>>
  /\ senders' = Tail(senders)
  /\ UNCHANGED <<hooked, desktop, real, drawn, plain>>

(* Defect: the clock is not read a second time. *)
DrawnKeeping ==
  /\ drawing # Untitled /\ drawing' = Untitled
  /\ lastWindowTitle' = drawing
  /\ UNCHANGED <<usageData, lastTimePoint, hooked, senders, desktop, history>>

(* AddDataToListView has returned; the second reading of the clock. *)
Drawn ==
  /\ drawing # Untitled /\ drawing' = Untitled
  /\ lastWindowTitle' = drawing /\ lastTimePoint' = clock
  /\ UNCHANGED <<usageData, hooked, senders, desktop, history>>

(* WM_DESTROY, the end of the loop and RemoveShellHook: waiting senders    *)
(* are let go, the time since lastTimePoint is credited to nobody.         *)
Destroy ==
  /\ hooked /\ drawing = Untitled
  /\ hooked' = FALSE /\ senders' = <<>>
  /\ UNCHANGED <<usageData, lastWindowTitle, lastTimePoint, drawing, desktop, history>>

Next ==
  \/ Tick \/ Receive \/ Drawn \/ Destroy
  \/ \E w \in Wnds : Activate(w) \/ \E t \in Titles : Retitle(w, t)

Spec == ScreenInit /\ [][Next]_vars

-----------------------------------------------------------------------------
(* Properties *)

SumOf(f) == SumFunction(f)

(* Type invariant. *)
ScreenTypeOK ==
  /\ usageData \in [Titles -> 0..MaxClock] /\ lastWindowTitle \in Titles
  /\ lastTimePoint \in 0..clock /\ drawing \in Titles
  /\ (drawing = lastWindowTitle => drawing = Untitled)
  /\ senders \in Seq(Wnds \ Unhooked) /\ Len(senders) <= MaxSenders
  /\ hooked \in BOOLEAN /\ clock \in 0..MaxClock /\ front \in Wnds
  /\ title \in [Wnds -> Titles] /\ began \in 0..clock /\ plain \in BOOLEAN

(* Whatever is activated, untitled, renamed or late: the times shown add up *)
(* to the time from the first title to the last change of title, but for    *)
(* the time it took to draw them.  No time is counted twice.                *)
TimesAddUp ==
  drawing = Untitled => SumOf(usageData) + SumOf(drawn) = lastTimePoint - began

(* And they are the times the titles were in front: of a title other than   *)
(* the one in front everything but the drawing has been credited, as long   *)
(* as every window reports at once and keeps its title.  A window without a *)
(* title, without the hook or renamed while it is in front has its time     *)
(* credited to the title before it (app.cc:148-150).                        *)
CreditedIsReal ==
  plain /\ hooked /\ senders = <<>> =>
    \A t \in Titles :
      LET stint == IF t = lastWindowTitle /\ drawing = Untitled
                   THEN clock - lastTimePoint ELSE 0
      IN  t # Untitled /\ lastWindowTitle # Untitled =>
            usageData[t] + stint + drawn[t] = real[t]

=============================================================================
