------------------------------ MODULE Reminder ------------------------------
(***************************************************************************)
(* utilities/todolist/app.cc: the reminders.  A timer of the window goes   *)
(* through the list of TodoStore and shows a balloon for every unfinished  *)
(* item whose reminder is not yet a period past.  The timer starts with    *)
(* the program, knows nothing of what it showed before, and its message    *)
(* comes late when the message loop is busy.                               *)
(***************************************************************************)
EXTENDS TodoStore, Integers

CONSTANTS
  global_tick_frequency,  (* the period of the timer                       *)
  Slack,                  (* how late its message is handled at most       *)
  MaxClock                (* bound: clock                                  *)

ASSUME ReminderAssumption ==
  /\ global_tick_frequency \in Nat \ {0} /\ MaxClock \in Nat
  /\ Slack \in 0..(global_tick_frequency - 1)

VARIABLES
  clock,
  due,      (* when the timer goes off next                                *)
  since,    (* history: since when an item has run with this reminder,     *)
            (* finished or unfinished as it is                             *)
  reminded  (* history: when its balloon was shown last, or Never          *)

remindVars == <<storeVars, clock, due, since, reminded>>

Never == -1

RemindInit ==
  /\ StoreInit /\ clock = 0 /\ due = 0
  /\ since = <<>> /\ reminded = <<>>

(* An item is followed anew when it is added or loaded, and when its       *)
(* reminder or status changes.                                             *)
Same(h) ==
  /\ h \in Live
  /\ LET old == todos[At(todos, h)]
         new == todos'[At(todos', h)]
     IN  new.remind = old.remind /\ new.status = old.status

Follow ==
  /\ since' = [h \in Live' |-> IF Same(h) THEN since[h] ELSE clock]
  /\ reminded' = [h \in Live' |-> IF Same(h) THEN reminded[h] ELSE Never]
  /\ UNCHANGED clock

-----------------------------------------------------------------------------
(* The program *)

(* WinMain: SetTimer, then the first use of the manager. *)
Start == Load /\ due' = clock + global_tick_frequency /\ Follow

(* WM_DESTROY: KillTimer; or the process is killed. *)
Stop == Quit /\ due' = 0 /\ Follow

(* What the handlers of the window call that concerns reminders. *)
Edit ==
  /\ \/ \E t \in Titles, r \in Remarks, m \in Times, now \in Stamps :
          AddTodo(t, r, 0, m, now)
     \/ \E h \in Live :
          \/ RemoveTodo(h)
          \/ \E b \in BOOLEAN, now \in Stamps : UpdateStatus(h, b, now)
          \/ \E t \in Times \ {0} : UpdateRemaind(h, t)
  /\ UNCHANGED due /\ Follow

(* Defect: nothing is shown before its time. *)
ToBeShownNotBefore(todo) ==
  /\ todo.remind # 0 /\ ~todo.status
  /\ clock - todo.remind \in 0..global_tick_frequency

ToBeShown(todo) ==
  /\ todo.remind # 0 /\ ~todo.status
  /\ clock - todo.remind <= global_tick_frequency

(* WM_TIMER.  The timer keeps its rhythm also if the message was late. *)
TimeToNotify ==
  /\ mode = "run" /\ clock >= due
  /\ due' = due + global_tick_frequency
  /\ reminded' = [h \in Live |->
                 IF ToBeShown(todos[At(todos, h)]) THEN clock ELSE reminded[h]]
  /\ UNCHANGED <<storeVars, clock, since>>

(* Time passes; a running program handles its timer within Slack. *)
Tick ==
  /\ clock < MaxClock /\ (mode = "run" => clock < due + Slack)
  /\ clock' = clock + 1
  /\ UNCHANGED <<storeVars, due, since, reminded>>

RemindNext == Start \/ Stop \/ Edit \/ TimeToNotify \/ Tick

RemindSpec == RemindInit /\ [][RemindNext]_remindVars

-----------------------------------------------------------------------------
(* Property *)

(* No reminder is missed, and none is shown too early only: an unfinished  *)
(* item that has run with its reminder since Slack before its time has had *)
(* a balloon between Slack before and a period after it.  That balloons    *)
(* come before the time as well (app.cc:689 has no lower bound) is what    *)
(* this rests on: two messages of the timer can be further apart than the  *)
(* period.  A reminder due while the program does not run, or set later,   *)
(* may never be shown.                                                     *)
RemindedInTime ==
  \A i \in DOMAIN todos :
    LET todo == todos[i]
    IN  /\ todo.remind # 0 /\ ~todo.status
        /\ since[todo.id] + Slack <= todo.remind
        /\ clock > todo.remind + global_tick_frequency
        => reminded[todo.id] \in (todo.remind - Slack)..(todo.remind + global_tick_frequency)

=============================================================================
