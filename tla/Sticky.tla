------------------------------- MODULE Sticky -------------------------------
(***************************************************************************)
(* utilities/sticky/app.cc: a button installs a low-level mouse hook; the  *)
(* next left click makes the window under the cursor topmost, or not any   *)
(* more, and removes the hook.  The hook procedure runs before the click   *)
(* reaches its window, on the thread that runs the window procedure.       *)
(***************************************************************************)
EXTENDS Naturals

CONSTANTS
  Frames,      (* top-level windows of other programs                      *)
  Parts,       (* child windows of other programs                          *)
  None,
  MaxOrphans   (* bound: hooks nobody has a handle of                      *)

Buttons == {"IDC_BUTTON_TOPMOST", "IDC_BUTTON_CANCEL_TOPMOST"}
Own     == Buttons \cup {"IDC_EDIT", "g_hMainWnd"}
Windows == Frames \cup Parts \cup Own

ASSUME StickyAssumption ==
  /\ (Frames \cup Parts) \cap Own = {} /\ Frames \cap Parts = {}
  /\ None \notin Windows /\ MaxOrphans \in Nat

VARIABLES
  currentWindow,
  action,      (* the id of the last WM_COMMAND                            *)
  armed,       (* g_hMouseHook is the handle of an installed hook          *)
  orphans,     (* installed hooks whose handle was overwritten             *)
  cursor,      (* what WindowFromPoint returns for the mouse's position    *)
  focus,       (* the window of this program with the focus, or None       *)
  topmost,     (* the windows with WS_EX_TOPMOST                           *)
  choice,      (* history: the button whose press installed a hook, not    *)
               (* yet acted upon                                           *)
  noted,       (* history: the mouse has moved since the button was        *)
               (* pressed, and the window under it has not changed since   *)
  scrolled,    (* history: the wheel was turned over the edit since then   *)
  hasty        (* history: while a choice was pending, a button was        *)
               (* pressed with the keyboard, or the mouse was clicked      *)
               (* before any window had ever been noted                    *)

program == <<currentWindow, action, armed, orphans>>
desktop == <<cursor, focus, topmost>>
history == <<choice, noted, scrolled, hasty>>
vars == <<program, desktop, history>>

StickyInit ==
  /\ currentWindow = None /\ action = "IDC_BUTTON_TOPMOST"
  /\ armed = FALSE /\ orphans = 0
  /\ cursor = "g_hMainWnd" /\ focus = "g_hMainWnd" /\ topmost = {}
  /\ choice = None /\ noted = FALSE /\ scrolled = FALSE /\ hasty = FALSE

Hooked == armed \/ orphans > 0

-----------------------------------------------------------------------------
(* WindowProc *)

(* The focus goes to w; the edit reports that it lost or got it, and every *)
(* WM_COMMAND sets action.                                                 *)
FocusTo(w) ==
  /\ focus' = w
  /\ action' = IF w # focus /\ "IDC_EDIT" \in {w, focus} THEN "IDC_EDIT" ELSE action

(* BN_CLICKED: SetWindowsHookEx, whatever hook is installed already; live  *)
(* says whether g_hMouseHook is at that moment.  The call may fail, which  *)
(* nobody looks at: the handle is then null.                               *)
Pressed(b, live) ==
  /\ action' = b
  /\ armed' \in BOOLEAN /\ orphans' = (IF live THEN orphans + 1 ELSE orphans)
  /\ choice' = (IF armed' THEN b ELSE None)
  /\ noted' = FALSE /\ scrolled' = FALSE

(* EN_VSCROLL: the wheel over the edit, or while the edit has the focus.    *)
Wheel ==
  /\ "IDC_EDIT" \in {cursor, focus}
  /\ action' = "IDC_EDIT" /\ scrolled' = TRUE
  /\ UNCHANGED <<currentWindow, armed, orphans, desktop, choice, noted, hasty>>

(* The space bar presses the button that has the focus. *)
PressSpace ==
  /\ focus \in Buttons /\ (armed => orphans < MaxOrphans)
  /\ Pressed(focus, armed)
  /\ hasty' = (hasty \/ choice # None)
  /\ UNCHANGED <<currentWindow, desktop>>

-----------------------------------------------------------------------------
(* MouseHookProc.  All installed hooks run it in turn on the same          *)
(* variables, and repeating it changes nothing more.                       *)

(* Defect: the program's own controls are never noted. *)
MouseMoveNotOwn(w) ==
  /\ cursor' = w
  /\ currentWindow' = IF Hooked /\ w \notin Own THEN w ELSE currentWindow
  /\ noted' = TRUE
  /\ UNCHANGED <<action, armed, orphans, focus, topmost, choice, scrolled, hasty>>

(* Defect: the main window is noted like any other. *)
MouseMoveAnywhere(w) ==
  /\ cursor' = w /\ noted' = TRUE
  /\ currentWindow' = IF Hooked THEN w ELSE currentWindow
  /\ UNCHANGED <<action, armed, orphans, focus, topmost, choice, scrolled, hasty>>

MouseMove(w) ==
  /\ cursor' = w
  /\ currentWindow' = IF Hooked /\ w # "g_hMainWnd" THEN w ELSE currentWindow
  /\ noted' = TRUE
  /\ UNCHANGED <<action, armed, orphans, focus, topmost, choice, scrolled, hasty>>

(* SetWindowPos on a child window sets no WS_EX_TOPMOST. *)
SetTopMost(w, top) ==
  topmost' = IF w \notin Frames THEN topmost
             ELSE IF top THEN topmost \cup {w} ELSE topmost \ {w}

(* The click itself, after the hooks: live is what they left of armed. *)
Click(live) ==
  IF cursor \in Buttons
  THEN Pressed(cursor, live) /\ focus' = cursor
  ELSE /\ FocusTo(IF cursor \notin Own THEN None
                  ELSE IF cursor = "IDC_EDIT" \/ focus = None THEN cursor ELSE focus)
       /\ armed' = live /\ orphans' = orphans /\ UNCHANGED <<noted, scrolled>>
       /\ choice' = IF currentWindow = None THEN choice ELSE None

(* Defect: the hook stays until the right button is pressed. *)
LeftClickKeeping ==
  /\ cursor \in Buttons /\ armed => orphans < MaxOrphans
  /\ hasty' = (hasty \/ (choice # None /\ currentWindow = None))
  /\ IF Hooked /\ currentWindow # None
     THEN SetTopMost(currentWindow, action = "IDC_BUTTON_TOPMOST")
     ELSE UNCHANGED topmost
  /\ Click(armed)
  /\ UNCHANGED <<currentWindow, cursor>>

(* WM_LBUTTONDOWN in the hooks, then the click at the cursor. *)
LeftClick ==
  LET acts == Hooked /\ currentWindow # None
      live == armed /\ ~acts
  IN  /\ cursor \in Buttons /\ live => orphans < MaxOrphans
      /\ hasty' = (hasty \/ (choice # None /\ currentWindow = None))
      /\ IF acts THEN SetTopMost(currentWindow, action = "IDC_BUTTON_TOPMOST")
                 ELSE UNCHANGED topmost
      /\ Click(live)
      /\ UNCHANGED <<currentWindow, cursor>>

(* WM_RBUTTONDOWN removes the hook of the handle; the edit may take the    *)
(* focus to show its menu.                                                 *)
RightClick ==
  /\ armed' = FALSE /\ choice' = None
  /\ FocusTo(focus) \/ (cursor = "IDC_EDIT" /\ FocusTo("IDC_EDIT"))
  /\ UNCHANGED <<currentWindow, orphans, cursor, topmost, noted, scrolled, hasty>>

(* Another window comes up, or goes, under a mouse that rests: there is no  *)
(* WM_MOUSEMOVE for the hook.                                              *)
Uncover(w) ==
  /\ cursor' = w /\ noted' = (noted /\ w = cursor)
  /\ UNCHANGED <<currentWindow, armed, orphans, topmost, choice, scrolled, hasty>>

(* So it does, it may be, when the user goes to another program by the      *)
(* keyboard, or comes back: the main window then has the focus, not the     *)
(* control that had it.                                                     *)
SwitchProgram(w) ==
  Uncover(w) /\ FocusTo(IF focus = None THEN "g_hMainWnd" ELSE None)

(* Or a window of another program opens, closes or is moved. *)
Rearrange(w) == Uncover(w) /\ UNCHANGED <<action, focus>>

Next ==
  \/ \E w \in Windows : MouseMove(w) \/ SwitchProgram(w) \/ Rearrange(w)
  \/ LeftClick \/ RightClick \/ PressSpace \/ Wheel

Spec == StickyInit /\ [][Next]_vars

-----------------------------------------------------------------------------
(* Properties *)

(* Type invariant. *)
StickyTypeOK ==
  /\ currentWindow \in Windows \cup {None} /\ currentWindow # "g_hMainWnd"
  /\ action \in Buttons \cup {"IDC_EDIT"}
  /\ armed \in BOOLEAN /\ orphans \in 0..MaxOrphans
  /\ cursor \in Windows /\ focus \in Own \cup {None} /\ topmost \subseteq Frames
  /\ choice \in Buttons \cup {None}
  /\ noted \in BOOLEAN /\ scrolled \in BOOLEAN /\ hasty \in BOOLEAN

(* A hook is installed exactly while a choice is pending, and only one: no  *)
(* click after the one that was meant is acted upon.  (A press for which    *)
(* SetWindowsHookEx fails, app.cc:139, is no choice: nothing comes of it.)  *)
(* While it is pending no focus notification of the edit has overwritten    *)
(* the action (app.cc:136), though the wheel over the edit may have.  Not   *)
(* so after a click before the first window was noted, or a second press by *)
(* the keyboard: the hook then outlives its handle.                         *)
HookServesChoice ==
  ~hasty =>
    /\ orphans = 0
    /\ armed <=> choice # None
    /\ choice # None => action = choice \/ scrolled

(* A window becomes topmost, or ceases to be, only by the left click after  *)
(* a button, as that button says, unless the wheel over the edit has        *)
(* overwritten the action since (app.cc:136).  And it is the window         *)
(* clicked, unless currentWindow is what was noted before (app.cc:104-117): *)
(* the mouse has not moved since the button, or since another window came   *)
(* under it (Alt+Tab), or is over the program's own main window.            *)
OnlyTheChosen ==
  [][~hasty' =>
       \A f \in Frames :
         (f \in topmost) # (f \in topmost') =>
           /\ choice # None
           /\ scrolled \/ choice = IF f \in topmost' THEN "IDC_BUTTON_TOPMOST"
                                                     ELSE "IDC_BUTTON_CANCEL_TOPMOST"
           /\ noted /\ cursor # "g_hMainWnd" => f = cursor]_vars

=============================================================================
