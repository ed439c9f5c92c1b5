---------------------------- MODULE Sticky_proofs ----------------------------
(***************************************************************************)
(* Theorems about Sticky, for any windows of other programs and any number *)
(* of orphaned hooks: the hook serves the pending choice, and the click    *)
(* acts on the window last noted.                                          *)
(***************************************************************************)
EXTENDS Sticky, TLAPS

(* While a choice is pending the edit does not have the focus, so that no  *)
(* focus notification of it can come; and the window the mouse moved to is *)
(* the one noted, until another comes under it.                            *)
Pending ==
  ~hasty /\ choice # None =>
    /\ focus # "IDC_EDIT"
    /\ noted /\ cursor # "g_hMainWnd" => currentWindow = cursor

StickyInv == StickyTypeOK /\ HookServesChoice /\ Pending

-----------------------------------------------------------------------------

LEMMA TypeKept == StickyTypeOK /\ Next => StickyTypeOK'
<1> SUFFICES ASSUME StickyTypeOK, Next  PROVE StickyTypeOK'
  OBVIOUS
<1> USE StickyAssumption
    DEF StickyTypeOK, Windows, Own, Buttons, FocusTo, Pressed, desktop, history
<1>1. ASSUME NEW w \in Windows, MouseMove(w)  PROVE StickyTypeOK'
  BY <1>1, SMT DEF MouseMove
<1>2. CASE LeftClick
  <2> DEFINE acts == Hooked /\ currentWindow # None
             live == armed /\ ~acts
  <2>1. /\ acts \in BOOLEAN /\ live \in BOOLEAN
        /\ cursor \in Buttons /\ live => orphans < MaxOrphans
        /\ hasty' = (hasty \/ (choice # None /\ currentWindow = None))
        /\ Click(live)
        /\ UNCHANGED <<currentWindow, cursor>>
    BY <1>2, SMT DEF LeftClick, Hooked
  <2>2. topmost' \subseteq Frames
    BY <1>2, SMT DEF LeftClick, SetTopMost
  <2> HIDE DEF acts, live
  <2>3. CASE cursor \in Buttons
    <3>1. Pressed(cursor, live) /\ focus' = cursor
      BY <2>1, <2>3 DEF Click
    <3>2. orphans' \in 0..MaxOrphans
      BY <2>1, <2>3, <3>1, SMT
    <3>3. choice' \in Buttons \cup {None} /\ action' \in Buttons /\ armed' \in BOOLEAN
          /\ noted' = FALSE /\ scrolled' = FALSE /\ hasty' \in BOOLEAN /\ focus' \in Own
      BY <2>1, <2>3, <3>1, Zenon
    <3> QED
      BY <2>1, <2>2, <3>2, <3>3, Zenon
  <2>4. CASE cursor \notin Buttons
    BY <2>1, <2>2, <2>4, SMT DEF Click
  <2> QED
    BY <2>3, <2>4
<1>3. CASE RightClick
  <2>1. focus' \in Own \cup {None} /\ action' \in Buttons \cup {"IDC_EDIT"}
    BY <1>3, SMT DEF RightClick
  <2> QED
    BY <1>3, <2>1, Zenon DEF RightClick
<1>4. CASE PressSpace
  <2>1. orphans' \in 0..MaxOrphans
    BY <1>4, SMT DEF PressSpace
  <2>2. choice' \in Buttons \cup {None} /\ action' \in Buttons /\ armed' \in BOOLEAN
        /\ noted' = FALSE /\ scrolled' = FALSE /\ hasty' \in BOOLEAN
        /\ UNCHANGED <<currentWindow, cursor, focus, topmost>>
    BY <1>4, Zenon DEF PressSpace
  <2> QED
    BY <2>1, <2>2, Zenon
<1>5. ASSUME NEW w \in Windows, SwitchProgram(w) \/ Rearrange(w)  PROVE StickyTypeOK'
  <2>1. focus' \in Own \cup {None} /\ action' \in Buttons \cup {"IDC_EDIT"}
    BY <1>5, SMT DEF SwitchProgram, Rearrange, Uncover
  <2>2. /\ cursor' = w /\ noted' = (noted /\ w = cursor)
        /\ UNCHANGED <<currentWindow, armed, orphans, topmost, choice, scrolled, hasty>>
    BY ONLY <1>5 DEF SwitchProgram, Rearrange, Uncover
  <2> QED
    BY <2>1, <2>2, Zenon
<1>6. CASE Wheel
  BY <1>6, SMT DEF Wheel
<1> QED
  BY <1>1, <1>2, <1>3, <1>4, <1>5, <1>6 DEF Next

(* The left click: either the hook has acted and the choice is spent, or   *)
(* no window has been noted and the click was hasty; in both cases a new   *)
(* choice may begin with it.                                               *)
LEMMA LeftClickKeeps ==
  ASSUME StickyInv, LeftClick
  PROVE  HookServesChoice' /\ Pending'
<1> USE StickyAssumption
    DEF StickyInv, StickyTypeOK, HookServesChoice, Pending, Windows, Own, Buttons, Hooked,
        LeftClick, Click
<1>1. SUFFICES ASSUME ~hasty'  PROVE HookServesChoice' /\ Pending'
  BY DEF HookServesChoice, Pending
<1>2. ~hasty /\ (choice = None \/ currentWindow # None)
  BY <1>1, SMT
<1>3. orphans = 0 /\ (armed <=> choice # None)
  BY <1>2, SMT
<1>4. ~(armed /\ ~(Hooked /\ currentWindow # None))
  BY <1>2, <1>3, SMT
<1>5. CASE cursor \in Buttons
  BY <1>2, <1>3, <1>4, <1>5, SMT DEF Pressed
<1>6. CASE cursor \notin Buttons
  BY <1>2, <1>3, <1>4, <1>6, SMT DEF FocusTo
<1> QED
  BY <1>5, <1>6

LEMMA StepKeeps == StickyInv /\ [Next]_vars => StickyInv'
<1> SUFFICES ASSUME StickyInv, [Next]_vars  PROVE StickyInv'
  OBVIOUS
<1>1. CASE UNCHANGED vars
  BY <1>1
  DEF vars, program, desktop, history, StickyInv, StickyTypeOK, HookServesChoice, Pending
<1>2. CASE Next
  <2>1. StickyTypeOK'
    BY <1>2, TypeKept DEF StickyInv
  <2>2. HookServesChoice' /\ Pending'
    <3> USE StickyAssumption
        DEF StickyInv, StickyTypeOK, HookServesChoice, Pending, Windows, Own, Buttons, Hooked,
            FocusTo, desktop, history
    <3>1. ASSUME NEW w \in Windows, MouseMove(w)  PROVE HookServesChoice' /\ Pending'
      BY <3>1, SMT DEF MouseMove
    <3>2. CASE RightClick
      BY <3>2, SMT DEF RightClick
    <3>3. CASE PressSpace
      BY <3>3, SMT DEF PressSpace, Pressed
    <3>4. ASSUME NEW w \in Windows, SwitchProgram(w) \/ Rearrange(w)
          PROVE  HookServesChoice' /\ Pending'
      BY <3>4, SMT DEF SwitchProgram, Rearrange, Uncover
    <3>5. CASE Wheel
      BY <3>5, SMT DEF Wheel
    <3> QED
      BY <1>2, <3>1, <3>2, <3>3, <3>4, <3>5, LeftClickKeeps DEF Next
  <2> QED
    BY <2>1, <2>2 DEF StickyInv
<1> QED
  BY <1>1, <1>2

THEOREM StickyInvariant == Spec => []StickyInv
<1>1. StickyInit => StickyInv
  <2> SUFFICES ASSUME StickyInit  PROVE StickyInv
    OBVIOUS
  <2>1. 0 \in 0..MaxOrphans
    BY StickyAssumption, SMT
  <2>2. StickyTypeOK
    BY <2>1, StickyAssumption, Zenon DEF StickyInit, StickyTypeOK, Windows, Own, Buttons
  <2>3. HookServesChoice /\ Pending
    BY DEF StickyInit, HookServesChoice, Pending
  <2> QED
    BY <2>2, <2>3 DEF StickyInv
<1> QED
  BY <1>1, StepKeeps, PTL DEF Spec

(* Every variable keeps its type. *)
THEOREM StickyTypeCorrect == Spec => []StickyTypeOK
<1>1. StickyInv => StickyTypeOK
  BY DEF StickyInv
<1> QED
  BY <1>1, StickyInvariant, PTL

(* A hook is installed exactly while a choice is pending, only one, and the *)
(* pending action is the button's or was overwritten by the wheel over the  *)
(* edit: whatever windows the mouse crosses, come up or go, and whether a   *)
(* hook could be installed or not (app.cc:136, 139).                        *)
THEOREM HookAlwaysServesChoice == Spec => []HookServesChoice
<1>1. StickyInv => HookServesChoice
  BY DEF StickyInv
<1> QED
  BY <1>1, StickyInvariant, PTL

(* A window becomes topmost, or ceases to be, only by the click after a     *)
(* button, as that button says unless the wheel was turned over the edit,   *)
(* and it is the window clicked if the mouse has moved since the button and *)
(* since the window came under it (app.cc:95-125).                          *)
THEOREM OnlyTheChosenChanges == Spec => OnlyTheChosen
<1> DEFINE Chosen(f) ==
      /\ choice # None
      /\ scrolled \/ choice = IF f \in topmost' THEN "IDC_BUTTON_TOPMOST"
                                                ELSE "IDC_BUTTON_CANCEL_TOPMOST"
      /\ noted /\ cursor # "g_hMainWnd" => f = cursor
<1>1. ASSUME StickyInv, [Next]_vars, ~hasty', NEW f \in Frames,
             (f \in topmost) # (f \in topmost')
      PROVE  Chosen(f)
  <2>1. LeftClick
    BY <1>1 DEF vars, desktop, history, Next, MouseMove, RightClick, PressSpace,
                SwitchProgram, Rearrange, Uncover, Wheel
  <2>2. Hooked /\ currentWindow # None
        /\ SetTopMost(currentWindow, action = "IDC_BUTTON_TOPMOST")
    BY <1>1, <2>1 DEF LeftClick
  <2>3. ~hasty
    BY <1>1, <2>1 DEF LeftClick, StickyInv, StickyTypeOK
  <2>4. choice # None /\ (action = choice \/ scrolled) /\ choice \in Buttons
    BY <1>1, <2>2, <2>3, SMT
    DEF Hooked, StickyInv, StickyTypeOK, HookServesChoice
  <2>5. f = currentWindow /\ (f \in topmost' <=> action = "IDC_BUTTON_TOPMOST")
    BY <1>1, <2>2, SMT DEF SetTopMost
  <2> QED
    BY <1>1, <2>3, <2>4, <2>5, SMT DEF StickyInv, Pending, Buttons
<1> DEFINE Step == ~hasty' =>
             \A f \in Frames : (f \in topmost) # (f \in topmost') => Chosen(f)
<1>2. StickyInv /\ [Next]_vars => [Step]_vars
  BY <1>1
<1>3. OnlyTheChosen <=> [][Step]_vars
  BY DEF OnlyTheChosen
<1> HIDE DEF Step
<1> QED
  BY <1>2, <1>3, StickyInvariant, PTL DEF Spec

=============================================================================
