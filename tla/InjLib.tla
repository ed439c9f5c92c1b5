------------------------------- MODULE InjLib -------------------------------
(***************************************************************************)
(* study_windows_kernel/inject_library/InjLib.cpp and hook/injection/      *)
(* injection.cpp: dialogs that load a DLL into another process by a remote *)
(* thread and, in the former, unload it again.  Several dialogs may work   *)
(* on one target.  A call of InjectLibW or EjectLibW is a sequence of      *)
(* system calls any of which may fail and leads to the __finally block;    *)
(* meanwhile the target runs, its user closes the message box of the DLL   *)
(* (ImgWalk.cpp) late or never, and it may exit.                           *)
(***************************************************************************)
EXTENDS Naturals

CONSTANTS
  Dialogs,     (* running instances of the two programs                    *)
  Ejecting,    (* those of inject_library, which eject after injecting     *)
  Nil,
  MaxPresses   (* bound: how often the button of a dialog is pressed       *)

ASSUME InjAssumption ==
  Ejecting \subseteq Dialogs /\ Nil \notin Dialogs /\ MaxPresses \in Nat

VARIABLES
  alive,    (* the target process runs                                     *)
  refs,     (* the loader's reference count of the DLL in the target       *)
  inMain,   (* whose remote thread is in DllMain, holding the loader lock  *)
  thread,   (* of each dialog's latest remote thread: what it is to do     *)
  lent,     (* dialogs with a path block allocated in the target           *)
  pc,       (* the call each dialog is about to make                       *)
  handles,  (* the handles each dialog has open                            *)
  ok,       (* bOk of InjectLibW                                           *)
  told,     (* the message each dialog showed last                         *)
  presses,  (* how often each button was pressed                           *)
  missed    (* history: a remote thread that was to load did not           *)

target == <<alive, refs, inMain, thread, lent, missed>>
dialog == <<pc, handles, ok, told, presses>>
vars == <<target, dialog>>

-----------------------------------------------------------------------------
(* Where a dialog is.  Injecting and Releasing are the calls of a __try    *)
(* block before the wait: each may fail.                                   *)

Injecting == {"OpenProcess", "VirtualAllocEx", "WriteProcessMemory", "CreateLoader"}
Releasing == {"Snapshot", "ReopenProcess", "CreateFreer"}
Gone      == {"closed", "killed"}
Places    == {"idle"} \cup Gone \cup Injecting \cup Releasing
               \cup {"AwaitLoader", "Finally", "AwaitFreer", "FinallyEject"}

InjInit ==
  /\ alive = TRUE /\ refs = 0 /\ inMain = Nil /\ missed = FALSE
  /\ thread = [d \in Dialogs |-> "none"] /\ lent = {}
  /\ pc = [d \in Dialogs |-> "idle"] /\ handles = [d \in Dialogs |-> {}]
  /\ ok = [d \in Dialogs |-> FALSE] /\ told = [d \in Dialogs |-> "nothing"]
  /\ presses = [d \in Dialogs |-> 0]

Goto(d, place) == pc' = [pc EXCEPT ![d] = place]
Opened(d, h)   == handles' = [handles EXCEPT ![d] = @ \cup {h}]
Started(d, w)  == thread' = [thread EXCEPT ![d] = w]

-----------------------------------------------------------------------------
(* The dialog and InjectLibW *)

PressInject(d) ==
  /\ pc[d] = "idle" /\ presses[d] < MaxPresses
  /\ presses' = [presses EXCEPT ![d] = @ + 1]
  /\ ok' = [ok EXCEPT ![d] = FALSE]
  /\ Goto(d, "OpenProcess")
  /\ UNCHANGED <<target, handles, told>>

Close(d) ==
  /\ pc[d] = "idle" /\ Goto(d, "closed")
  /\ UNCHANGED <<target, handles, ok, told, presses>>

(* Defect: a failed write returns without the clean-up. *)
CallFailsReturning(d) ==
  /\ pc[d] \in Injecting \cup Releasing
  /\ Goto(d, CASE pc[d] = "WriteProcessMemory" -> "idle"
               [] pc[d] \in Injecting \ {"WriteProcessMemory"} -> "Finally"
               [] OTHER -> "FinallyEject")
  /\ UNCHANGED <<target, handles, ok, told, presses>>

(* __leave: the system refuses the call, or the target has gone. *)
CallFails(d) ==
  /\ pc[d] \in Injecting \cup Releasing
  /\ Goto(d, IF pc[d] \in Injecting THEN "Finally" ELSE "FinallyEject")
  /\ UNCHANGED <<target, handles, ok, told, presses>>

OpenProcess(d) ==
  /\ pc[d] = "OpenProcess" /\ alive
  /\ Opened(d, "process") /\ Goto(d, "VirtualAllocEx")
  /\ UNCHANGED <<target, ok, told, presses>>

VirtualAllocEx(d) ==
  /\ pc[d] = "VirtualAllocEx" /\ alive
  /\ lent' = lent \cup {d} /\ Goto(d, "WriteProcessMemory")
  /\ UNCHANGED <<alive, refs, inMain, thread, missed, handles, ok, told, presses>>

WriteProcessMemory(d) ==
  /\ pc[d] = "WriteProcessMemory" /\ alive /\ Goto(d, "CreateLoader")
  /\ UNCHANGED <<target, handles, ok, told, presses>>

(* CreateRemoteThread on LoadLibraryW. *)
CreateLoader(d) ==
  /\ pc[d] = "CreateLoader" /\ alive
  /\ Started(d, "load") /\ Opened(d, "thread") /\ Goto(d, "AwaitLoader")
  /\ UNCHANGED <<alive, refs, inMain, lent, missed, ok, told, presses>>

(* Defect: the wait has a limit, and its result is not looked at. *)
AwaitLoaderAWhile(d) ==
  /\ pc[d] = "AwaitLoader"
  /\ ok' = [ok EXCEPT ![d] = TRUE] /\ Goto(d, "Finally")
  /\ UNCHANGED <<target, handles, told, presses>>

(* Defect: the wait is for the process, not for the thread. *)
AwaitProcess(d) ==
  /\ pc[d] = "AwaitLoader" /\ ~alive
  /\ ok' = [ok EXCEPT ![d] = TRUE] /\ Goto(d, "Finally")
  /\ UNCHANGED <<target, handles, told, presses>>

(* WaitForSingleObject without a limit; what LoadLibraryW returned, or     *)
(* whether the thread ended with its process, is not looked at.            *)
AwaitLoader(d) ==
  /\ pc[d] = "AwaitLoader" /\ thread[d] = "ended"
  /\ ok' = [ok EXCEPT ![d] = TRUE] /\ Goto(d, "Finally")
  /\ UNCHANGED <<target, handles, told, presses>>

(* Defect: what was injected is ejected whether or not the injection went  *)
(* well.                                                                   *)
FinallyEjectAnyway(d) ==
  /\ pc[d] = "Finally"
  /\ lent' = lent \ {d} /\ handles' = [handles EXCEPT ![d] = {}]
  /\ told' = [told EXCEPT ![d] = IF ok[d] THEN "successful" ELSE "failed"]
  /\ Goto(d, IF d \in Ejecting THEN "Snapshot" ELSE "idle")
  /\ UNCHANGED <<alive, refs, inMain, thread, missed, ok, presses>>

(* The __finally block, and what Dlg_OnCommand does with the result: the   *)
(* message is shown once EjectLib has returned.                            *)
Finally(d) ==
  LET ejects == ok[d] /\ d \in Ejecting
  IN  /\ pc[d] = "Finally"
      /\ lent' = lent \ {d} /\ handles' = [handles EXCEPT ![d] = {}]
      /\ Goto(d, IF ejects THEN "Snapshot" ELSE "idle")
      /\ told' = [told EXCEPT ![d] = IF ejects THEN @
                                     ELSE IF ok[d] THEN "successful" ELSE "failed"]
      /\ UNCHANGED <<alive, refs, inMain, thread, missed, ok, presses>>

-----------------------------------------------------------------------------
(* EjectLibW *)

(* CreateToolhelp32Snapshot and the search for the DLL in it. *)
Snapshot(d) ==
  /\ pc[d] = "Snapshot" /\ alive
  /\ Opened(d, "snapshot")
  /\ Goto(d, IF refs > 0 THEN "ReopenProcess" ELSE "FinallyEject")
  /\ UNCHANGED <<target, ok, told, presses>>

ReopenProcess(d) ==
  /\ pc[d] = "ReopenProcess" /\ alive
  /\ Opened(d, "process") /\ Goto(d, "CreateFreer")
  /\ UNCHANGED <<target, ok, told, presses>>

(* CreateRemoteThread on FreeLibrary. *)
CreateFreer(d) ==
  /\ pc[d] = "CreateFreer" /\ alive
  /\ Started(d, "free") /\ Opened(d, "thread") /\ Goto(d, "AwaitFreer")
  /\ UNCHANGED <<alive, refs, inMain, lent, missed, ok, told, presses>>

AwaitFreer(d) ==
  /\ pc[d] = "AwaitFreer" /\ thread[d] = "ended" /\ Goto(d, "FinallyEject")
  /\ UNCHANGED <<target, handles, ok, told, presses>>

(* Only a debug build looks at the result of EjectLib. *)
FinallyEject(d) ==
  /\ pc[d] = "FinallyEject" /\ Goto(d, "idle")
  /\ handles' = [handles EXCEPT ![d] = {}]
  /\ told' = [told EXCEPT ![d] = "successful"]
  /\ UNCHANGED <<target, ok, presses>>

-----------------------------------------------------------------------------
(* The target: a remote thread starts, loads and frees under the loader    *)
(* lock, which DllMain holds while its message box is open.                *)

LoadLibraryW(d) ==
  /\ thread[d] = "load" /\ inMain = Nil
  /\ \/ /\ refs' = refs + 1
        /\ IF refs = 0 THEN inMain' = d /\ Started(d, "main")
                       ELSE inMain' = Nil /\ Started(d, "ended")
        /\ missed' = missed
     \/ /\ Started(d, "ended") /\ missed' = TRUE
        /\ UNCHANGED <<refs, inMain>>
  /\ UNCHANGED <<alive, lent, dialog>>

(* The user of the target closes the message box of DllMain. *)
CloseBox ==
  /\ inMain # Nil
  /\ Started(inMain, "ended") /\ inMain' = Nil
  /\ UNCHANGED <<alive, refs, lent, missed, dialog>>

(* Defect: the count is decremented without a look at it. *)
FreeLibraryBlindly(d) ==
  /\ thread[d] = "free" /\ inMain = Nil
  /\ refs' = refs - 1 /\ Started(d, "ended")
  /\ UNCHANGED <<alive, inMain, lent, missed, dialog>>

(* It fails, without effect, if the DLL has gone since the snapshot. *)
FreeLibrary(d) ==
  /\ thread[d] = "free" /\ inMain = Nil
  /\ refs' = (IF refs > 0 THEN refs - 1 ELSE 0) /\ Started(d, "ended")
  /\ UNCHANGED <<alive, inMain, lent, missed, dialog>>

TargetExits ==
  /\ alive
  /\ alive' = FALSE /\ refs' = 0 /\ inMain' = Nil /\ lent' = {}
  /\ thread' = [d \in Dialogs |-> IF thread[d] = "none" THEN "none" ELSE "ended"]
  /\ UNCHANGED <<missed, dialog>>

(* The dialog's process is killed: the system closes its handles. *)
Killed(d) ==
  /\ pc[d] \notin Gone /\ Goto(d, "killed")
  /\ handles' = [handles EXCEPT ![d] = {}]
  /\ UNCHANGED <<target, ok, told, presses>>

-----------------------------------------------------------------------------

Calls(d) ==
  \/ OpenProcess(d) \/ VirtualAllocEx(d) \/ WriteProcessMemory(d) \/ CreateLoader(d)
  \/ AwaitLoader(d) \/ Finally(d)
  \/ Snapshot(d) \/ ReopenProcess(d) \/ CreateFreer(d) \/ AwaitFreer(d) \/ FinallyEject(d)
  \/ CallFails(d)

Remote(d) == LoadLibraryW(d) \/ FreeLibrary(d)

Next ==
  \/ CloseBox \/ TargetExits
  \/ \E d \in Dialogs : PressInject(d) \/ Close(d) \/ Killed(d) \/ Calls(d) \/ Remote(d)

Spec == InjInit /\ [][Next]_vars

(* The dialogs and the remote threads are scheduled.  Nobody has to press  *)
(* a button or to close the box, and no process has to end.                *)
FairSpec == Spec /\ \A d \in Dialogs : WF_vars(Calls(d)) /\ WF_vars(Remote(d))

-----------------------------------------------------------------------------
(* Properties *)

(* Type invariant. *)
InjTypeOK ==
  /\ alive \in BOOLEAN /\ missed \in BOOLEAN /\ refs \in Nat
  /\ inMain \in Dialogs \cup {Nil}
  /\ thread \in [Dialogs -> {"none", "load", "main", "free", "ended"}]
  /\ lent \subseteq Dialogs /\ pc \in [Dialogs -> Places]
  /\ handles \in [Dialogs -> SUBSET {"process", "thread", "snapshot"}]
  /\ ok \in [Dialogs -> BOOLEAN] /\ presses \in [Dialogs -> Nat]
  /\ told \in [Dialogs -> {"nothing", "successful", "failed"}]

(* LoadLibraryW finds the path it was given: the block is not freed while   *)
(* the remote thread may still read it, which is what the infinite wait     *)
(* (InjLib.cpp:129) is for, and not either when the dialog is killed.       *)
PathWhileRead == \A d \in Dialogs : thread[d] \in {"load", "main"} => d \in lent

(* Whatever failed on the way, a dialog that is back in its message loop    *)
(* has closed every handle, left no memory and no running thread in the     *)
(* target, and one that was closed likewise (InjLib.cpp:133-144, 213-225).  *)
NothingLeft ==
  \A d \in Dialogs :
    pc[d] \in {"idle", "closed"} =>
      handles[d] = {} /\ d \notin lent /\ thread[d] \in {"none", "ended"}

(* A DLL that injection.cpp has loaded stays loaded although dialogs of     *)
(* inject_library come, load it once more and free it: each frees the       *)
(* reference it took.  A dialog whose LoadLibraryW failed frees that of     *)
(* another, because bOk is set without a look at the exit code              *)
(* (InjLib.cpp:131): ~missed.                                               *)
StaysLoaded ==
  alive /\ ~missed /\ (\E d \in Dialogs \ Ejecting : told[d] = "successful") => refs > 0

(* The button's handler returns, unless a message box is left open in the   *)
(* DllMain of the target: then it and every later injection wait.           *)
Returns ==
  \A d \in Dialogs : pc[d] # "idle" ~> (pc[d] \in {"idle"} \cup Gone \/ inMain # Nil)

=============================================================================
