---------------------------- MODULE InjLib_proofs ----------------------------
(***************************************************************************)
(* Theorems about InjLib, for any number of dialogs and presses: what a    *)
(* dialog has opened or lent is bound to the place it is at, and every     *)
(* dialog that counts on the DLL has a reference of its own.               *)
(***************************************************************************)
EXTENDS InjLib, FiniteSets, FiniteSetTheorems, TLAPS

(* The invariant, dialog by dialog. *)

ThreadAt(d) ==
  /\ thread[d] \in {"load", "main"} => d \in lent /\ pc[d] \in {"AwaitLoader", "killed"}
  /\ thread[d] = "free" => d \in Ejecting /\ pc[d] \in {"AwaitFreer", "killed"}

LentAt(d) ==
  /\ d \in lent =>
       pc[d] \in {"WriteProcessMemory", "CreateLoader", "AwaitLoader", "Finally", "killed"}
  /\ alive /\ pc[d] \in {"WriteProcessMemory", "CreateLoader"} => d \in lent

HandlesAt(d) == pc[d] \in {"idle", "closed"} => handles[d] = {}

OkAt(d) == pc[d] \in Injecting \cup {"AwaitLoader"} => ~ok[d]

EjectsAt(d) == pc[d] \in Releasing \cup {"AwaitFreer", "FinallyEject"} => d \in Ejecting

DialogInv(d) == ThreadAt(d) /\ LentAt(d) /\ HandlesAt(d) /\ OkAt(d) /\ EjectsAt(d)

LockHeld == inMain # Nil => thread[inMain] = "main"

InjInv == InjTypeOK /\ LockHeld /\ \A d \in Dialogs : DialogInv(d)

(* The dialogs that count on the DLL: one that is to free it, from the     *)
(* load on until its thread has freed it, and one that has loaded it for   *)
(* good.                                                                   *)
Counts(d) ==
  \/ thread[d] = "main"
  \/ thread[d] = "ended" /\ pc[d] = "AwaitLoader"
  \/ pc[d] = "Finally" /\ ok[d]
  \/ d \in Ejecting /\ (pc[d] \in Releasing \/ thread[d] = "free")
  \/ d \notin Ejecting /\ told[d] = "successful"

Counting == {d \in Dialogs : Counts(d)}

RefsSuffice == alive /\ ~missed => Cardinality(Counting) <= refs

-----------------------------------------------------------------------------

LEMMA InitInv == InjInit => InjInv
<1> SUFFICES ASSUME InjInit  PROVE InjInv
  OBVIOUS
<1>1. InjTypeOK
  BY Zenon, InjAssumption
  DEF InjInit, InjTypeOK, Places
<1>2. LockHeld
  BY DEF InjInit, LockHeld
<1>3. \A d \in Dialogs : DialogInv(d)
  BY DEF InjInit, DialogInv, ThreadAt, LentAt, HandlesAt, OkAt, EjectsAt, Injecting,
         Releasing
<1> QED
  BY <1>1, <1>2, <1>3 DEF InjInv

(* Types. *)
LEMMA TypeKept == InjTypeOK /\ Next => InjTypeOK'
<1> SUFFICES ASSUME InjTypeOK, Next  PROVE InjTypeOK'
  OBVIOUS
<1> USE InjAssumption
    DEF InjTypeOK, Places, Gone, Injecting, Releasing, Goto, Opened, Started, target, dialog
<1>1. CASE CloseBox
  BY <1>1, SMT DEF CloseBox
<1>2. CASE TargetExits
  <2>1. /\ UNCHANGED <<missed, pc, handles, ok, told, presses>>
        /\ alive' = FALSE /\ refs' = 0 /\ inMain' = Nil /\ lent' = {}
    BY <1>2 DEF TargetExits
  <2>2. thread' \in [Dialogs -> {"none", "ended"}]
    BY <1>2, SMT DEF TargetExits
  <2>3. thread' \in [Dialogs -> {"none", "load", "main", "free", "ended"}]
    BY <2>2, SMT
  <2> QED
    BY <2>1, <2>3, Zenon
<1>3. ASSUME NEW d \in Dialogs, PressInject(d)  PROVE InjTypeOK'
  BY <1>3, SMT DEF PressInject
<1>4. ASSUME NEW d \in Dialogs, Close(d)  PROVE InjTypeOK'
  BY <1>4, SMT DEF Close
<1>5. ASSUME NEW d \in Dialogs, Killed(d)  PROVE InjTypeOK'
  BY <1>5, SMT DEF Killed
<1>6. ASSUME NEW d \in Dialogs, OpenProcess(d)  PROVE InjTypeOK'
  BY <1>6, SMT DEF OpenProcess
<1>7. ASSUME NEW d \in Dialogs, VirtualAllocEx(d)  PROVE InjTypeOK'
  BY <1>7, SMT DEF VirtualAllocEx
<1>8. ASSUME NEW d \in Dialogs, WriteProcessMemory(d)  PROVE InjTypeOK'
  BY <1>8, SMT DEF WriteProcessMemory
<1>9. ASSUME NEW d \in Dialogs, CreateLoader(d)  PROVE InjTypeOK'
  BY <1>9, SMT DEF CreateLoader
<1>10. ASSUME NEW d \in Dialogs, AwaitLoader(d)  PROVE InjTypeOK'
  BY <1>10, SMT DEF AwaitLoader
<1>11. ASSUME NEW d \in Dialogs, Finally(d)  PROVE InjTypeOK'
  BY <1>11, SMT DEF Finally
<1>12. ASSUME NEW d \in Dialogs, Snapshot(d)  PROVE InjTypeOK'
  BY <1>12, SMT DEF Snapshot
<1>13. ASSUME NEW d \in Dialogs, ReopenProcess(d)  PROVE InjTypeOK'
  BY <1>13, SMT DEF ReopenProcess
<1>14. ASSUME NEW d \in Dialogs, CreateFreer(d)  PROVE InjTypeOK'
  BY <1>14, SMT DEF CreateFreer
<1>15. ASSUME NEW d \in Dialogs, AwaitFreer(d)  PROVE InjTypeOK'
  BY <1>15, SMT DEF AwaitFreer
<1>16. ASSUME NEW d \in Dialogs, FinallyEject(d)  PROVE InjTypeOK'
  BY <1>16, SMT DEF FinallyEject
<1>17. ASSUME NEW d \in Dialogs, CallFails(d)  PROVE InjTypeOK'
  BY <1>17, SMT DEF CallFails
<1>18. ASSUME NEW d \in Dialogs, LoadLibraryW(d)  PROVE InjTypeOK'
  <2>1. UNCHANGED <<alive, lent, pc, handles, ok, told, presses>>
    BY <1>18 DEF LoadLibraryW
  <2>2. thread' \in [Dialogs -> {"none", "load", "main", "free", "ended"}]
    BY <1>18, SMT DEF LoadLibraryW
  <2>3. inMain' \in Dialogs \cup {Nil} /\ refs' \in Nat
    BY <1>18, SMT DEF LoadLibraryW
  <2>4. missed' \in BOOLEAN
    BY <1>18, Zenon DEF LoadLibraryW
  <2> QED
    BY <2>1, <2>2, <2>3, <2>4, Zenon
<1>19. ASSUME NEW d \in Dialogs, FreeLibrary(d)  PROVE InjTypeOK'
  BY <1>19, SMT DEF FreeLibrary
<1> QED
  BY <1>1, <1>2, <1>3, <1>4, <1>5, <1>6, <1>7, <1>8, <1>9, <1>10,
     <1>11, <1>12, <1>13, <1>14, <1>15, <1>16, <1>17, <1>18, <1>19
  DEF Next, Calls, Remote

(* What a dialog does keeps the rest of the invariant: only its own part   *)
(* is disturbed, and the thread in DllMain is not its.                     *)
LEMMA DialogKeeps ==
  ASSUME InjInv, NEW d \in Dialogs,
         PressInject(d) \/ Close(d) \/ Killed(d) \/ Calls(d)
  PROVE  LockHeld' /\ \A e \in Dialogs : DialogInv(e)'
<1> USE InjAssumption
    DEF InjInv, InjTypeOK, LockHeld, DialogInv, ThreadAt, LentAt, HandlesAt, OkAt, EjectsAt,
        Gone, Injecting, Releasing, Goto, Opened, Started, target, dialog
<1>1. CASE PressInject(d)
  BY <1>1, SMT DEF PressInject
<1>2. CASE Close(d)
  BY <1>2, SMT DEF Close
<1>3. CASE Killed(d)
  BY <1>3, SMT DEF Killed
<1>4. CASE OpenProcess(d)
  BY <1>4, SMT DEF OpenProcess
<1>5. CASE VirtualAllocEx(d)
  BY <1>5, SMT DEF VirtualAllocEx
<1>6. CASE WriteProcessMemory(d)
  BY <1>6, SMT DEF WriteProcessMemory
<1>7. CASE CreateLoader(d)
  BY <1>7, SMT DEF CreateLoader
<1>8. CASE AwaitLoader(d)
  BY <1>8, SMT DEF AwaitLoader
<1>9. CASE Finally(d)
  BY <1>9, SMT DEF Finally
<1>10. CASE Snapshot(d)
  BY <1>10, SMT DEF Snapshot
<1>11. CASE ReopenProcess(d)
  BY <1>11, SMT DEF ReopenProcess
<1>12. CASE CreateFreer(d)
  BY <1>12, SMT DEF CreateFreer
<1>13. CASE AwaitFreer(d)
  BY <1>13, SMT DEF AwaitFreer
<1>14. CASE FinallyEject(d)
  BY <1>14, SMT DEF FinallyEject
<1>15. CASE CallFails(d)
  BY <1>15, SMT DEF CallFails
<1> QED
  BY <1>1, <1>2, <1>3, <1>4, <1>5, <1>6, <1>7, <1>8, <1>9, <1>10,
     <1>11, <1>12, <1>13, <1>14, <1>15
  DEF Calls

(* And so does what happens in the target. *)
LEMMA TargetKeeps ==
  ASSUME InjInv, CloseBox \/ TargetExits \/ \E d \in Dialogs : Remote(d)
  PROVE  LockHeld' /\ \A e \in Dialogs : DialogInv(e)'
<1> USE InjAssumption
    DEF InjInv, InjTypeOK, LockHeld, DialogInv, ThreadAt, LentAt, HandlesAt, OkAt, EjectsAt,
        Gone, Injecting, Releasing, Started, dialog
<1>1. CASE CloseBox
  BY <1>1, SMT DEF CloseBox
<1>2. CASE TargetExits
  BY <1>2, SMT DEF TargetExits
<1>3. ASSUME NEW d \in Dialogs, LoadLibraryW(d)
      PROVE  LockHeld' /\ \A e \in Dialogs : DialogInv(e)'
  BY <1>3, SMT DEF LoadLibraryW
<1>4. ASSUME NEW d \in Dialogs, FreeLibrary(d)
      PROVE  LockHeld' /\ \A e \in Dialogs : DialogInv(e)'
  BY <1>4, SMT DEF FreeLibrary
<1> QED
  BY <1>1, <1>2, <1>3, <1>4 DEF Remote

LEMMA StepKeeps == InjInv /\ [Next]_vars => InjInv'
<1> SUFFICES ASSUME InjInv, [Next]_vars  PROVE InjInv'
  OBVIOUS
<1>1. CASE UNCHANGED vars
  BY <1>1, SMT
  DEF vars, target, dialog, InjInv, InjTypeOK, LockHeld, DialogInv, ThreadAt, LentAt,
      HandlesAt, OkAt, EjectsAt
<1>2. CASE Next
  <2>1. InjTypeOK'
    BY <1>2, TypeKept DEF InjInv
  <2>2. LockHeld' /\ \A e \in Dialogs : DialogInv(e)'
    BY <1>2, DialogKeeps, TargetKeeps DEF Next
  <2> QED
    BY <2>1, <2>2 DEF InjInv
<1> QED
  BY <1>1, <1>2

THEOREM InjInvariant == Spec => []InjInv
  BY InitInv, StepKeeps, PTL DEF Spec

(* Every variable keeps its type. *)
THEOREM InjTypeCorrect == Spec => []InjTypeOK
<1>1. InjInv => InjTypeOK
  BY DEF InjInv
<1> QED
  BY <1>1, InjInvariant, PTL

(* However many dialogs work on the target, and whether they are killed,    *)
(* fail or wait: the path a remote thread was given is not freed before     *)
(* the thread has ended (InjLib.cpp:129, 133-144).                          *)
THEOREM PathAlwaysWhileRead == Spec => []PathWhileRead
<1>1. InjInv => PathWhileRead
  BY DEF InjInv, DialogInv, ThreadAt, PathWhileRead
<1> QED
  BY <1>1, InjInvariant, PTL

(* Whichever of its calls failed, a dialog back in its message loop, or     *)
(* closed, has left no handle, memory or running thread.                    *)
THEOREM NothingEverLeft == Spec => []NothingLeft
<1>1. InjInv => NothingLeft
  <2> SUFFICES ASSUME InjInv, NEW d \in Dialogs, pc[d] \in {"idle", "closed"}
               PROVE  handles[d] = {} /\ d \notin lent /\ thread[d] \in {"none", "ended"}
    BY DEF NothingLeft
  <2>1. handles[d] = {}
    BY DEF InjInv, DialogInv, HandlesAt
  <2>2. d \notin lent
    BY DEF InjInv, DialogInv, LentAt
  <2>3. thread[d] \notin {"load", "main", "free"}
    BY DEF InjInv, DialogInv, ThreadAt
  <2> QED
    BY <2>1, <2>2, <2>3 DEF InjInv, InjTypeOK
<1> QED
  BY <1>1, InjInvariant, PTL

-----------------------------------------------------------------------------
(* The references *)

(* Nothing a dialog does makes another dialog count on the DLL, and it     *)
(* does not begin to itself: only LoadLibraryW makes it.                   *)
LEMMA DialogCountsNoMore ==
  ASSUME InjInv, NEW d \in Dialogs,
         PressInject(d) \/ Close(d) \/ Killed(d) \/ Calls(d)
  PROVE  Counting' \subseteq Counting /\ UNCHANGED <<refs, alive, missed>>
<1> SUFFICES ASSUME NEW e \in Dialogs
             PROVE  (Counts(e)' => Counts(e)) /\ UNCHANGED <<refs, alive, missed>>
  BY DEF Counting
<1> USE InjAssumption
    DEF InjInv, InjTypeOK, DialogInv, ThreadAt, OkAt, EjectsAt, Counts,
        Injecting, Releasing, Goto, Opened, Started, target, dialog
<1>1. CASE PressInject(d)
  BY <1>1, SMT DEF PressInject
<1>2. CASE Close(d)
  BY <1>2, SMT DEF Close
<1>3. CASE Killed(d)
  BY <1>3, SMT DEF Killed
<1>4. CASE OpenProcess(d)
  BY <1>4, SMT DEF OpenProcess
<1>5. CASE VirtualAllocEx(d)
  BY <1>5, SMT DEF VirtualAllocEx
<1>6. CASE WriteProcessMemory(d)
  BY <1>6, SMT DEF WriteProcessMemory
<1>7. CASE CreateLoader(d)
  BY <1>7, SMT DEF CreateLoader
<1>8. CASE AwaitLoader(d)
  BY <1>8, SMT DEF AwaitLoader
<1>9. CASE Finally(d)
  BY <1>9, SMT DEF Finally
<1>10. CASE Snapshot(d)
  BY <1>10, SMT DEF Snapshot
<1>11. CASE ReopenProcess(d)
  BY <1>11, SMT DEF ReopenProcess
<1>12. CASE CreateFreer(d)
  BY <1>12, SMT DEF CreateFreer
<1>13. CASE AwaitFreer(d)
  BY <1>13, SMT DEF AwaitFreer
<1>14. CASE FinallyEject(d)
  BY <1>14, SMT DEF FinallyEject
<1>15. CASE CallFails(d)
  BY <1>15, SMT DEF CallFails
<1> QED
  BY <1>1, <1>2, <1>3, <1>4, <1>5, <1>6, <1>7, <1>8, <1>9, <1>10,
     <1>11, <1>12, <1>13, <1>14, <1>15
  DEF Calls

(* A load adds one reference and at most one that counts; a thread that    *)
(* frees one was counted until then.                                       *)
LEMMA RefsStep ==
  ASSUME IsFiniteSet(Dialogs), InjInv, RefsSuffice, [Next]_vars
  PROVE  RefsSuffice'
<1> SUFFICES ASSUME alive', ~missed'  PROVE Cardinality(Counting') <= refs'
  BY DEF RefsSuffice
<1>1. IsFiniteSet(Counting) /\ Cardinality(Counting) \in Nat
  BY FS_Subset, FS_CardinalityType DEF Counting
<1>2. refs \in Nat /\ (alive /\ ~missed => Cardinality(Counting) <= refs)
  BY DEF InjInv, InjTypeOK, RefsSuffice
<1>3. ASSUME Counting' \subseteq Counting, UNCHANGED <<refs, alive, missed>>
      PROVE  Cardinality(Counting') <= refs'
  <2>1. Cardinality(Counting') \in Nat /\ Cardinality(Counting') <= Cardinality(Counting)
    BY <1>1, <1>3, FS_Subset, FS_CardinalityType
  <2> QED
    BY <1>1, <1>2, <1>3, <2>1, SMT
<1>4. CASE UNCHANGED vars
  <2>1. Counting' = Counting
    BY <1>4 DEF vars, target, dialog, Counting, Counts
  <2> QED
    BY <1>3, <1>4, <2>1 DEF vars, target
<1>5. ASSUME NEW d \in Dialogs, PressInject(d) \/ Close(d) \/ Killed(d) \/ Calls(d)
      PROVE  Cardinality(Counting') <= refs'
  BY <1>3, <1>5, DialogCountsNoMore
<1>6. CASE CloseBox
  <2>1. thread[inMain] = "main" /\ inMain \in Dialogs
    BY <1>6 DEF CloseBox, InjInv, LockHeld, InjTypeOK
  <2>2. \A e \in Dialogs : Counts(e)' => Counts(e)
    BY <1>6, <2>1, SMT DEF CloseBox, Started, dialog, Counts, InjInv, InjTypeOK
  <2> QED
    BY <1>3, <1>6, <2>2 DEF CloseBox, Counting, dialog
<1>7. CASE TargetExits
  BY <1>7 DEF TargetExits
<1>8. ASSUME NEW d \in Dialogs, LoadLibraryW(d)
      PROVE  Cardinality(Counting') <= refs'
  <2>1. refs' = refs + 1 /\ alive /\ ~missed
    BY <1>8, SMT DEF LoadLibraryW, InjInv, InjTypeOK
  <2>2. \A e \in Dialogs : Counts(e)' => Counts(e) \/ e = d
    BY <1>8, SMT DEF LoadLibraryW, Started, dialog, Counts, InjInv, InjTypeOK
  <2>3. Counting' \subseteq Counting \cup {d}
    BY <2>2 DEF Counting
  <2>4. /\ IsFiniteSet(Counting \cup {d})
        /\ Cardinality(Counting \cup {d}) <= Cardinality(Counting) + 1
        /\ Cardinality(Counting \cup {d}) \in Nat
    <3>1. /\ IsFiniteSet(Counting \cup {d})
          /\ Cardinality(Counting \cup {d}) =
               IF d \in Counting THEN Cardinality(Counting) ELSE Cardinality(Counting) + 1
      BY <1>1, FS_AddElement
    <3> QED
      BY <1>1, <3>1, SMT
  <2>5. Cardinality(Counting') \in Nat
        /\ Cardinality(Counting') <= Cardinality(Counting \cup {d})
    BY <2>3, <2>4, FS_Subset, FS_CardinalityType
  <2> QED
    BY <1>1, <1>2, <2>1, <2>4, <2>5, SMT
<1>9. ASSUME NEW d \in Dialogs, FreeLibrary(d)
      PROVE  Cardinality(Counting') <= refs'
  <2>1. alive /\ ~missed /\ refs' = (IF refs > 0 THEN refs - 1 ELSE 0)
    BY <1>9 DEF FreeLibrary
  <2>2. d \in Ejecting /\ pc[d] \in {"AwaitFreer", "killed"}
    BY <1>9 DEF FreeLibrary, InjInv, DialogInv, ThreadAt
  <2>3. d \in Counting
    BY <1>9, <2>2 DEF FreeLibrary, Counting, Counts
  <2>4. \A e \in Dialogs : Counts(e)' => Counts(e) /\ e # d
    BY <1>9, <2>2, SMT
    DEF FreeLibrary, Started, dialog, Counts, Releasing, InjInv, InjTypeOK
  <2>5. Counting' \subseteq Counting \ {d}
    BY <2>4 DEF Counting
  <2>6. IsFiniteSet(Counting \ {d})
        /\ Cardinality(Counting \ {d}) = Cardinality(Counting) - 1
    BY <1>1, <2>3, FS_RemoveElement
  <2>7. /\ Cardinality(Counting') \in Nat /\ Cardinality(Counting \ {d}) \in Nat
        /\ Cardinality(Counting') <= Cardinality(Counting \ {d})
    BY <2>5, <2>6, FS_Subset, FS_CardinalityType
  <2> QED
    BY <1>1, <1>2, <2>1, <2>6, <2>7, SMT
<1> QED
  BY <1>4, <1>5, <1>6, <1>7, <1>8, <1>9 DEF Next, Remote

(* A DLL loaded for good stays loaded while any number of dialogs come,    *)
(* load it once more and free it, unless one of the loads has failed: each *)
(* frees the reference it took (InjLib.cpp:131, 208).                      *)
THEOREM DllStaysLoaded ==
  ASSUME IsFiniteSet(Dialogs)
  PROVE  Spec => []StaysLoaded
<1>1. InjInit => RefsSuffice
  <2> SUFFICES ASSUME InjInit  PROVE RefsSuffice
    OBVIOUS
  <2>1. Counting = {}
    BY DEF InjInit, Counting, Counts, Releasing
  <2> QED
    BY <2>1, FS_EmptySet DEF RefsSuffice, InjInit
<1>2. InjInv /\ RefsSuffice /\ [Next]_vars => RefsSuffice'
  BY RefsStep
<1>3. InjInv /\ RefsSuffice => StaysLoaded
  <2> SUFFICES ASSUME InjInv, RefsSuffice, alive, ~missed,
                      NEW d \in Dialogs \ Ejecting, told[d] = "successful"
               PROVE  refs > 0
    BY DEF StaysLoaded
  <2>1. d \in Counting
    BY DEF Counting, Counts
  <2>2. IsFiniteSet(Counting)
    BY FS_Subset DEF Counting
  <2>3. Cardinality(Counting) \in Nat /\ Cardinality(Counting) # 0
    BY <2>1, <2>2, FS_CardinalityType, FS_EmptySet
  <2> QED
    BY <2>3, SMT DEF RefsSuffice, InjInv, InjTypeOK
<1> QED
  BY <1>1, <1>2, <1>3, InjInvariant, PTL DEF Spec

=============================================================================
