------------------------------- MODULE ApiHook -------------------------------
(***************************************************************************)
(* hook/api_interception/apihook.cpp: CAPIHook objects in a linked list,   *)
(* each of which puts its replacement in the import table of every module  *)
(* of the process but its own.  One thread constructs and destroys the     *)
(* objects, others load and free modules; nothing locks the list or the    *)
(* tables.  ReplaceIATEntryInAllMods takes a snapshot of the modules and   *)
(* patches them one by one: a step each.                                   *)
(***************************************************************************)
EXTENDS Naturals, FiniteSets

CONSTANTS
  Threads,     (* the threads that load modules                            *)
  Modules, Functions, Hooks,
  Imports,     (* the functions a module imports                           *)
  Home,        (* the module that exports a function                       *)
  Target,      (* the function a CAPIHook is for                           *)
  LoadLibrary, (* the four LoadLibrary functions                           *)
  Own,         (* the module with the code of CAPIHook                     *)
  AtStart,     (* the modules loaded at first, never freed                 *)
  Guarded,     (* modules whose import tables may refuse to be written     *)
  Nil          (* the null pointer                                         *)

ASSUME HookAssumption ==
  /\ Imports \in [Modules -> SUBSET Functions]
  /\ Home \in [Functions -> Modules] /\ Target \in [Hooks -> Functions]
  /\ IsFiniteSet(Hooks)
  /\ LoadLibrary \in Functions
  /\ Own \in AtStart /\ AtStart \subseteq Modules /\ Guarded \subseteq Modules
  /\ \A m \in AtStart, f \in Functions : f \in Imports[m] => Home[f] \in AtStart
  /\ Nil \notin Hooks /\ Hooks \cap Functions = {} /\ Nil \notin Functions

VARIABLES
  loaded,      (* the modules of the process                               *)
  iat,         (* what a module's import table has for a function          *)
  head,        (* sm_pHead                                                 *)
  next,        (* m_pNext of each hook                                     *)
  orig,        (* m_pfnOrig; the hooks are static objects, 0 at first      *)
  life,        (* where a hook is in its constructor or destructor         *)
  todo,        (* modules it has still to patch                            *)
  tpc,         (* where a thread is in FixupNewlyLoadedModule              *)
  cur,         (* its p                                                    *)
  left,        (* modules it has still to patch for p                      *)
  missed,      (* history: modules loaded past the hooks since the last    *)
               (* follow-up                                                *)
  heals,       (* history: those a thread is making up for                 *)
  denied,      (* history: the functions for which an entry of the module  *)
               (* could not be written since it was loaded                 *)
  raced        (* history: hooks whose destructor overlapped a follow-up   *)

vars == <<loaded, iat, head, next, orig, life, todo, tpc, cur, left, missed, heals,
          denied, raced>>

objects == <<head, next, orig, life, todo>>
walkers == <<tpc, cur, left, heals>>
tables  == <<iat, denied>>

Addr == Functions \cup Hooks

Life == {"unborn", "linked", "found", "patching", "alive", "restoring", "restored", "dead"}

HookTypeOK ==
  /\ loaded \subseteq Modules /\ AtStart \subseteq loaded
  /\ iat \in [Modules -> [Functions -> Addr]]
  /\ head \in Hooks \cup {Nil} /\ next \in [Hooks -> Hooks \cup {Nil}]
  /\ orig \in [Hooks -> Functions \cup {Nil}]
  /\ life \in [Hooks -> Life] /\ todo \subseteq Modules
  /\ tpc \in [Threads -> {"idle", "walk", "patch"}]
  /\ cur \in [Threads -> Hooks \cup {Nil}]
  /\ left \in [Threads -> SUBSET Modules]
  /\ missed \subseteq loaded /\ heals \in [Threads -> SUBSET Modules]
  /\ denied \in [Modules -> SUBSET Functions] /\ raced \subseteq Hooks

Fresh == [f \in Functions |-> f]

Init ==
  /\ loaded = AtStart /\ iat = [m \in Modules |-> Fresh]
  /\ head = Nil /\ next = [h \in Hooks |-> Nil] /\ orig = [h \in Hooks |-> Nil]
  /\ life = [h \in Hooks |-> "unborn"] /\ todo = {}
  /\ tpc = [t \in Threads |-> "idle"] /\ cur = [t \in Threads |-> Nil]
  /\ left = [t \in Threads |-> {}]
  /\ missed = {} /\ heals = [t \in Threads |-> {}]
  /\ denied = [m \in Modules |-> {}] /\ raced = {}

-----------------------------------------------------------------------------
(* Import tables *)

(* The snapshot of ReplaceIATEntryInAllMods, without the modules that do    *)
(* not import the function.                                                 *)
Snapshot(h) == {m \in loaded \ {Own} : Target[h] \in Imports[m]}

(* ReplaceIATEntryInOneMod; a module freed since the snapshot is skipped.   *)
(* Whether WriteProcessMemory or VirtualProtect have failed nobody asks:    *)
(* the entry then stays as it was.                                          *)
Replace(m, f, current, new) ==
  IF m \in loaded /\ iat[m][f] = current
  THEN \/ iat' = [iat EXCEPT ![m][f] = new] /\ denied' = denied
       \/ m \in Guarded /\ iat' = iat /\ denied' = [denied EXCEPT ![m] = @ \cup {f}]
  ELSE UNCHANGED tables

-----------------------------------------------------------------------------
(* CAPIHook::CAPIHook *)

Become(h, l) == life' = [life EXCEPT ![h] = l]

(* One object is constructed or destroyed at a time. *)
Settled(h) == life[h] \in {"unborn", "alive", "dead"}

(* Defect: the head is moved before it is saved. *)
ConstructSwapped(h) ==
  /\ life[h] = "unborn" /\ \A g \in Hooks : Settled(g)
  /\ next' = [next EXCEPT ![h] = h] /\ head' = h /\ Become(h, "linked")
  /\ UNCHANGED <<loaded, tables, orig, todo, walkers, missed, raced>>

Construct(h) ==
  /\ life[h] = "unborn" /\ \A g \in Hooks : Settled(g)
  /\ next' = [next EXCEPT ![h] = head] /\ head' = h /\ Become(h, "linked")
  /\ UNCHANGED <<loaded, tables, orig, todo, walkers, missed, raced>>

(* A function whose module is not loaded is not found, and never hooked. *)
FindOriginal(h) ==
  /\ life[h] = "linked"
  /\ IF Home[Target[h]] \in loaded
     THEN orig' = [orig EXCEPT ![h] = Target[h]] /\ Become(h, "found")
     ELSE orig' = orig /\ Become(h, "alive")
  /\ UNCHANGED <<loaded, tables, head, next, todo, walkers, missed, raced>>

BeginPatch(h) ==
  /\ life[h] = "found" /\ Become(h, "patching")
  /\ todo' = Snapshot(h)
  /\ UNCHANGED <<loaded, tables, head, next, orig, walkers, missed, raced>>

Patch(h) ==
  /\ life[h] = "patching"
  /\ \/ \E m \in todo :
          /\ Replace(m, Target[h], orig[h], h) /\ todo' = todo \ {m}
          /\ UNCHANGED life
     \/ todo = {} /\ Become(h, "alive") /\ UNCHANGED <<tables, todo>>
  /\ UNCHANGED <<loaded, head, next, orig, walkers, missed, raced>>

-----------------------------------------------------------------------------
(* CAPIHook::~CAPIHook *)

NobodyWalks == \A t \in Threads : tpc[t] = "idle"

Destroy(h) ==
  /\ life[h] = "alive" /\ \A g \in Hooks : Settled(g)
  /\ todo' = Snapshot(h) /\ Become(h, "restoring")
  /\ raced' = IF NobodyWalks THEN raced ELSE raced \cup {h}
  /\ UNCHANGED <<loaded, tables, head, next, orig, walkers, missed>>

(* Defects: the original address is cleared first; the addresses are given  *)
(* in the order of the constructor.                                         *)
RestoreForgetting(h) ==
  /\ life[h] = "restoring"
  /\ \/ \E m \in todo :
          /\ Replace(m, Target[h], h, Nil) /\ todo' = todo \ {m}
          /\ UNCHANGED life
     \/ todo = {} /\ Become(h, "restored") /\ UNCHANGED <<tables, todo>>
  /\ UNCHANGED <<loaded, head, next, orig, walkers, missed, raced>>

RestoreSwapped(h) ==
  /\ life[h] = "restoring"
  /\ \/ \E m \in todo :
          /\ Replace(m, Target[h], orig[h], h) /\ todo' = todo \ {m}
          /\ UNCHANGED life
     \/ todo = {} /\ Become(h, "restored") /\ UNCHANGED <<tables, todo>>
  /\ UNCHANGED <<loaded, head, next, orig, walkers, missed, raced>>

(* A hook that never found its function has replaced nothing. *)
Restore(h) ==
  /\ life[h] = "restoring"
  /\ \/ \E m \in todo :
          /\ Replace(m, Target[h], h, orig[h]) /\ todo' = todo \ {m}
          /\ UNCHANGED life
     \/ todo = {} /\ Become(h, "restored") /\ UNCHANGED <<tables, todo>>
  /\ UNCHANGED <<loaded, head, next, orig, walkers, missed, raced>>

Unlink(h) ==
  /\ life[h] = "restored" /\ Become(h, "dead")
  /\ IF head = h THEN head' = next[h] /\ UNCHANGED next
     ELSE /\ next' = [g \in Hooks |-> IF next[g] = h /\ life[g] # "dead"
                                      THEN next[h] ELSE next[g]]
          /\ UNCHANGED head
  /\ UNCHANGED <<loaded, tables, orig, todo, walkers, missed, raced>>

-----------------------------------------------------------------------------
(* The list, from sm_pHead on. *)
Places == 0..Cardinality(Hooks)
chain[i \in Places] ==
  IF i = 0 THEN head ELSE IF chain[i - 1] = Nil THEN Nil ELSE next[chain[i - 1]]

(* CAPIHook::GetProcAddress: the first hook of the list for the address.    *)
GetProcAddress(f) ==
  LET found == {i \in Places : chain[i] # Nil /\ orig[chain[i]] = f}
  IN  IF found = {} THEN f ELSE chain[CHOOSE i \in found : \A j \in found : i <= j]

(* LoadLibrary and FixupNewlyLoadedModule *)

(* A module comes with the modules it imports from. *)
Arriving(m) == ({m} \cup {Home[f] : f \in Imports[m]}) \ loaded

Arrive(m) ==
  /\ loaded' = loaded \cup Arriving(m)
  /\ iat' = [k \in Modules |-> IF k \in Arriving(m) THEN Fresh ELSE iat[k]]

Destroying == {h \in Hooks : life[h] \in {"restoring", "restored"}}

(* The caller's table leads to CAPIHook::LoadLibrary, and the module's load *)
(* is followed up for every hook of the list, one that is being destroyed   *)
(* included.                                                                *)
LoadCaught(t, caller, m) ==
  /\ tpc[t] = "idle" /\ caller \in loaded /\ iat[caller][LoadLibrary] \in Hooks
  /\ m # Own /\ Arrive(m) /\ raced' = raced \cup Destroying
  /\ tpc' = [tpc EXCEPT ![t] = "walk"] /\ cur' = [cur EXCEPT ![t] = head]
  /\ heals' = [heals EXCEPT ![t] = missed \cup Arriving(m)]
  /\ missed' = missed \cup Arriving(m)
  /\ UNCHANGED <<objects, left, denied>>

(* A call that no hook sees: from the module of CAPIHook itself, before the *)
(* hooks are there, or from within the system.                              *)
LoadPast(m) ==
  /\ m \notin loaded /\ Arrive(m)
  /\ missed' = missed \cup Arriving(m)
  /\ UNCHANGED <<objects, walkers, denied, raced>>

(* Defect: the walk ends at a hook that did not find its function. *)
WalkStopping(t) ==
  /\ tpc[t] = "walk"
  /\ \/ /\ cur[t] # Nil => orig[cur[t]] = Nil
        /\ tpc' = [tpc EXCEPT ![t] = "idle"] /\ cur' = [cur EXCEPT ![t] = Nil]
        /\ missed' = missed \ heals[t] /\ heals' = [heals EXCEPT ![t] = {}]
        /\ UNCHANGED left
     \/ /\ cur[t] # Nil /\ orig[cur[t]] # Nil
        /\ tpc' = [tpc EXCEPT ![t] = "patch"]
        /\ left' = [left EXCEPT ![t] = Snapshot(cur[t])]
        /\ UNCHANGED <<cur, missed, heals>>
  /\ UNCHANGED <<loaded, tables, objects, raced>>

Walk(t) ==
  /\ tpc[t] = "walk"
  /\ \/ /\ cur[t] = Nil /\ tpc' = [tpc EXCEPT ![t] = "idle"]
        /\ missed' = missed \ heals[t] /\ heals' = [heals EXCEPT ![t] = {}]
        /\ UNCHANGED <<cur, left>>
     \/ /\ cur[t] # Nil /\ orig[cur[t]] = Nil
        /\ cur' = [cur EXCEPT ![t] = next[cur[t]]]
        /\ UNCHANGED <<tpc, left, missed, heals>>
     \/ /\ cur[t] # Nil /\ orig[cur[t]] # Nil
        /\ tpc' = [tpc EXCEPT ![t] = "patch"]
        /\ left' = [left EXCEPT ![t] = Snapshot(cur[t])]
        /\ UNCHANGED <<cur, missed, heals>>
  /\ UNCHANGED <<loaded, tables, objects, raced>>

WalkPatch(t) ==
  LET h == cur[t]
  IN  /\ tpc[t] = "patch"
      /\ \/ \E m \in left[t] :
              /\ Replace(m, Target[h], orig[h], h)
              /\ left' = [left EXCEPT ![t] = @ \ {m}]
              /\ UNCHANGED <<tpc, cur>>
         \/ /\ left[t] = {}
            /\ tpc' = [tpc EXCEPT ![t] = "walk"] /\ cur' = [cur EXCEPT ![t] = next[h]]
            /\ UNCHANGED <<tables, left>>
      /\ UNCHANGED <<loaded, objects, missed, heals, raced>>

Free(m) ==
  /\ m \in loaded \ AtStart
  /\ \A k \in loaded, f \in Functions : k # m /\ f \in Imports[k] => Home[f] # m
  /\ loaded' = loaded \ {m} /\ missed' = missed \ {m}
  /\ heals' = [t \in Threads |-> heals[t] \ {m}]
  /\ denied' = [denied EXCEPT ![m] = {}]
  /\ UNCHANGED <<iat, objects, tpc, cur, left, raced>>

-----------------------------------------------------------------------------

Object(h) ==
  FindOriginal(h) \/ BeginPatch(h) \/ Patch(h) \/ Restore(h) \/ Unlink(h)

Thread(t) == Walk(t) \/ WalkPatch(t)

Next ==
  \/ \E h \in Hooks : Construct(h) \/ Destroy(h) \/ Object(h)
  \/ \E t \in Threads : Thread(t)
  \/ \E t \in Threads, caller, m \in Modules : LoadCaught(t, caller, m)
  \/ \E m \in Modules : LoadPast(m) \/ Free(m)

Spec == Init /\ [][Next]_vars

FairSpec == Spec /\ \A t \in Threads : WF_vars(Thread(t))

-----------------------------------------------------------------------------
(* Properties *)

(* The hooks between construction and destruction. *)
Linked == {h \in Hooks : life[h] \notin {"unborn", "dead"}}

(* The list is finite and holds these hooks and no other, in whatever order *)
(* they were constructed and destroyed, and while others walk along it.     *)
ListIntact == {chain[i] : i \in Places} \ {Nil} = Linked /\ chain[Cardinality(Hooks)] = Nil

(* No import leads to the replacement of a hook that is gone, nor of one    *)
(* for another function; the module of CAPIHook itself imports the original *)
(* (CAPIHook::LoadLibrary calls LoadLibrary through its own table).  Two    *)
(* cases the code leaves to luck: a hook whose destructor overlapped a      *)
(* follow-up, which may patch a table for it once more behind the           *)
(* destructor's back (apihook.cpp:349 takes no lock), and an entry that     *)
(* could not be written (apihook.cpp:228).                                  *)
NoneDangles ==
  \A m \in loaded, f \in Functions :
    /\ iat[m][f] \in {f} \cup {h \in Hooks : Target[h] = f}
    /\ m = Own => iat[m][f] = f
    /\ iat[m][f] \in Linked \cup raced \cup {f} \/ f \in denied[m]

(* A call through the import table reaches a replacement exactly if one by  *)
(* way of GetProcAddress does, in every module whose load was followed up   *)
(* or preceded the hook.  Not after one of two hooks on a function was      *)
(* destroyed: that may take the imports from the other one, too.  Nor       *)
(* after a destructor that overlapped a follow-up, and not for an entry     *)
(* that could not be written: see NoneDangles.                              *)
SameWay ==
  \A f \in Functions, m \in loaded \ (missed \cup {Own}) :
    LET on == {h \in Hooks : Target[h] = f}
    IN  /\ f \in Imports[m] \ denied[m] /\ \A h \in on : Settled(h)
        /\ \A h \in on : life[h] = "dead" => on = {h} /\ h \notin raced
        => (iat[m][f] \in Hooks <=> GetProcAddress(f) \in Hooks)

(* LoadLibrary returns to its caller, however many hooks are constructed or *)
(* destroyed while it walks along the list, the one it stands on included.  *)
LoadReturns == \A t \in Threads : tpc[t] # "idle" ~> tpc[t] = "idle"

=============================================================================
